--------------------------- MODULE SurfacesProofs ---------------------------
(***************************************************************************)
(* Proofs about the components that MCSurfaces explores together, each     *)
(* about the component's own specification and for every value of its      *)
(* constants.                                                              *)
(*   Part 1  UsbDrivers: what the drivers call, send and report.           *)
(*   Part 2  PushAccess: what web clients have been told, and who may act. *)
(*   Part 3  DockIdentity: which identity Elgato's app has been told.      *)
(*   Part 4  StripZones: whose picture every zone of a touch strip shows.  *)
(*   Part 5  BrowserDeck: what the dock hears and the browser pages show.  *)
(***************************************************************************)
EXTENDS MCSurfaces, SequenceTheorems, FiniteSetTheorems, WellFoundedInduction, NaturalsInduction, TLAPS

(***************************************************************************)
(* Part 1. UsbDrivers, for every set of keys, pictures and levels and every *)
(* number of messages, reports and replugs.                                *)
(***************************************************************************)

ReportRecs == [key : PanelKeys, down : BOOLEAN, state : SUBSET PanelKeys]
DriverRecs == [open : BOOLEAN, lib : BOOLEAN, reading : BOOLEAN, beating : BOOLEAN,
               asleep : BOOLEAN, lastLevel : Brightness, batch : BOOLEAN, pendingStp : BOOLEAN,
               keys : SUBSET PanelKeys]
UnitRecs == [family : Families, plugged : BOOLEAN, lost : BOOLEAN, awake : BOOLEAN,
             level : Brightness, shown : [PanelKeys -> Nat],
             loaded : [PanelKeys -> Nat \cup {-1}], held : SUBSET PanelKeys,
             reports : Seq(ReportRecs), slept : BOOLEAN]

LibraryRecs == [up : BOOLEAN, handles : Nat]
HeardRecs == [down : SUBSET PanelKeys, told : BOOLEAN, repeated : BOOLEAN]
GhostRecs == [wanted : [PanelKeys -> Nat], level : Brightness, fresh : SUBSET PanelKeys,
              ops : Nat, plugs : Nat]

UsbTypeOK ==
  /\ hid \in LibraryRecs /\ drv \in DriverRecs /\ unit \in UnitRecs /\ heard \in HeardRecs
  /\ ghost \in GhostRecs

(* A handle outlives its unit only as a lost one. *)
LostWithUnit == drv.open /\ ~unit.plugged => unit.lost

(* What the panel will show once everything uploaded is latched is what was sent last; outside
   a batch nothing waits for the latch, inside one the driver remembers that something does. *)
PanelOwesLatch ==
  Reaches =>
    /\ \A k \in PanelKeys :
         ghost.wanted[k] = IF unit.loaded[k] = -1 THEN unit.shown[k] ELSE unit.loaded[k]
    /\ ~drv.batch => unit.loaded = NoUpload
    /\ drv.batch => Mirabox(unit.family) /\ (unit.loaded # NoUpload => drv.pendingStp)

(* Brightness and sleep: the level is the last one asked for, also while the computer slept,
   and the AKP05 keep-alive repeats no other. *)
LevelIsLast ==
  Reaches =>
    /\ unit.level = ghost.level
    /\ unit.family = "akp05" => drv.lastLevel = ghost.level
    /\ ~unit.slept => unit.awake = ~drv.asleep
    /\ ~Mirabox(unit.family) => ~drv.asleep

(* The last report of key k among those unread is number i. *)
LastOf(k, i) ==
  /\ unit.reports[i].key = k
  /\ \A j \in DOMAIN unit.reports : j > i => unit.reports[j].key # k

(* A key whose reports are all read is down as it is held; one with unread reports will be
   after the last of them. *)
KeyReports ==
  Reaches /\ unit.family # "elgato" =>
    IF SynthesizesKeyUp(unit.family) THEN heard.down = {}
    ELSE \A k \in PanelKeys :
           /\ \A i \in DOMAIN unit.reports : LastOf(k, i) => (unit.reports[i].down <=> k \in unit.held)
           /\ (\A i \in DOMAIN unit.reports : unit.reports[i].key # k) /\ k \in ghost.fresh =>
                (k \in heard.down <=> k \in unit.held)

(* An Elgato driver tells the differences of the states it has read, the last of which is
   what is held. *)
StateReports ==
  /\ ~heard.repeated
  /\ drv.open /\ unit.family = "elgato" => heard.down = drv.keys
  /\ Reaches /\ unit.family = "elgato" =>
       IF unit.reports = << >> THEN ghost.fresh = {} \/ drv.keys = unit.held
       ELSE unit.reports[Len(unit.reports)].state = unit.held

(* The inductive invariant. *)
UsbInv ==
  /\ UsbTypeOK /\ NativeCallsAreSafe /\ LostWithUnit /\ PanelOwesLatch /\ LevelIsLast
  /\ KeyReports /\ StateReports

(* Every mutation of the ghost record that the actions use keeps its type. *)
LEMMA GhostFields ==
  ASSUME NEW g \in GhostRecs
  PROVE  /\ g.wanted \in [PanelKeys -> Nat] /\ g.level \in Brightness
         /\ g.fresh \in SUBSET PanelKeys /\ g.ops \in Nat /\ g.plugs \in Nat
         /\ g.ops + 1 \in Nat /\ g.plugs + 1 \in Nat
<1>1. g.ops \in Nat /\ g.plugs \in Nat  BY DEF GhostRecs
<1>2. g.ops + 1 \in Nat /\ g.plugs + 1 \in Nat  BY ONLY <1>1
<1>3. g.wanted \in [PanelKeys -> Nat] /\ g.level \in Brightness /\ g.fresh \in SUBSET PanelKeys
  BY DEF GhostRecs
<1> QED BY <1>1, <1>2, <1>3

LEMMA GhostUsed ==
  ASSUME NEW g \in GhostRecs
  PROVE  [g EXCEPT !.ops = @ + 1] \in GhostRecs
BY GhostFields DEF GhostRecs

LEMMA GhostLevel ==
  ASSUME NEW g \in GhostRecs, NEW l \in Brightness
  PROVE  [g EXCEPT !.ops = @ + 1, !.level = l] \in GhostRecs
<1>1. g.ops + 1 \in Nat  BY GhostFields
<1> QED BY <1>1 DEF GhostRecs

LEMMA GhostWants ==
  ASSUME NEW g \in GhostRecs, NEW k \in PanelKeys, NEW p \in Nat
  PROVE  [g EXCEPT !.ops = @ + 1, !.wanted[k] = p] \in GhostRecs
<1>1. g.ops + 1 \in Nat  BY GhostFields
<1>2. [g.wanted EXCEPT ![k] = p] \in [PanelKeys -> Nat]  BY DEF GhostRecs
<1> QED BY <1>1, <1>2 DEF GhostRecs

LEMMA GhostPlug ==
  ASSUME NEW g \in GhostRecs
  PROVE  [g EXCEPT !.plugs = @ + 1] \in GhostRecs
<1>1. g.plugs + 1 \in Nat  BY GhostFields
<1> QED BY <1>1 DEF GhostRecs
LEMMA BlankTypes ==
  /\ BlankPanel \in [PanelKeys -> Nat]
  /\ NoUpload \in [PanelKeys -> Nat \cup {-1}]
BY DEF BlankPanel, NoUpload

LEMMA InitialisedType ==
  ASSUME NEW u \in UnitRecs, NEW l \in Brightness
  PROVE  /\ Initialised(u, l) \in UnitRecs
         /\ [Initialised(u, l) EXCEPT !.reports = << >>] \in UnitRecs
<1>1. << >> \in Seq(ReportRecs)  OBVIOUS
<1> QED BY <1>1, BlankTypes DEF Initialised, UnitRecs

(* A refused open leaves the closed driver and its library as they were. *)
LEMMA OpenRefusedKeeps ==
  ASSUME UsbInv, OpenRefused
  PROVE  UsbInv'
<1>1. UsbTypeOK'
  <2>1. hid' \in LibraryRecs
    BY UsbAssumption DEF UsbInv, UsbTypeOK, OpenRefused, UsbUsed, ClosedDriver, LibraryRecs,
       NativeCallsAreSafe
  <2>2. drv' \in DriverRecs
    BY UsbAssumption DEF UsbInv, UsbTypeOK, OpenRefused, UsbUsed, ClosedDriver, DriverRecs
  <2>3. unit' \in UnitRecs
    BY UsbAssumption DEF UsbInv, UsbTypeOK, OpenRefused, UsbUsed, ClosedDriver, UnitRecs,
       DriverRecs, NoUpload
  <2>4. heard' \in HeardRecs
    BY UsbAssumption DEF UsbInv, UsbTypeOK, OpenRefused, UsbUsed, ClosedDriver, HeardRecs
  <2>5. ghost' \in GhostRecs  BY GhostUsed DEF UsbInv, UsbTypeOK, OpenRefused, UsbUsed, Wanting
  <2> QED BY <2>1, <2>2, <2>3, <2>4, <2>5 DEF UsbTypeOK
<1>2. NativeCallsAreSafe'
  BY UsbAssumption DEF UsbInv, UsbTypeOK, OpenRefused, UsbUsed, ClosedDriver, LibraryRecs,
     DriverRecs, HeardRecs, NativeCallsAreSafe
<1>3. LostWithUnit'
  BY UsbAssumption DEF UsbInv, UsbTypeOK, OpenRefused, UsbUsed, ClosedDriver, DriverRecs,
     UnitRecs, LostWithUnit
<1>4. PanelOwesLatch'
  BY UsbAssumption DEF UsbInv, UsbTypeOK, OpenRefused, UsbUsed, ClosedDriver, DriverRecs,
     UnitRecs, GhostRecs, Reaches, NoUpload, Mirabox, PanelOwesLatch, LostWithUnit
<1>5. LevelIsLast'
  BY UsbAssumption DEF UsbInv, UsbTypeOK, OpenRefused, UsbUsed, ClosedDriver, DriverRecs,
     UnitRecs, GhostRecs, Reaches, Mirabox, LevelIsLast, LostWithUnit
<1>6. KeyReports'
  BY UsbAssumption DEF UsbInv, UsbTypeOK, OpenRefused, UsbUsed, ClosedDriver, DriverRecs,
     UnitRecs, HeardRecs, GhostRecs, Reaches, Mirabox, SynthesizesKeyUp, KeyReports, LastOf,
     LostWithUnit
<1>7. StateReports'
  BY UsbAssumption DEF UsbInv, UsbTypeOK, OpenRefused, UsbUsed, ClosedDriver, DriverRecs,
     UnitRecs, HeardRecs, GhostRecs, Reaches, Mirabox, StateReports, LostWithUnit
<1> QED BY <1>1, <1>2, <1>3, <1>4, <1>5, <1>6, <1>7 DEF UsbInv

(* An open starts from a blank panel, no unread report and no key known. *)
LEMMA OpenUnitKeeps ==
  ASSUME UsbInv, OpenUnit
  PROVE  UsbInv'
<1>1. UsbTypeOK'
  <2>1. hid' \in LibraryRecs
    BY UsbAssumption DEF UsbInv, UsbTypeOK, OpenUnit, ClosedDriver, Initialised, BlankPanel,
       LibraryRecs, NativeCallsAreSafe
  <2>2. drv' \in DriverRecs
    BY UsbAssumption DEF UsbInv, UsbTypeOK, OpenUnit, ClosedDriver, Initialised, BlankPanel,
       DriverRecs, UnitRecs
  <2>3. unit' \in UnitRecs  BY InitialisedType, UsbAssumption DEF UsbInv, UsbTypeOK, OpenUnit
  <2>4. heard' \in HeardRecs
    BY UsbAssumption DEF UsbInv, UsbTypeOK, OpenUnit, ClosedDriver, Initialised, BlankPanel,
       HeardRecs, UnitRecs
  <2>5. ghost' \in GhostRecs
    BY UsbAssumption DEF UsbInv, UsbTypeOK, OpenUnit, ClosedDriver, Initialised, BlankPanel,
       GhostRecs, UnitRecs
  <2> QED BY <2>1, <2>2, <2>3, <2>4, <2>5 DEF UsbTypeOK
<1>2. NativeCallsAreSafe'
  BY UsbAssumption DEF UsbInv, UsbTypeOK, OpenUnit, ClosedDriver, Initialised, BlankPanel,
     LibraryRecs, DriverRecs, HeardRecs, NativeCallsAreSafe
<1>3. LostWithUnit'
  BY UsbAssumption DEF UsbInv, UsbTypeOK, OpenUnit, ClosedDriver, Initialised, BlankPanel,
     DriverRecs, UnitRecs, LostWithUnit
<1>4. PanelOwesLatch'
  BY UsbAssumption DEF UsbInv, UsbTypeOK, OpenUnit, ClosedDriver, Initialised, BlankPanel,
     DriverRecs, UnitRecs, GhostRecs, Reaches, NoUpload, Mirabox, PanelOwesLatch, LostWithUnit
<1>5. LevelIsLast'
  BY UsbAssumption DEF UsbInv, UsbTypeOK, OpenUnit, ClosedDriver, Initialised, BlankPanel,
     DriverRecs, UnitRecs, GhostRecs, Reaches, Mirabox, LevelIsLast, LostWithUnit
<1>6. KeyReports'
  BY UsbAssumption DEF UsbInv, UsbTypeOK, OpenUnit, ClosedDriver, Initialised, BlankPanel,
     DriverRecs, UnitRecs, HeardRecs, GhostRecs, Reaches, Mirabox, SynthesizesKeyUp, KeyReports,
     LastOf, LostWithUnit
<1>7. StateReports'
  BY UsbAssumption DEF UsbInv, UsbTypeOK, OpenUnit, ClosedDriver, Initialised, BlankPanel,
     DriverRecs, UnitRecs, HeardRecs, GhostRecs, Reaches, Mirabox, StateReports, LostWithUnit
<1> QED BY <1>1, <1>2, <1>3, <1>4, <1>5, <1>6, <1>7 DEF UsbInv

(* A close frees the handle, the library and the timers, also without the unit. *)
LEMMA CloseUnitKeeps ==
  ASSUME UsbInv, CloseUnit
  PROVE  UsbInv'
<1>1. UsbTypeOK'
  <2>1. hid' \in LibraryRecs
    BY UsbAssumption DEF UsbInv, UsbTypeOK, CloseUnit, CleanedUp, Initialised, BlankPanel,
       LibraryRecs, NativeCallsAreSafe
  <2>2. drv' \in DriverRecs
    BY UsbAssumption DEF UsbInv, UsbTypeOK, CloseUnit, CleanedUp, Initialised, BlankPanel,
       DriverRecs
  <2>3. unit' \in UnitRecs
    BY UsbAssumption DEF UsbInv, UsbTypeOK, CloseUnit, CleanedUp, Initialised, BlankPanel,
       UnitRecs, DriverRecs, NoUpload
  <2>4. heard' \in HeardRecs
    BY UsbAssumption DEF UsbInv, UsbTypeOK, CloseUnit, CleanedUp, Initialised, BlankPanel,
       HeardRecs
  <2>5. ghost' \in GhostRecs
    BY UsbAssumption DEF UsbInv, UsbTypeOK, CloseUnit, CleanedUp, Initialised, BlankPanel,
       GhostRecs
  <2> QED BY <2>1, <2>2, <2>3, <2>4, <2>5 DEF UsbTypeOK
<1>2. NativeCallsAreSafe'
  BY UsbAssumption DEF UsbInv, UsbTypeOK, CloseUnit, CleanedUp, Initialised, BlankPanel,
     LibraryRecs, DriverRecs, HeardRecs, NativeCallsAreSafe
<1>3. LostWithUnit'
  BY UsbAssumption DEF UsbInv, UsbTypeOK, CloseUnit, CleanedUp, Initialised, BlankPanel,
     DriverRecs, UnitRecs, LostWithUnit
<1>4. PanelOwesLatch'
  BY UsbAssumption DEF UsbInv, UsbTypeOK, CloseUnit, CleanedUp, Initialised, BlankPanel,
     DriverRecs, UnitRecs, GhostRecs, Reaches, NoUpload, Mirabox, PanelOwesLatch, LostWithUnit
<1>5. LevelIsLast'
  BY UsbAssumption DEF UsbInv, UsbTypeOK, CloseUnit, CleanedUp, Initialised, BlankPanel,
     DriverRecs, UnitRecs, GhostRecs, Reaches, Mirabox, LevelIsLast, LostWithUnit
<1>6. KeyReports'
  BY UsbAssumption DEF UsbInv, UsbTypeOK, CloseUnit, CleanedUp, Initialised, BlankPanel,
     DriverRecs, UnitRecs, HeardRecs, GhostRecs, Reaches, Mirabox, SynthesizesKeyUp, KeyReports,
     LastOf, LostWithUnit
<1>7. StateReports'
  BY UsbAssumption DEF UsbInv, UsbTypeOK, CloseUnit, CleanedUp, Initialised, BlankPanel,
     DriverRecs, UnitRecs, HeardRecs, GhostRecs, Reaches, Mirabox, StateReports, LostWithUnit
<1> QED BY <1>1, <1>2, <1>3, <1>4, <1>5, <1>6, <1>7 DEF UsbInv

(* The read timer: the loss of the unit frees everything; a report moves the pressed keys. *)
LEMMA ReadTickKeeps ==
  ASSUME UsbInv, ReadTick
  PROVE  UsbInv'
<1>1. CASE ~unit.plugged \/ unit.lost
  <2>1. CleanedUp /\ heard' = [heard EXCEPT !.told = TRUE] /\ UNCHANGED <<unit, ghost>>
    BY <1>1 DEF ReadTick, UsbInv, UsbTypeOK, UnitRecs
  <2>2. /\ drv.open /\ hid \in LibraryRecs /\ drv \in DriverRecs /\ heard \in HeardRecs
        /\ hid.handles = 1
    BY DEF ReadTick, UsbInv, UsbTypeOK, NativeCallsAreSafe
  <2>3. drv' \in DriverRecs /\ drv'.open = FALSE /\ drv'.lib = FALSE /\ drv'.reading = FALSE
        /\ drv'.beating = FALSE
    BY <2>1, <2>2 DEF CleanedUp, DriverRecs
  <2>4. hid' \in LibraryRecs /\ hid'.handles = 0 /\ hid'.up = FALSE  BY <2>1, <2>2 DEF CleanedUp,
      LibraryRecs
  <2>5. heard' \in HeardRecs /\ heard'.told /\ heard'.repeated = heard.repeated
    BY <2>1, <2>2 DEF HeardRecs
  <2>6. ~Reaches'  BY <2>3 DEF Reaches
  <2>7. UsbTypeOK'  BY <2>1, <2>3, <2>4, <2>5 DEF UsbInv, UsbTypeOK
  <2>8. NativeCallsAreSafe'  BY <2>3, <2>4, <2>5 DEF NativeCallsAreSafe
  <2>9. LostWithUnit' /\ PanelOwesLatch' /\ LevelIsLast' /\ KeyReports'
    BY <2>3, <2>6 DEF LostWithUnit, PanelOwesLatch, LevelIsLast, KeyReports
  <2>10. StateReports'  BY <2>3, <2>5, <2>6 DEF UsbInv, StateReports
  <2> QED BY <2>7, <2>8, <2>9, <2>10 DEF UsbInv
<1>2. CASE unit.plugged /\ ~unit.lost
  <2> DEFINE r == Head(unit.reports)
  <2>1. /\ unit.reports # << >> /\ (ParsedKey(r) \/ ParsedStates(r))
        /\ unit' = [unit EXCEPT !.reports = Tail(@)] /\ hid' = hid
        /\ drv.open /\ drv.reading
    BY <1>2 DEF ReadTick, UsbInv, UsbTypeOK, UnitRecs
  <2>2. UsbTypeOK /\ unit.reports \in Seq(ReportRecs)  BY DEF UsbInv, UsbTypeOK, UnitRecs
  <2>3. /\ r \in ReportRecs /\ Tail(unit.reports) \in Seq(ReportRecs) /\ r = unit.reports[1]
        /\ Len(unit.reports) \in Nat \ {0} /\ Len(Tail(unit.reports)) = Len(unit.reports) - 1
        /\ \A i \in 1 .. Len(unit.reports) - 1 : Tail(unit.reports)[i] = unit.reports[i + 1]
        /\ DOMAIN Tail(unit.reports) = 1 .. Len(unit.reports) - 1
        /\ DOMAIN unit.reports = 1 .. Len(unit.reports)
        /\ unit.reports[Len(unit.reports)] \in ReportRecs
    BY <2>1, <2>2
  <2>4. /\ unit' \in UnitRecs /\ unit'.reports = Tail(unit.reports)
        /\ unit'.family = unit.family /\ unit'.plugged = unit.plugged /\ unit'.lost = unit.lost
        /\ unit'.awake = unit.awake /\ unit'.level = unit.level /\ unit'.shown = unit.shown
        /\ unit'.loaded = unit.loaded /\ unit'.held = unit.held /\ unit'.slept = unit.slept
    BY <2>1, <2>2, <2>3 DEF UsbTypeOK, UnitRecs
  <2> HIDE DEF r
  <2>5. r.key \in PanelKeys /\ r.down \in BOOLEAN /\ r.state \in SUBSET PanelKeys
    BY <2>3 DEF ReportRecs
  <2>6. /\ drv' \in DriverRecs /\ heard' \in HeardRecs /\ ghost' \in GhostRecs
        /\ ghost'.wanted = ghost.wanted /\ ghost'.level = ghost.level /\ heard'.told = heard.told
        /\ drv'.open = drv.open /\ drv'.lib = drv.lib /\ drv'.reading = drv.reading
        /\ drv'.beating = drv.beating /\ drv'.asleep = drv.asleep /\ drv'.batch = drv.batch
        /\ drv'.lastLevel = drv.lastLevel /\ drv'.pendingStp = drv.pendingStp
    <3>1. CASE ParsedKey(r)
      BY <3>1, <2>2, <2>5 DEF ParsedKey, UsbTypeOK, DriverRecs, HeardRecs, GhostRecs
    <3>2. CASE ParsedStates(r)
      <4>1. heard' \in HeardRecs /\ heard'.told = heard.told
        BY <3>2, <2>2, <2>5 DEF ParsedStates, UsbTypeOK, DriverRecs, HeardRecs
      <4> QED BY <4>1, <3>2, <2>2, <2>5 DEF ParsedStates, UsbTypeOK, DriverRecs, GhostRecs
    <3> QED BY <3>1, <3>2, <2>1
  <2>7. UsbTypeOK'  BY <2>1, <2>2, <2>4, <2>6 DEF UsbTypeOK
  <2>8. NativeCallsAreSafe' /\ LostWithUnit' /\ LevelIsLast'
    BY <2>1, <2>4, <2>6 DEF UsbInv, NativeCallsAreSafe, LostWithUnit, LevelIsLast, Reaches
  <2>9. PanelOwesLatch'
    BY <2>4, <2>6 DEF UsbInv, PanelOwesLatch, Reaches
  <2>10. KeyReports' /\ StateReports'
    <3>1. CASE ParsedKey(r)
      <4>1. /\ unit.family # "elgato" /\ drv' = drv /\ heard'.repeated = heard.repeated
            /\ heard'.down = IF r.down /\ ~SynthesizesKeyUp(unit.family)
                               THEN heard.down \cup {r.key} ELSE heard.down \ {r.key}
            /\ ghost'.fresh = ghost.fresh \cup {r.key}
        BY <3>1, <2>2 DEF ParsedKey, UsbTypeOK, HeardRecs, GhostRecs
      <4>2. StateReports'  BY <4>1, <2>4 DEF UsbInv, StateReports
      <4>3. Reaches' = Reaches  BY <2>4, <2>6 DEF Reaches
      <4>4. SUFFICES ASSUME Reaches, ~SynthesizesKeyUp(unit.family), NEW q \in PanelKeys
                     PROVE  /\ \A i \in DOMAIN unit'.reports :
                                 LastOf(q, i)' => (unit'.reports[i].down <=> q \in unit'.held)
                            /\ (\A i \in DOMAIN unit'.reports : unit'.reports[i].key # q)
                                 /\ q \in ghost'.fresh => (q \in heard'.down <=> q \in unit'.held)
        BY <4>1, <4>2, <4>3, <2>4 DEF UsbInv, KeyReports
      <4>5. /\ \A i \in DOMAIN unit.reports : LastOf(q, i) => (unit.reports[i].down <=> q \in unit.held)
            /\ (\A i \in DOMAIN unit.reports : unit.reports[i].key # q) /\ q \in ghost.fresh =>
                 (q \in heard.down <=> q \in unit.held)
        BY <4>1, <4>4 DEF UsbInv, KeyReports
      <4>6. ASSUME NEW i \in DOMAIN unit'.reports, LastOf(q, i)'
            PROVE  unit'.reports[i].down <=> q \in unit'.held
        <5>1. i + 1 \in DOMAIN unit.reports /\ unit'.reports[i] = unit.reports[i + 1]
          BY <2>3, <2>4
        <5>2. LastOf(q, i + 1)
          <6>1. unit.reports[i + 1].key = q  BY <4>6, <5>1 DEF LastOf
          <6>2. ASSUME NEW j \in DOMAIN unit.reports, j > i + 1  PROVE unit.reports[j].key # q
            <7>1. j - 1 \in DOMAIN unit'.reports /\ j - 1 > i /\ unit'.reports[j - 1] = unit.reports[j]
              BY <6>2, <2>3, <2>4
            <7> QED BY <7>1, <4>6 DEF LastOf
          <6> QED BY <6>1, <6>2 DEF LastOf
        <5> QED BY <5>1, <5>2, <4>5, <2>4
      <4>7. ASSUME \A i \in DOMAIN unit'.reports : unit'.reports[i].key # q, q \in ghost'.fresh
            PROVE  q \in heard'.down <=> q \in unit'.held
        <5>1. \A i \in DOMAIN unit.reports : i # 1 => unit.reports[i].key # q
          <6>1. TAKE i \in DOMAIN unit.reports
          <6>2. HAVE i # 1
          <6>3. i - 1 \in DOMAIN unit'.reports /\ unit'.reports[i - 1] = unit.reports[i]
            BY <6>2, <2>3, <2>4
          <6> QED BY <6>3, <4>7
        <5>2. CASE r.key = q
          <6>1. 1 \in DOMAIN unit.reports /\ LastOf(q, 1)  BY <5>1, <5>2, <2>3 DEF LastOf
          <6>2. r.down <=> q \in unit.held  BY <6>1, <4>5, <2>3
          <6> QED BY <6>2, <5>2, <4>1, <4>4, <2>4
        <5>3. CASE r.key # q
          <6>1. \A i \in DOMAIN unit.reports : unit.reports[i].key # q  BY <5>1, <5>3, <2>3
          <6>2. q \in ghost.fresh /\ (q \in heard'.down <=> q \in heard.down)  BY <5>3, <4>1, <4>7
          <6> QED BY <6>1, <6>2, <4>5, <2>4
        <5> QED BY <5>2, <5>3
      <4> QED BY <4>6, <4>7
    <3>2. CASE ParsedStates(r)
      <4>1. /\ unit.family = "elgato" /\ drv'.keys = r.state /\ ghost'.fresh = PanelKeys
            /\ heard'.down = (heard.down \cup (r.state \ drv.keys)) \ (drv.keys \ r.state)
            /\ heard'.repeated = (heard.repeated \/ (r.state \ drv.keys) \cap heard.down # {})
        BY <3>2, <2>2 DEF ParsedStates, UsbTypeOK, DriverRecs, HeardRecs, GhostRecs
      <4>2. KeyReports'  BY <4>1, <2>4 DEF KeyReports
      <4>3. ~heard.repeated /\ heard.down = drv.keys  BY <4>1, <2>1 DEF UsbInv, StateReports
      <4>4. ~heard'.repeated /\ heard'.down = drv'.keys  BY <4>1, <4>3
      <4>5. unit.reports[Len(unit.reports)].state = unit.held
        BY <4>1, <2>1, <1>2 DEF UsbInv, StateReports, Reaches
      <4>6. CASE unit'.reports = << >>
        <5>1. Len(unit.reports) = 1
          <6>1. Len(unit'.reports) = 0  BY <4>6
          <6>2. Len(unit.reports) - 1 = 0 /\ Len(unit.reports) \in Nat  BY <6>1, <2>3, <2>4
          <6> QED BY ONLY <6>2
        <5>2. drv'.keys = unit'.held  BY <5>1, <4>1, <4>5, <2>3, <2>4
        <5> QED BY <5>2, <4>2, <4>4, <4>6 DEF StateReports
      <4>7. CASE unit'.reports # << >>
        <5>1. /\ Len(unit'.reports) = Len(unit.reports) - 1 /\ Len(unit'.reports) \in Nat \ {0}
          BY <4>7, <2>3, <2>4
        <5>2. unit'.reports[Len(unit'.reports)] = unit.reports[Len(unit.reports)]
          <6> DEFINE n == Len(unit.reports) - 1
          <6>0. Len(unit.reports) \in Nat /\ Len(unit.reports) - 1 \in Nat \ {0}  BY <5>1, <2>3
          <6>1. n \in 1 .. Len(unit.reports) - 1 /\ n + 1 = Len(unit.reports)
            <7>1. \A m \in Nat : m - 1 \in Nat \ {0} => m - 1 \in 1 .. m - 1 /\ (m - 1) + 1 = m  OBVIOUS
            <7> QED BY ONLY <7>1, <6>0
          <6>2. Tail(unit.reports)[n] = unit.reports[n + 1]  BY <6>1, <2>3
          <6> QED BY <6>1, <6>2, <5>1, <2>4
        <5> QED BY <5>2, <4>2, <4>4, <4>5, <4>7, <2>4 DEF StateReports
      <4> QED BY <4>6, <4>7
    <3> QED BY <3>1, <3>2, <2>1
  <2> QED BY <2>7, <2>8, <2>9, <2>10 DEF UsbInv
<1> QED BY <1>1, <1>2 DEF UsbInv, UsbTypeOK, UnitRecs

(* The heartbeat and the keep-alive restore what a sleep of the computer took away. *)
LEMMA MiraboxHeartbeatKeeps ==
  ASSUME UsbInv, MiraboxHeartbeat
  PROVE  UsbInv'
<1>1. UsbTypeOK'
  <2>1. hid' \in LibraryRecs
    BY UsbAssumption DEF UsbInv, UsbTypeOK, MiraboxHeartbeat, Initialised, BlankPanel,
       LibraryRecs, NativeCallsAreSafe
  <2>2. drv' \in DriverRecs
    BY UsbAssumption DEF UsbInv, UsbTypeOK, MiraboxHeartbeat, Initialised, BlankPanel,
       DriverRecs
  <2>3. unit' \in UnitRecs  BY InitialisedType, UsbAssumption DEF UsbInv, UsbTypeOK,
      MiraboxHeartbeat
  <2>4. heard' \in HeardRecs
    BY UsbAssumption DEF UsbInv, UsbTypeOK, MiraboxHeartbeat, Initialised, BlankPanel, HeardRecs
  <2>5. ghost' \in GhostRecs
    BY UsbAssumption DEF UsbInv, UsbTypeOK, MiraboxHeartbeat, Initialised, BlankPanel, GhostRecs
  <2> QED BY <2>1, <2>2, <2>3, <2>4, <2>5 DEF UsbTypeOK
<1>2. NativeCallsAreSafe'
  BY UsbAssumption DEF UsbInv, UsbTypeOK, MiraboxHeartbeat, Initialised, BlankPanel,
     LibraryRecs, DriverRecs, HeardRecs, NativeCallsAreSafe
<1>3. LostWithUnit'
  BY UsbAssumption DEF UsbInv, UsbTypeOK, MiraboxHeartbeat, Initialised, BlankPanel, DriverRecs,
     UnitRecs, LostWithUnit
<1>4. PanelOwesLatch'
  BY UsbAssumption DEF UsbInv, UsbTypeOK, MiraboxHeartbeat, Initialised, BlankPanel, DriverRecs,
     UnitRecs, GhostRecs, Reaches, NoUpload, Mirabox, PanelOwesLatch, LostWithUnit
<1>5. LevelIsLast'
  BY UsbAssumption DEF UsbInv, UsbTypeOK, MiraboxHeartbeat, Initialised, BlankPanel, DriverRecs,
     UnitRecs, GhostRecs, Reaches, Mirabox, LevelIsLast, LostWithUnit
<1>6. KeyReports'
  BY UsbAssumption DEF UsbInv, UsbTypeOK, MiraboxHeartbeat, Initialised, BlankPanel, DriverRecs,
     UnitRecs, HeardRecs, GhostRecs, Reaches, Mirabox, SynthesizesKeyUp, KeyReports, LastOf,
     LostWithUnit
<1>7. StateReports'
  BY UsbAssumption DEF UsbInv, UsbTypeOK, MiraboxHeartbeat, Initialised, BlankPanel, DriverRecs,
     UnitRecs, HeardRecs, GhostRecs, Reaches, Mirabox, StateReports, LostWithUnit
<1> QED BY <1>1, <1>2, <1>3, <1>4, <1>5, <1>6, <1>7 DEF UsbInv

LEMMA KeepAliveKeeps ==
  ASSUME UsbInv, KeepAlive
  PROVE  UsbInv'
<1>1. UsbTypeOK'
  <2>1. hid' \in LibraryRecs
    BY UsbAssumption DEF UsbInv, UsbTypeOK, KeepAlive, LibraryRecs, NativeCallsAreSafe
  <2>2. drv' \in DriverRecs
    BY UsbAssumption DEF UsbInv, UsbTypeOK, KeepAlive, DriverRecs
  <2>3. unit' \in UnitRecs
    BY UsbAssumption DEF UsbInv, UsbTypeOK, KeepAlive, UnitRecs, DriverRecs, NoUpload
  <2>4. heard' \in HeardRecs
    BY UsbAssumption DEF UsbInv, UsbTypeOK, KeepAlive, HeardRecs
  <2>5. ghost' \in GhostRecs
    BY UsbAssumption DEF UsbInv, UsbTypeOK, KeepAlive, GhostRecs
  <2> QED BY <2>1, <2>2, <2>3, <2>4, <2>5 DEF UsbTypeOK
<1>2. NativeCallsAreSafe'
  BY UsbAssumption DEF UsbInv, UsbTypeOK, KeepAlive, LibraryRecs, DriverRecs, HeardRecs,
     NativeCallsAreSafe
<1>3. LostWithUnit'
  BY UsbAssumption DEF UsbInv, UsbTypeOK, KeepAlive, DriverRecs, UnitRecs, LostWithUnit
<1>4. PanelOwesLatch'
  BY UsbAssumption DEF UsbInv, UsbTypeOK, KeepAlive, DriverRecs, UnitRecs, GhostRecs, Reaches,
     NoUpload, Mirabox, PanelOwesLatch, LostWithUnit
<1>5. LevelIsLast'
  BY UsbAssumption DEF UsbInv, UsbTypeOK, KeepAlive, DriverRecs, UnitRecs, GhostRecs, Reaches,
     Mirabox, LevelIsLast, LostWithUnit
<1>6. KeyReports'
  BY UsbAssumption DEF UsbInv, UsbTypeOK, KeepAlive, DriverRecs, UnitRecs, HeardRecs, GhostRecs,
     Reaches, Mirabox, SynthesizesKeyUp, KeyReports, LastOf, LostWithUnit
<1>7. StateReports'
  BY UsbAssumption DEF UsbInv, UsbTypeOK, KeepAlive, DriverRecs, UnitRecs, HeardRecs, GhostRecs,
     Reaches, Mirabox, StateReports, LostWithUnit
<1> QED BY <1>1, <1>2, <1>3, <1>4, <1>5, <1>6, <1>7 DEF UsbInv

(* A picture is latched at once, or owed until the end of the batch. *)
LEMMA SendImageKeeps ==
  ASSUME UsbInv, NEW k \in PanelKeys, NEW p \in PanelPics, SendImage(k, p)
  PROVE  UsbInv'
<1>1. UsbTypeOK'
  <2>1. hid' \in LibraryRecs
    BY UsbAssumption DEF UsbInv, UsbTypeOK, SendImage, Uploaded, Latched, Wanting, LibraryRecs,
       NativeCallsAreSafe
  <2>2. drv' \in DriverRecs
    BY UsbAssumption DEF UsbInv, UsbTypeOK, SendImage, Uploaded, Latched, Wanting, DriverRecs
  <2>3. unit' \in UnitRecs
    BY UsbAssumption DEF UsbInv, UsbTypeOK, SendImage, Uploaded, Latched, Wanting, UnitRecs,
       DriverRecs, NoUpload
  <2>4. heard' \in HeardRecs
    BY UsbAssumption DEF UsbInv, UsbTypeOK, SendImage, Uploaded, Latched, Wanting, HeardRecs
  <2>5. ghost' \in GhostRecs  BY GhostWants, UsbAssumption DEF UsbInv, UsbTypeOK, SendImage,
      UsbUsed, Wanting
  <2> QED BY <2>1, <2>2, <2>3, <2>4, <2>5 DEF UsbTypeOK
<1>2. NativeCallsAreSafe'
  BY UsbAssumption DEF UsbInv, UsbTypeOK, SendImage, Uploaded, Latched, Wanting, LibraryRecs,
     DriverRecs, HeardRecs, NativeCallsAreSafe
<1>3. LostWithUnit'
  BY UsbAssumption DEF UsbInv, UsbTypeOK, SendImage, Uploaded, Latched, Wanting, DriverRecs,
     UnitRecs, LostWithUnit
<1>4. PanelOwesLatch'
  BY UsbAssumption DEF UsbInv, UsbTypeOK, SendImage, Uploaded, Latched, Wanting, DriverRecs,
     UnitRecs, GhostRecs, Reaches, NoUpload, Mirabox, PanelOwesLatch, LostWithUnit
<1>5. LevelIsLast'
  BY UsbAssumption DEF UsbInv, UsbTypeOK, SendImage, Uploaded, Latched, Wanting, DriverRecs,
     UnitRecs, GhostRecs, Reaches, Mirabox, LevelIsLast, LostWithUnit
<1>6. KeyReports'
  BY UsbAssumption DEF UsbInv, UsbTypeOK, SendImage, Uploaded, Latched, Wanting, DriverRecs,
     UnitRecs, HeardRecs, GhostRecs, Reaches, Mirabox, SynthesizesKeyUp, KeyReports, LastOf,
     LostWithUnit
<1>7. StateReports'
  BY UsbAssumption DEF UsbInv, UsbTypeOK, SendImage, Uploaded, Latched, Wanting, DriverRecs,
     UnitRecs, HeardRecs, GhostRecs, Reaches, Mirabox, StateReports, LostWithUnit
<1> QED BY <1>1, <1>2, <1>3, <1>4, <1>5, <1>6, <1>7 DEF UsbInv

(* A cleared key: with the family's own command, or as a black picture. *)
LEMMA DriverClearKeyKeeps ==
  ASSUME UsbInv, NEW k \in PanelKeys, DriverClearKey(k)
  PROVE  UsbInv'
<1>1. UsbTypeOK'
  <2>1. hid' \in LibraryRecs
    BY UsbAssumption DEF UsbInv, UsbTypeOK, DriverClearKey, Cleared, Uploaded, Latched, Wanting,
       HasStpAfterClear, LibraryRecs, NativeCallsAreSafe
  <2>2. drv' \in DriverRecs
    BY UsbAssumption DEF UsbInv, UsbTypeOK, DriverClearKey, Cleared, Uploaded, Latched, Wanting,
       HasStpAfterClear, DriverRecs
  <2>3. unit' \in UnitRecs
    BY UsbAssumption DEF UsbInv, UsbTypeOK, DriverClearKey, Cleared, Uploaded, Latched, Wanting,
       HasStpAfterClear, UnitRecs, DriverRecs, NoUpload
  <2>4. heard' \in HeardRecs
    BY UsbAssumption DEF UsbInv, UsbTypeOK, DriverClearKey, Cleared, Uploaded, Latched, Wanting,
       HasStpAfterClear, HeardRecs
  <2>5. ghost' \in GhostRecs  BY GhostWants DEF UsbInv, UsbTypeOK, DriverClearKey, UsbUsed, Wanting
  <2> QED BY <2>1, <2>2, <2>3, <2>4, <2>5 DEF UsbTypeOK
<1>2. NativeCallsAreSafe'
  BY UsbAssumption DEF UsbInv, UsbTypeOK, DriverClearKey, Cleared, Uploaded, Latched, Wanting,
     HasStpAfterClear, LibraryRecs, DriverRecs, HeardRecs, NativeCallsAreSafe
<1>3. LostWithUnit'
  BY UsbAssumption DEF UsbInv, UsbTypeOK, DriverClearKey, Cleared, Uploaded, Latched, Wanting,
     HasStpAfterClear, DriverRecs, UnitRecs, LostWithUnit
<1>4. PanelOwesLatch'
  BY UsbAssumption DEF UsbInv, UsbTypeOK, DriverClearKey, Cleared, Uploaded, Latched, Wanting,
     HasStpAfterClear, DriverRecs, UnitRecs, GhostRecs, Reaches, NoUpload, Mirabox,
     PanelOwesLatch, LostWithUnit
<1>5. LevelIsLast'
  BY UsbAssumption DEF UsbInv, UsbTypeOK, DriverClearKey, Cleared, Uploaded, Latched, Wanting,
     HasStpAfterClear, DriverRecs, UnitRecs, GhostRecs, Reaches, Mirabox, LevelIsLast,
     LostWithUnit
<1>6. KeyReports'
  BY UsbAssumption DEF UsbInv, UsbTypeOK, DriverClearKey, Cleared, Uploaded, Latched, Wanting,
     HasStpAfterClear, DriverRecs, UnitRecs, HeardRecs, GhostRecs, Reaches, Mirabox,
     SynthesizesKeyUp, KeyReports, LastOf, LostWithUnit
<1>7. StateReports'
  BY UsbAssumption DEF UsbInv, UsbTypeOK, DriverClearKey, Cleared, Uploaded, Latched, Wanting,
     HasStpAfterClear, DriverRecs, UnitRecs, HeardRecs, GhostRecs, Reaches, Mirabox,
     StateReports, LostWithUnit
<1> QED BY <1>1, <1>2, <1>3, <1>4, <1>5, <1>6, <1>7 DEF UsbInv

(* A finger adds at most one report, the last of its key. *)
LEMMA FingerKeeps ==
  ASSUME UsbInv, NEW k \in PanelKeys, Finger(k)
  PROVE  UsbInv'
<1>1. UsbTypeOK'
  <2>1. hid' \in LibraryRecs
    BY UsbAssumption DEF UsbInv, UsbTypeOK, Finger, Reported, UsbUsed, LibraryRecs,
       NativeCallsAreSafe
  <2>2. drv' \in DriverRecs
    BY UsbAssumption DEF UsbInv, UsbTypeOK, Finger, Reported, UsbUsed, DriverRecs
  <2>3. unit' \in UnitRecs
    <3> DEFINE down == k \notin unit.held
               held == IF down THEN unit.held \cup {k} ELSE unit.held \ {k}
    <3>1. unit \in UnitRecs /\ unit' = [unit EXCEPT !.held = held, !.reports = Reported(k, down, held)]
      BY DEF UsbInv, UsbTypeOK, Finger
    <3>2. held \in SUBSET PanelKeys /\ down \in BOOLEAN  BY <3>1 DEF UnitRecs
    <3>3. [key |-> k, down |-> down, state |-> held] \in ReportRecs  BY <3>2 DEF ReportRecs
    <3>4. unit.reports \in Seq(ReportRecs)  BY <3>1 DEF UnitRecs
    <3> HIDE DEF down, held
    <3>5. Reported(k, down, held) \in Seq(ReportRecs)  BY <3>3, <3>4, AppendProperties DEF Reported
    <3> QED BY ONLY <3>1, <3>2, <3>5 DEF UnitRecs
  <2>4. heard' \in HeardRecs
    BY UsbAssumption DEF UsbInv, UsbTypeOK, Finger, Reported, UsbUsed, HeardRecs
  <2>5. ghost' \in GhostRecs  BY GhostUsed DEF UsbInv, UsbTypeOK, Finger, UsbUsed, Wanting
  <2> QED BY <2>1, <2>2, <2>3, <2>4, <2>5 DEF UsbTypeOK
<1>2. NativeCallsAreSafe'
  BY UsbAssumption DEF UsbInv, UsbTypeOK, Finger, Reported, UsbUsed, LibraryRecs, DriverRecs,
     HeardRecs, NativeCallsAreSafe
<1>3. LostWithUnit'
  BY UsbAssumption DEF UsbInv, UsbTypeOK, Finger, Reported, UsbUsed, DriverRecs, UnitRecs,
     LostWithUnit
<1>4. PanelOwesLatch'
  BY UsbAssumption DEF UsbInv, UsbTypeOK, Finger, Reported, UsbUsed, DriverRecs, UnitRecs,
     GhostRecs, Reaches, NoUpload, Mirabox, PanelOwesLatch, LostWithUnit
<1>5. LevelIsLast'
  BY UsbAssumption DEF UsbInv, UsbTypeOK, Finger, Reported, UsbUsed, DriverRecs, UnitRecs,
     GhostRecs, Reaches, Mirabox, LevelIsLast, LostWithUnit
<1>6. KeyReports'
  <2> DEFINE down == k \notin unit.held
             held == IF down THEN unit.held \cup {k} ELSE unit.held \ {k}
             r == [key |-> k, down |-> down, state |-> held]
  <2>1. /\ unit \in UnitRecs /\ unit.reports \in Seq(ReportRecs)
        /\ unit' = [unit EXCEPT !.held = held, !.reports = Reported(k, down, held)]
        /\ UNCHANGED <<drv, heard>> /\ ghost'.fresh = ghost.fresh
    BY DEF UsbInv, UsbTypeOK, Finger, UnitRecs, UsbUsed, GhostRecs
  <2>2. unit'.held = held /\ unit'.reports = Reported(k, down, held) /\ unit'.family = unit.family
        /\ Reaches' = Reaches
    BY <2>1 DEF UnitRecs, Reaches
  <2>3. SUFFICES ASSUME Reaches, unit.family # "elgato", ~SynthesizesKeyUp(unit.family)
                 PROVE  \A q \in PanelKeys :
                          /\ \A i \in DOMAIN unit'.reports :
                               LastOf(q, i)' => (unit'.reports[i].down <=> q \in unit'.held)
                          /\ (\A i \in DOMAIN unit'.reports : unit'.reports[i].key # q)
                               /\ q \in ghost'.fresh => (q \in heard'.down <=> q \in unit'.held)
    BY <2>1, <2>2 DEF KeyReports, UsbInv, SynthesizesKeyUp
  <2>4. /\ unit'.reports = Append(unit.reports, r)
        /\ DOMAIN unit'.reports = 1 .. Len(unit.reports) + 1
        /\ unit'.reports[Len(unit.reports) + 1] = r
        /\ \A i \in DOMAIN unit.reports : unit'.reports[i] = unit.reports[i]
    <3>1. unit'.reports = Append(unit.reports, r)  BY <2>2, <2>3 DEF Reported, Reaches
    <3> HIDE DEF r
    <3> QED BY <3>1, <2>1
  <2>5. r.key = k /\ (r.down <=> k \in held)  OBVIOUS
  <2>6. DOMAIN unit.reports = 1 .. Len(unit.reports) /\ Len(unit.reports) \in Nat  BY <2>1
  <2>7. \A q \in PanelKeys : q # k => (q \in held <=> q \in unit.held)  OBVIOUS
  <2> HIDE DEF r, held
  <2>8. TAKE q \in PanelKeys
  <2>9. KeyReports  BY DEF UsbInv
  <2>10. CASE q = k
    <3>1. ASSUME NEW i \in DOMAIN unit'.reports, LastOf(q, i)'  PROVE i = Len(unit.reports) + 1
      BY <3>1, <2>4, <2>5, <2>6, <2>10 DEF LastOf
    <3> QED BY <3>1, <2>2, <2>4, <2>5, <2>6, <2>10
  <2>11. CASE q # k
    <3>1. ASSUME NEW i \in DOMAIN unit'.reports, LastOf(q, i)'
          PROVE  i \in DOMAIN unit.reports /\ LastOf(q, i)
      BY <3>1, <2>4, <2>5, <2>6, <2>11 DEF LastOf
    <3>2. \A i \in DOMAIN unit.reports : i \in DOMAIN unit'.reports  BY <2>4, <2>6
    <3> QED BY <3>1, <3>2, <2>1, <2>2, <2>3, <2>4, <2>7, <2>9, <2>11 DEF KeyReports
  <2> QED BY <2>10, <2>11
<1>7. StateReports'
  BY UsbAssumption, SMTT(30) DEF UsbInv, UsbTypeOK, Finger, Reported, UsbUsed, DriverRecs, UnitRecs,
     HeardRecs, GhostRecs, Reaches, Mirabox, StateReports, LostWithUnit, ReportRecs,
     SynthesizesKeyUp
<1> QED BY <1>1, <1>2, <1>3, <1>4, <1>5, <1>6, <1>7 DEF UsbInv

(* A batch starts with nothing owed and ends with nothing owed. *)
LEMMA BeginBatchKeeps ==
  ASSUME UsbInv, BeginBatch
  PROVE  UsbInv'
<1>1. UsbTypeOK'
  <2>1. hid' \in LibraryRecs
    BY UsbAssumption DEF UsbInv, UsbTypeOK, BeginBatch, LibraryRecs, NativeCallsAreSafe
  <2>2. drv' \in DriverRecs
    BY UsbAssumption DEF UsbInv, UsbTypeOK, BeginBatch, DriverRecs
  <2>3. unit' \in UnitRecs
    BY UsbAssumption DEF UsbInv, UsbTypeOK, BeginBatch, UnitRecs, DriverRecs, NoUpload
  <2>4. heard' \in HeardRecs
    BY UsbAssumption DEF UsbInv, UsbTypeOK, BeginBatch, HeardRecs
  <2>5. ghost' \in GhostRecs
    BY UsbAssumption DEF UsbInv, UsbTypeOK, BeginBatch, GhostRecs
  <2> QED BY <2>1, <2>2, <2>3, <2>4, <2>5 DEF UsbTypeOK
<1>2. NativeCallsAreSafe'
  BY UsbAssumption DEF UsbInv, UsbTypeOK, BeginBatch, LibraryRecs, DriverRecs, HeardRecs,
     NativeCallsAreSafe
<1>3. LostWithUnit'
  BY UsbAssumption DEF UsbInv, UsbTypeOK, BeginBatch, DriverRecs, UnitRecs, LostWithUnit
<1>4. PanelOwesLatch'
  BY UsbAssumption DEF UsbInv, UsbTypeOK, BeginBatch, DriverRecs, UnitRecs, GhostRecs, Reaches,
     NoUpload, Mirabox, PanelOwesLatch, LostWithUnit
<1>5. LevelIsLast'
  BY UsbAssumption DEF UsbInv, UsbTypeOK, BeginBatch, DriverRecs, UnitRecs, GhostRecs, Reaches,
     Mirabox, LevelIsLast, LostWithUnit
<1>6. KeyReports'
  BY UsbAssumption DEF UsbInv, UsbTypeOK, BeginBatch, DriverRecs, UnitRecs, HeardRecs,
     GhostRecs, Reaches, Mirabox, SynthesizesKeyUp, KeyReports, LastOf, LostWithUnit
<1>7. StateReports'
  BY UsbAssumption DEF UsbInv, UsbTypeOK, BeginBatch, DriverRecs, UnitRecs, HeardRecs,
     GhostRecs, Reaches, Mirabox, StateReports, LostWithUnit
<1> QED BY <1>1, <1>2, <1>3, <1>4, <1>5, <1>6, <1>7 DEF UsbInv

LEMMA EndBatchKeeps ==
  ASSUME UsbInv, EndBatch
  PROVE  UsbInv'
<1>1. UsbTypeOK'
  <2>1. hid' \in LibraryRecs
    BY UsbAssumption DEF UsbInv, UsbTypeOK, EndBatch, Latched, LibraryRecs, NativeCallsAreSafe
  <2>2. drv' \in DriverRecs
    BY UsbAssumption DEF UsbInv, UsbTypeOK, EndBatch, Latched, DriverRecs
  <2>3. unit' \in UnitRecs
    BY UsbAssumption DEF UsbInv, UsbTypeOK, EndBatch, Latched, UnitRecs, DriverRecs, NoUpload
  <2>4. heard' \in HeardRecs
    BY UsbAssumption DEF UsbInv, UsbTypeOK, EndBatch, Latched, HeardRecs
  <2>5. ghost' \in GhostRecs
    BY UsbAssumption DEF UsbInv, UsbTypeOK, EndBatch, Latched, GhostRecs
  <2> QED BY <2>1, <2>2, <2>3, <2>4, <2>5 DEF UsbTypeOK
<1>2. NativeCallsAreSafe'
  BY UsbAssumption DEF UsbInv, UsbTypeOK, EndBatch, Latched, LibraryRecs, DriverRecs, HeardRecs,
     NativeCallsAreSafe
<1>3. LostWithUnit'
  BY UsbAssumption DEF UsbInv, UsbTypeOK, EndBatch, Latched, DriverRecs, UnitRecs, LostWithUnit
<1>4. PanelOwesLatch'
  BY UsbAssumption DEF UsbInv, UsbTypeOK, EndBatch, Latched, DriverRecs, UnitRecs, GhostRecs,
     Reaches, NoUpload, Mirabox, PanelOwesLatch, LostWithUnit
<1>5. LevelIsLast'
  BY UsbAssumption DEF UsbInv, UsbTypeOK, EndBatch, Latched, DriverRecs, UnitRecs, GhostRecs,
     Reaches, Mirabox, LevelIsLast, LostWithUnit
<1>6. KeyReports'
  BY UsbAssumption DEF UsbInv, UsbTypeOK, EndBatch, Latched, DriverRecs, UnitRecs, HeardRecs,
     GhostRecs, Reaches, Mirabox, SynthesizesKeyUp, KeyReports, LastOf, LostWithUnit
<1>7. StateReports'
  BY UsbAssumption DEF UsbInv, UsbTypeOK, EndBatch, Latched, DriverRecs, UnitRecs, HeardRecs,
     GhostRecs, Reaches, Mirabox, StateReports, LostWithUnit
<1> QED BY <1>1, <1>2, <1>3, <1>4, <1>5, <1>6, <1>7 DEF UsbInv

(* Brightness and sleep mode. *)
LEMMA SetBrightnessKeeps ==
  ASSUME UsbInv, NEW l \in Brightness, SetBrightness(l)
  PROVE  UsbInv'
<1>1. UsbTypeOK'
  <2>1. hid' \in LibraryRecs
    BY UsbAssumption DEF UsbInv, UsbTypeOK, SetBrightness, LibraryRecs, NativeCallsAreSafe
  <2>2. drv' \in DriverRecs
    BY UsbAssumption DEF UsbInv, UsbTypeOK, SetBrightness, DriverRecs
  <2>3. unit' \in UnitRecs
    BY UsbAssumption DEF UsbInv, UsbTypeOK, SetBrightness, UnitRecs, DriverRecs, NoUpload
  <2>4. heard' \in HeardRecs
    BY UsbAssumption DEF UsbInv, UsbTypeOK, SetBrightness, HeardRecs
  <2>5. ghost' \in GhostRecs  BY GhostLevel DEF UsbInv, UsbTypeOK, SetBrightness, UsbUsed, Wanting
  <2> QED BY <2>1, <2>2, <2>3, <2>4, <2>5 DEF UsbTypeOK
<1>2. NativeCallsAreSafe'
  BY UsbAssumption DEF UsbInv, UsbTypeOK, SetBrightness, LibraryRecs, DriverRecs, HeardRecs,
     NativeCallsAreSafe
<1>3. LostWithUnit'
  BY UsbAssumption DEF UsbInv, UsbTypeOK, SetBrightness, DriverRecs, UnitRecs, LostWithUnit
<1>4. PanelOwesLatch'
  BY UsbAssumption DEF UsbInv, UsbTypeOK, SetBrightness, DriverRecs, UnitRecs, GhostRecs,
     Reaches, NoUpload, Mirabox, PanelOwesLatch, LostWithUnit
<1>5. LevelIsLast'
  BY UsbAssumption DEF UsbInv, UsbTypeOK, SetBrightness, DriverRecs, UnitRecs, GhostRecs,
     Reaches, Mirabox, LevelIsLast, LostWithUnit
<1>6. KeyReports'
  BY UsbAssumption DEF UsbInv, UsbTypeOK, SetBrightness, DriverRecs, UnitRecs, HeardRecs,
     GhostRecs, Reaches, Mirabox, SynthesizesKeyUp, KeyReports, LastOf, LostWithUnit
<1>7. StateReports'
  BY UsbAssumption DEF UsbInv, UsbTypeOK, SetBrightness, DriverRecs, UnitRecs, HeardRecs,
     GhostRecs, Reaches, Mirabox, StateReports, LostWithUnit
<1> QED BY <1>1, <1>2, <1>3, <1>4, <1>5, <1>6, <1>7 DEF UsbInv

LEMMA DriverSetSleepKeeps ==
  ASSUME UsbInv, NEW s \in BOOLEAN, DriverSetSleep(s)
  PROVE  UsbInv'
<1>1. UsbTypeOK'
  <2>1. hid' \in LibraryRecs
    BY UsbAssumption DEF UsbInv, UsbTypeOK, DriverSetSleep, LibraryRecs, NativeCallsAreSafe
  <2>2. drv' \in DriverRecs
    BY UsbAssumption DEF UsbInv, UsbTypeOK, DriverSetSleep, DriverRecs
  <2>3. unit' \in UnitRecs
    BY UsbAssumption DEF UsbInv, UsbTypeOK, DriverSetSleep, UnitRecs, DriverRecs, NoUpload
  <2>4. heard' \in HeardRecs
    BY UsbAssumption DEF UsbInv, UsbTypeOK, DriverSetSleep, HeardRecs
  <2>5. ghost' \in GhostRecs
    <3>1. drv.lastLevel \in Brightness /\ ghost \in GhostRecs  BY DEF UsbInv, UsbTypeOK, DriverRecs
    <3>2. ghost' \in GhostRecs
      BY <3>1, GhostLevel, GhostFields DEF DriverSetSleep
    <3> QED BY <3>2
  <2> QED BY <2>1, <2>2, <2>3, <2>4, <2>5 DEF UsbTypeOK
<1>2. NativeCallsAreSafe'
  BY UsbAssumption DEF UsbInv, UsbTypeOK, DriverSetSleep, LibraryRecs, DriverRecs, HeardRecs,
     NativeCallsAreSafe
<1>3. LostWithUnit'
  BY UsbAssumption DEF UsbInv, UsbTypeOK, DriverSetSleep, DriverRecs, UnitRecs, LostWithUnit
<1>4. PanelOwesLatch'
  BY UsbAssumption DEF UsbInv, UsbTypeOK, DriverSetSleep, DriverRecs, UnitRecs, GhostRecs,
     Reaches, NoUpload, Mirabox, PanelOwesLatch, LostWithUnit
<1>5. LevelIsLast'
  BY UsbAssumption DEF UsbInv, UsbTypeOK, DriverSetSleep, DriverRecs, UnitRecs, GhostRecs,
     Reaches, Mirabox, LevelIsLast, LostWithUnit
<1>6. KeyReports'
  BY UsbAssumption DEF UsbInv, UsbTypeOK, DriverSetSleep, DriverRecs, UnitRecs, HeardRecs,
     GhostRecs, Reaches, Mirabox, SynthesizesKeyUp, KeyReports, LastOf, LostWithUnit
<1>7. StateReports'
  BY UsbAssumption DEF UsbInv, UsbTypeOK, DriverSetSleep, DriverRecs, UnitRecs, HeardRecs,
     GhostRecs, Reaches, Mirabox, StateReports, LostWithUnit
<1> QED BY <1>1, <1>2, <1>3, <1>4, <1>5, <1>6, <1>7 DEF UsbInv

(* A handle dies with its unit, and a unit plugged in again needs a new one. *)
LEMMA UnplugKeeps ==
  ASSUME UsbInv, Unplug
  PROVE  UsbInv'
<1>1. UsbTypeOK'
  <2>1. hid' \in LibraryRecs
    BY UsbAssumption DEF UsbInv, UsbTypeOK, Unplug, BlankPanel, LibraryRecs, NativeCallsAreSafe
  <2>2. drv' \in DriverRecs
    BY UsbAssumption DEF UsbInv, UsbTypeOK, Unplug, BlankPanel, DriverRecs
  <2>3. unit' \in UnitRecs
    <3>1. << >> \in Seq(ReportRecs) /\ drv.open \in BOOLEAN  BY DEF UsbInv, UsbTypeOK, DriverRecs
    <3>2. unit \in UnitRecs  BY DEF UsbInv, UsbTypeOK
    <3> QED BY <3>1, <3>2, BlankTypes DEF Unplug, UnitRecs
  <2>4. heard' \in HeardRecs
    BY UsbAssumption DEF UsbInv, UsbTypeOK, Unplug, BlankPanel, HeardRecs
  <2>5. ghost' \in GhostRecs
    BY UsbAssumption DEF UsbInv, UsbTypeOK, Unplug, BlankPanel, GhostRecs
  <2> QED BY <2>1, <2>2, <2>3, <2>4, <2>5 DEF UsbTypeOK
<1>2. NativeCallsAreSafe'
  BY UsbAssumption DEF UsbInv, UsbTypeOK, Unplug, BlankPanel, LibraryRecs, DriverRecs,
     HeardRecs, NativeCallsAreSafe
<1>3. LostWithUnit'
  BY UsbAssumption DEF UsbInv, UsbTypeOK, Unplug, BlankPanel, DriverRecs, UnitRecs, LostWithUnit
<1>4. PanelOwesLatch'
  BY UsbAssumption DEF UsbInv, UsbTypeOK, Unplug, BlankPanel, DriverRecs, UnitRecs, GhostRecs,
     Reaches, NoUpload, Mirabox, PanelOwesLatch, LostWithUnit
<1>5. LevelIsLast'
  BY UsbAssumption DEF UsbInv, UsbTypeOK, Unplug, BlankPanel, DriverRecs, UnitRecs, GhostRecs,
     Reaches, Mirabox, LevelIsLast, LostWithUnit
<1>6. KeyReports'
  BY UsbAssumption DEF UsbInv, UsbTypeOK, Unplug, BlankPanel, DriverRecs, UnitRecs, HeardRecs,
     GhostRecs, Reaches, Mirabox, SynthesizesKeyUp, KeyReports, LastOf, LostWithUnit
<1>7. StateReports'
  BY UsbAssumption DEF UsbInv, UsbTypeOK, Unplug, BlankPanel, DriverRecs, UnitRecs, HeardRecs,
     GhostRecs, Reaches, Mirabox, StateReports, LostWithUnit
<1> QED BY <1>1, <1>2, <1>3, <1>4, <1>5, <1>6, <1>7 DEF UsbInv

LEMMA PlugInKeeps ==
  ASSUME UsbInv, PlugIn
  PROVE  UsbInv'
<1>1. UsbTypeOK'
  <2>1. hid' \in LibraryRecs
    BY UsbAssumption DEF UsbInv, UsbTypeOK, PlugIn, LibraryRecs, NativeCallsAreSafe
  <2>2. drv' \in DriverRecs
    BY UsbAssumption DEF UsbInv, UsbTypeOK, PlugIn, DriverRecs
  <2>3. unit' \in UnitRecs
    BY UsbAssumption DEF UsbInv, UsbTypeOK, PlugIn, UnitRecs, DriverRecs, NoUpload
  <2>4. heard' \in HeardRecs
    BY UsbAssumption DEF UsbInv, UsbTypeOK, PlugIn, HeardRecs
  <2>5. ghost' \in GhostRecs  BY GhostPlug DEF UsbInv, UsbTypeOK, PlugIn, UsbUsed, Wanting
  <2> QED BY <2>1, <2>2, <2>3, <2>4, <2>5 DEF UsbTypeOK
<1>2. NativeCallsAreSafe'
  BY UsbAssumption DEF UsbInv, UsbTypeOK, PlugIn, LibraryRecs, DriverRecs, HeardRecs,
     NativeCallsAreSafe
<1>3. LostWithUnit'
  BY UsbAssumption DEF UsbInv, UsbTypeOK, PlugIn, DriverRecs, UnitRecs, LostWithUnit
<1>4. PanelOwesLatch'
  BY UsbAssumption DEF UsbInv, UsbTypeOK, PlugIn, DriverRecs, UnitRecs, GhostRecs, Reaches,
     NoUpload, Mirabox, PanelOwesLatch, LostWithUnit
<1>5. LevelIsLast'
  BY UsbAssumption DEF UsbInv, UsbTypeOK, PlugIn, DriverRecs, UnitRecs, GhostRecs, Reaches,
     Mirabox, LevelIsLast, LostWithUnit
<1>6. KeyReports'
  BY UsbAssumption DEF UsbInv, UsbTypeOK, PlugIn, DriverRecs, UnitRecs, HeardRecs, GhostRecs,
     Reaches, Mirabox, SynthesizesKeyUp, KeyReports, LastOf, LostWithUnit
<1>7. StateReports'
  BY UsbAssumption DEF UsbInv, UsbTypeOK, PlugIn, DriverRecs, UnitRecs, HeardRecs, GhostRecs,
     Reaches, Mirabox, StateReports, LostWithUnit
<1> QED BY <1>1, <1>2, <1>3, <1>4, <1>5, <1>6, <1>7 DEF UsbInv

LEMMA HandleGoneKeeps ==
  ASSUME UsbInv, HandleGone
  PROVE  UsbInv'
<1>1. UsbTypeOK'
  <2>1. hid' \in LibraryRecs
    BY UsbAssumption DEF UsbInv, UsbTypeOK, HandleGone, LibraryRecs, NativeCallsAreSafe
  <2>2. drv' \in DriverRecs
    BY UsbAssumption DEF UsbInv, UsbTypeOK, HandleGone, DriverRecs
  <2>3. unit' \in UnitRecs
    BY UsbAssumption DEF UsbInv, UsbTypeOK, HandleGone, UnitRecs, DriverRecs, NoUpload
  <2>4. heard' \in HeardRecs
    BY UsbAssumption DEF UsbInv, UsbTypeOK, HandleGone, HeardRecs
  <2>5. ghost' \in GhostRecs
    BY UsbAssumption DEF UsbInv, UsbTypeOK, HandleGone, GhostRecs
  <2> QED BY <2>1, <2>2, <2>3, <2>4, <2>5 DEF UsbTypeOK
<1>2. NativeCallsAreSafe'
  BY UsbAssumption DEF UsbInv, UsbTypeOK, HandleGone, LibraryRecs, DriverRecs, HeardRecs,
     NativeCallsAreSafe
<1>3. LostWithUnit'
  BY UsbAssumption DEF UsbInv, UsbTypeOK, HandleGone, DriverRecs, UnitRecs, LostWithUnit
<1>4. PanelOwesLatch'
  BY UsbAssumption DEF UsbInv, UsbTypeOK, HandleGone, DriverRecs, UnitRecs, GhostRecs, Reaches,
     NoUpload, Mirabox, PanelOwesLatch, LostWithUnit
<1>5. LevelIsLast'
  BY UsbAssumption DEF UsbInv, UsbTypeOK, HandleGone, DriverRecs, UnitRecs, GhostRecs, Reaches,
     Mirabox, LevelIsLast, LostWithUnit
<1>6. KeyReports'
  BY UsbAssumption DEF UsbInv, UsbTypeOK, HandleGone, DriverRecs, UnitRecs, HeardRecs,
     GhostRecs, Reaches, Mirabox, SynthesizesKeyUp, KeyReports, LastOf, LostWithUnit
<1>7. StateReports'
  BY UsbAssumption DEF UsbInv, UsbTypeOK, HandleGone, DriverRecs, UnitRecs, HeardRecs,
     GhostRecs, Reaches, Mirabox, StateReports, LostWithUnit
<1> QED BY <1>1, <1>2, <1>3, <1>4, <1>5, <1>6, <1>7 DEF UsbInv

LEMMA SystemSleepsKeeps ==
  ASSUME UsbInv, SystemSleeps
  PROVE  UsbInv'
<1>1. UsbTypeOK'
  <2>1. hid' \in LibraryRecs
    BY UsbAssumption DEF UsbInv, UsbTypeOK, SystemSleeps, UsbUsed, LibraryRecs,
       NativeCallsAreSafe
  <2>2. drv' \in DriverRecs
    BY UsbAssumption DEF UsbInv, UsbTypeOK, SystemSleeps, UsbUsed, DriverRecs
  <2>3. unit' \in UnitRecs
    BY UsbAssumption DEF UsbInv, UsbTypeOK, SystemSleeps, UsbUsed, UnitRecs, DriverRecs,
       NoUpload
  <2>4. heard' \in HeardRecs
    BY UsbAssumption DEF UsbInv, UsbTypeOK, SystemSleeps, UsbUsed, HeardRecs
  <2>5. ghost' \in GhostRecs  BY GhostUsed DEF UsbInv, UsbTypeOK, SystemSleeps, UsbUsed, Wanting
  <2> QED BY <2>1, <2>2, <2>3, <2>4, <2>5 DEF UsbTypeOK
<1>2. NativeCallsAreSafe'
  BY UsbAssumption DEF UsbInv, UsbTypeOK, SystemSleeps, UsbUsed, LibraryRecs, DriverRecs,
     HeardRecs, NativeCallsAreSafe
<1>3. LostWithUnit'
  BY UsbAssumption DEF UsbInv, UsbTypeOK, SystemSleeps, UsbUsed, DriverRecs, UnitRecs,
     LostWithUnit
<1>4. PanelOwesLatch'
  BY UsbAssumption DEF UsbInv, UsbTypeOK, SystemSleeps, UsbUsed, DriverRecs, UnitRecs,
     GhostRecs, Reaches, NoUpload, Mirabox, PanelOwesLatch, LostWithUnit
<1>5. LevelIsLast'
  BY UsbAssumption DEF UsbInv, UsbTypeOK, SystemSleeps, UsbUsed, DriverRecs, UnitRecs,
     GhostRecs, Reaches, Mirabox, LevelIsLast, LostWithUnit
<1>6. KeyReports'
  BY UsbAssumption DEF UsbInv, UsbTypeOK, SystemSleeps, UsbUsed, DriverRecs, UnitRecs,
     HeardRecs, GhostRecs, Reaches, Mirabox, SynthesizesKeyUp, KeyReports, LastOf, LostWithUnit
<1>7. StateReports'
  BY UsbAssumption DEF UsbInv, UsbTypeOK, SystemSleeps, UsbUsed, DriverRecs, UnitRecs,
     HeardRecs, GhostRecs, Reaches, Mirabox, StateReports, LostWithUnit
<1> QED BY <1>1, <1>2, <1>3, <1>4, <1>5, <1>6, <1>7 DEF UsbInv

LEMMA UsbInvInit == UsbInit => UsbInv
<1> SUFFICES ASSUME UsbInit  PROVE UsbInv  OBVIOUS
<1>1. PICK f \in Families :
        unit = [family |-> f, plugged |-> TRUE, lost |-> FALSE, awake |-> TRUE,
                level |-> DefaultLevel, shown |-> BlankPanel, loaded |-> NoUpload, held |-> {},
                reports |-> << >>, slept |-> FALSE]
  BY DEF UsbInit
<1>2. << >> \in Seq(ReportRecs)  OBVIOUS
<1>3. UsbTypeOK
  BY <1>1, <1>2, BlankTypes, UsbAssumption
     DEF UsbInit, UsbTypeOK, ClosedDriver, LibraryRecs, DriverRecs, UnitRecs, HeardRecs, GhostRecs
<1>4. ~drv.open /\ ~Reaches  BY DEF UsbInit, ClosedDriver, Reaches
<1>5. NativeCallsAreSafe  BY DEF UsbInit, ClosedDriver, NativeCallsAreSafe
<1>6. LostWithUnit /\ PanelOwesLatch /\ LevelIsLast /\ KeyReports
  BY <1>4 DEF LostWithUnit, PanelOwesLatch, LevelIsLast, KeyReports
<1>7. StateReports  BY <1>4 DEF UsbInit, StateReports
<1> QED BY <1>3, <1>5, <1>6, <1>7 DEF UsbInv

LEMMA UsbInvStep == UsbInv /\ [UsbNext]_usbVars => UsbInv'
<1> SUFFICES ASSUME UsbInv, [UsbNext]_usbVars  PROVE UsbInv'  OBVIOUS
<1>1. CASE UNCHANGED usbVars
  BY <1>1 DEF usbVars, UsbInv, UsbTypeOK, NativeCallsAreSafe, LostWithUnit, PanelOwesLatch,
              LevelIsLast, KeyReports, StateReports, Reaches, LastOf
<1>2. CASE OpenRefused \/ OpenUnit \/ CloseUnit
  BY <1>2, OpenRefusedKeeps, OpenUnitKeeps, CloseUnitKeeps
<1>3. CASE ReadTick \/ MiraboxHeartbeat \/ KeepAlive
  BY <1>3, ReadTickKeeps, MiraboxHeartbeatKeeps, KeepAliveKeeps
<1>4. CASE \E k \in PanelKeys : (\E p \in PanelPics : SendImage(k, p)) \/ DriverClearKey(k) \/ Finger(k)
  BY <1>4, SendImageKeeps, DriverClearKeyKeeps, FingerKeeps
<1>5. CASE BeginBatch \/ EndBatch
  BY <1>5, BeginBatchKeeps, EndBatchKeeps
<1>6. CASE (\E l \in Brightness : SetBrightness(l)) \/ (\E s \in BOOLEAN : DriverSetSleep(s))
  BY <1>6, SetBrightnessKeeps, DriverSetSleepKeeps
<1>7. CASE Unplug \/ PlugIn \/ HandleGone \/ SystemSleeps
  BY <1>7, UnplugKeeps, PlugInKeeps, HandleGoneKeeps, SystemSleepsKeeps
<1> QED BY <1>1, <1>2, <1>3, <1>4, <1>5, <1>6, <1>7 DEF UsbNext

(* What a run checks follows: with nothing owed the panel is what was wanted, and with nothing *)
(* unread the keys are as the fingers are.                                                     *)
LEMMA UsbInvFaithful == UsbInv => DriversAreFaithful
<1> SUFFICES ASSUME UsbInv  PROVE DriversAreFaithful  OBVIOUS
<1>1. PanelFollowsDriver
  <2> SUFFICES ASSUME Reaches, ~drv.batch, ~unit.slept
               PROVE  /\ unit.loaded = NoUpload /\ unit.shown = ghost.wanted
                      /\ unit.level = ghost.level /\ unit.awake = ~drv.asleep
    BY DEF PanelFollowsDriver
  <2>1. unit.loaded = NoUpload  BY DEF UsbInv, PanelOwesLatch
  <2>2. \A k \in PanelKeys : ghost.wanted[k] = unit.shown[k]
    BY <2>1 DEF UsbInv, PanelOwesLatch, NoUpload
  <2>3. ghost.wanted \in [PanelKeys -> Nat] /\ unit.shown \in [PanelKeys -> Nat]
    BY DEF UsbInv, UsbTypeOK, UnitRecs, GhostRecs
  <2>4. unit.shown = ghost.wanted  BY <2>2, <2>3
  <2> QED BY <2>1, <2>4 DEF UsbInv, LevelIsLast
<1>2. KeysFollowFingers
  <2>1. ~heard.repeated  BY DEF UsbInv, StateReports
  <2>2. ASSUME Reaches, unit.reports = << >>
        PROVE  heard.down \cap ghost.fresh
                 = IF SynthesizesKeyUp(unit.family) THEN {} ELSE unit.held \cap ghost.fresh
    <3>1. /\ heard.down \in SUBSET PanelKeys /\ unit.held \in SUBSET PanelKeys
          /\ ghost.fresh \in SUBSET PanelKeys
      BY DEF UsbInv, UsbTypeOK, UnitRecs, GhostRecs, HeardRecs
    <3>2. CASE unit.family = "elgato"
      <4>1. drv.open /\ heard.down = drv.keys /\ (ghost.fresh = {} \/ drv.keys = unit.held)
        BY <2>2, <3>2 DEF UsbInv, StateReports, Reaches
      <4> QED BY <4>1, <3>2 DEF SynthesizesKeyUp
    <3>3. CASE unit.family # "elgato"
      <4>1. CASE SynthesizesKeyUp(unit.family)
        BY <4>1, <3>3, <2>2 DEF UsbInv, KeyReports
      <4>2. CASE ~SynthesizesKeyUp(unit.family)
        <5>1. DOMAIN unit.reports = {}  BY <2>2
        <5>2. \A k \in PanelKeys : k \in ghost.fresh => (k \in heard.down <=> k \in unit.held)
          BY <4>2, <3>3, <2>2, <5>1 DEF UsbInv, KeyReports
        <5> QED BY <4>2, <5>2, <3>1
      <4> QED BY <4>1, <4>2
    <3> QED BY <3>2, <3>3
  <2> QED BY <2>1, <2>2 DEF KeysFollowFingers
<1> QED BY <1>1, <1>2 DEF DriversAreFaithful, UsbInv

(* In every behaviour of the drivers and the unit: the native library is initialised and a      *)
(* handle is held exactly while the driver is open, the panel shows what was sent last, at the  *)
(* level asked for last, and the keys reported down are those the fingers hold                  *)
(* (hid-device-base.ts open, _cleanup and read timer; the drivers of the three families).       *)
THEOREM DriversStayFaithful == UsbSpec => []DriversAreFaithful
<1>1. UsbInit => UsbInv  BY UsbInvInit
<1>2. UsbInv /\ [UsbNext]_usbVars => UsbInv'  BY UsbInvStep
<1>3. UsbInv => DriversAreFaithful  BY UsbInvFaithful
<1> QED BY <1>1, <1>2, <1>3, PTL DEF UsbSpec

(***************************************************************************)
(* Part 2. PushAccess, for any number of jobs, secrets, pairings, requests *)
(* and seconds, and every set of push channels and texts.                  *)
(***************************************************************************)
TokenRecs == [id : Nat, scope : {"push", "deck"}, secret : Nat]
PushOps == [c : PushChannelNames, v : PushTexts \cup {0}]
CreateJobs == [k : {"create"}, id : Nat, secret : Nat, scope : {"push", "deck"}, pairing : Nat]
RotateJobs == [k : {"rotate"}, old : TokenRecs, secret : Nat]
AuthJobs == [k : {"auth"}, n : Nat, found : SUBSET TokenRecs, op : PushOps]
BodyJobs == [k : {"body"}, n : Nat, op : PushOps]
ChannelRecs == [v : PushTexts \cup {0}, lasts : BOOLEAN, over : BOOLEAN]
Maps(S, T) == UNION {[D -> T] : D \in SUBSET S}
ChannelMaps == Maps(PushChannelNames, ChannelRecs)
StoreRecs == [values : ChannelMaps, repaint : BOOLEAN, broadcast : BOOLEAN,
              painted : ChannelMaps, ui : ChannelMaps, disposed : BOOLEAN]
LimRecs == [own : Maps(Nat, Nat), global : Nat, failed : Nat, seconds : Nat, grants : Nat]
CodeRecs == [cur : [n : Nat, over : BOOLEAN], fails : Nat, made : Nat, dead : SUBSET Nat,
             paired : SUBSET (Nat \X Nat)]

AccessTyped ==
    /\ acc \in [recs : SUBSET TokenRecs, revoked : SUBSET Nat, next : Nat]
    /\ jobs \subseteq CreateJobs \cup RotateJobs \cup AuthJobs \cup BodyJobs
    /\ lim \in LimRecs
    /\ code \in CodeRecs
    /\ store \in StoreRecs
    /\ asked \in Nat

(* The jobs that have drawn a secret whose hash they await. *)
Hashing == {j \in jobs : j.k \in {"create", "rotate"}}
Creating == {j \in jobs : j.k = "create"}

(* An id and a secret, once drawn, belong to one record or to one job that will write them; an
   id that was revoked is never one of them. *)
IdsApart ==
    /\ \A i \in acc.revoked : i < acc.next
    /\ \A r \in acc.recs : r.id < acc.next /\ r.secret < acc.next /\ r.id \notin acc.revoked
    /\ \A r, s \in acc.recs : r.id = s.id \/ r.secret = s.secret => r = s
    /\ \A j \in Hashing : j.secret < acc.next /\ \A r \in acc.recs : r.secret # j.secret
    /\ \A j \in Creating :
         j.id < acc.next /\ j.id \notin acc.revoked /\ \A r \in acc.recs : r.id # j.id
    /\ \A i, j \in Hashing : i.secret = j.secret => i = j
    /\ \A i, j \in Creating : i.id = j.id => i = j

(* The pending pairing. *)
CodeFollows ==
    /\ code.cur.n = 0 => ~code.cur.over
    /\ code.cur.n <= code.made
    /\ \A n \in code.dead : 1 <= n /\ n <= code.made
    /\ ~code.cur.over => code.cur.n \notin code.dead

(* A pairing that was used is pending no more, is not dead and is used by one job or token. *)
UsedOnce ==
    /\ \A p \in code.paired :
         1 <= p[1] /\ p[1] <= code.made /\ p[1] # code.cur.n /\ p[1] \notin code.dead
    /\ \A j \in Creating :
         /\ j.pairing <= code.made /\ j.pairing \notin code.dead
         /\ j.pairing # 0 => j.pairing # code.cur.n
         /\ \A p \in code.paired : p[1] # j.pairing
    /\ \A i, j \in Creating : i.pairing = j.pairing /\ i.pairing # 0 => i = j
    /\ \A p, q \in code.paired : p[1] = q[1] => p = q

Texts(f) == [c \in DOMAIN f |-> f[c].v]

(* What is counted and what the timers will tell. *)
Counted == lim.grants + lim.global <= GlobalCapacity + lim.seconds
StoreFollows ==
    /\ IsFiniteSet(DOMAIN store.values) /\ Cardinality(DOMAIN store.values) <= ChannelsMax
    /\ ~store.disposed /\ ~store.repaint => Texts(store.painted) = Texts(store.values)
    /\ ~store.disposed /\ ~store.broadcast => Texts(store.ui) = Texts(store.values)

AccessInv == AccessTyped /\ IdsApart /\ CodeFollows /\ UsedOnce /\ Counted /\ StoreFollows

LEMMA WithMaps ==
    ASSUME NEW S, NEW T, NEW f \in Maps(S, T), NEW k \in S, NEW v \in T
    PROVE  With(f, k, v) \in Maps(S, T) /\ DOMAIN With(f, k, v) = DOMAIN f \cup {k}
<1>1. PICK D \in SUBSET S : f \in [D -> T]
  BY DEF Maps
<1>2. With(f, k, v) \in [D \cup {k} -> T]
  BY <1>1 DEF With
<1>3. D \cup {k} \in SUBSET S
  OBVIOUS
<1> QED BY <1>1, <1>2, <1>3 DEF Maps

LEMMA WithoutMaps ==
    ASSUME NEW S, NEW T, NEW f \in Maps(S, T), NEW k
    PROVE  Without(f, k) \in Maps(S, T) /\ DOMAIN Without(f, k) = DOMAIN f \ {k}
<1>1. PICK D \in SUBSET S : f \in [D -> T]
  BY DEF Maps
<1>2. Without(f, k) \in [D \ {k} -> T]
  BY <1>1 DEF Without
<1>3. D \ {k} \in SUBSET S
  OBVIOUS
<1> QED BY <1>1, <1>2, <1>3 DEF Maps

LEMMA NoMaps ==
    ASSUME NEW S, NEW T
    PROVE  << >> \in Maps(S, T) /\ DOMAIN << >> = {}
<1>1. << >> \in [{} -> T]
  OBVIOUS
<1> QED BY <1>1 DEF Maps

LEMMA CapacitiesKnown == GlobalCapacity \in Nat /\ ChannelsMax \in Nat \ {0} /\ OwnCapacity \in Nat
  BY PushAssumption

LEMMA AccessInitHolds == PushInit => AccessInv
<1> SUFFICES ASSUME PushInit PROVE AccessInv
  OBVIOUS
<1>1. AccessTyped
  <2>1. lim \in LimRecs
    BY NoMaps, PushAssumption DEF PushInit, LimRecs
  <2>2. store \in StoreRecs
    BY NoMaps DEF PushInit, StoreRecs, ChannelMaps
  <2> QED BY <2>1, <2>2 DEF PushInit, AccessTyped, CodeRecs, NoCode
<1>2. IdsApart /\ CodeFollows /\ UsedOnce
  BY DEF PushInit, IdsApart, CodeFollows, UsedOnce, Hashing, Creating, NoCode
<1>3. Counted
  BY CapacitiesKnown DEF PushInit, Counted
<1>4. StoreFollows
  BY NoMaps, FS_EmptySet, CapacitiesKnown DEF PushInit, StoreFollows, Texts
<1> QED BY <1>1, <1>2, <1>3, <1>4 DEF AccessInv

(* A request that the token's own bucket and the shared one admit or refuse. *)
AuthAdmitted(j, r) ==
    /\ r.scope = "push"
    /\ lim' = TakePush(r.id)
    /\ \/ lim'.grants = lim.grants /\ Ended(j) /\ UNCHANGED store
       \/ lim'.grants # lim.grants /\ j.op.v = 0 /\ Ended(j) /\ store' = StoreCleared(store, j.op.c)
       \/ /\ lim'.grants # lim.grants /\ j.op.v # 0
          /\ jobs' = (jobs \ {j}) \cup {[k |-> "body", n |-> j.n, op |-> j.op]}
          /\ UNCHANGED store

LEMMA TakePushCounts ==
    ASSUME lim \in LimRecs, NEW id \in Nat
    PROVE  /\ TakePush(id) \in LimRecs
           /\ TakePush(id).seconds = lim.seconds
           /\ TakePush(id).grants + TakePush(id).global = lim.grants + lim.global
<1> DEFINE own == IF id \in DOMAIN lim.own THEN lim.own[id] ELSE OwnCapacity
<1>1. own \in Nat
  BY CapacitiesKnown DEF LimRecs, Maps
<1>2. With(lim.own, id, 0) \in Maps(Nat, Nat)
  BY WithMaps DEF LimRecs
<1>3. own # 0 => With(lim.own, id, own - 1) \in Maps(Nat, Nat)
  <2>1. own # 0 => own - 1 \in Nat
    BY <1>1
  <2> HIDE DEF own
  <2> QED BY <2>1, WithMaps DEF LimRecs
<1>4. TakePush(id) =
        IF own = 0 THEN [lim EXCEPT !.own = With(lim.own, id, 0)]
        ELSE IF lim.global = 0 THEN [lim EXCEPT !.own = With(lim.own, id, own - 1)]
        ELSE [lim EXCEPT !.own = With(lim.own, id, own - 1), !.global = @ - 1, !.grants = @ + 1]
  BY DEF TakePush
<1> HIDE DEF own
<1>5. CASE own = 0
  BY <1>2, <1>4, <1>5 DEF LimRecs
<1>6. CASE own # 0 /\ lim.global = 0
  BY <1>3, <1>4, <1>6 DEF LimRecs
<1>7. CASE own # 0 /\ lim.global # 0
  <2> DEFINE paid == With(lim.own, id, own - 1)
             left == lim.global - 1
             granted == lim.grants + 1
  <2>1. TakePush(id) = [lim EXCEPT !.own = paid, !.global = left, !.grants = granted]
    BY <1>4, <1>7
  <2>0. paid \in Maps(Nat, Nat)
    BY <1>3, <1>7
  <2>2. left \in Nat /\ granted \in Nat /\ left + granted = lim.global + lim.grants
    BY <1>7 DEF LimRecs
  <2>5. lim.global \in Nat /\ lim.grants \in Nat
    BY DEF LimRecs
  <2> HIDE DEF paid, left, granted
  <2>3. TakePush(id) \in LimRecs
    BY <2>0, <2>1, <2>2 DEF LimRecs
  <2>4. /\ TakePush(id).seconds = lim.seconds /\ TakePush(id).global = left
        /\ TakePush(id).grants = granted
    BY <2>1 DEF LimRecs
  <2> QED BY <2>2, <2>3, <2>4, <2>5
<1> QED BY <1>1, <1>5, <1>6, <1>7

(* What a change of the values schedules. *)
LEMMA ScheduledFollows ==
    ASSUME NEW s \in StoreRecs
    PROVE  /\ Scheduled(s) \in StoreRecs
           /\ Scheduled(s).values = s.values /\ Scheduled(s).disposed = s.disposed
           /\ ~s.disposed => Scheduled(s).repaint /\ Scheduled(s).broadcast
  BY DEF Scheduled, StoreRecs

LEMMA ChannelDropped ==
    ASSUME NEW f \in ChannelMaps, NEW c
    PROVE  Without(f, c) \in ChannelMaps /\ DOMAIN Without(f, c) = DOMAIN f \ {c}
  BY WithoutMaps DEF ChannelMaps

LEMMA StoreClearedFollows ==
    ASSUME store \in StoreRecs, StoreFollows, NEW c, store' = StoreCleared(store, c)
    PROVE  store' \in StoreRecs /\ StoreFollows'
<1>1. CASE c \notin DOMAIN store.values
  BY <1>1 DEF StoreCleared, StoreFollows
<1>2. CASE c \in DOMAIN store.values
  <2> DEFINE s == [store EXCEPT !.values = Without(store.values, c)]
  <2>1. Without(store.values, c) \in ChannelMaps
    BY ChannelDropped DEF StoreRecs
  <2>2. s \in StoreRecs /\ s.values = Without(store.values, c)
    BY <2>1 DEF StoreRecs
  <2>3. store' = Scheduled(s)
    BY <1>2 DEF StoreCleared
  <2> HIDE DEF s
  <2>4. /\ store' \in StoreRecs /\ store'.values = Without(store.values, c)
        /\ ~store'.disposed => store'.repaint /\ store'.broadcast
    BY <2>2, <2>3, ScheduledFollows
  <2>5. DOMAIN store'.values = DOMAIN store.values \ {c}
    BY <2>4, ChannelDropped DEF StoreRecs
  <2>6. /\ IsFiniteSet(DOMAIN store'.values)
        /\ Cardinality(DOMAIN store'.values) = Cardinality(DOMAIN store.values) - 1
    BY <1>2, <2>5, FS_RemoveElement DEF StoreFollows
  <2>7. Cardinality(DOMAIN store.values) \in Nat
    BY FS_CardinalityType DEF StoreFollows
  <2> QED BY <2>4, <2>6, <2>7, CapacitiesKnown DEF StoreFollows
<1> QED BY <1>1, <1>2

(* A value is put among others that leave room for it. *)
LEMMA PutFollows ==
    ASSUME NEW f \in ChannelMaps, NEW c \in PushChannelNames, NEW rec \in ChannelRecs,
           store \in StoreRecs, IsFiniteSet(DOMAIN f),
           c \in DOMAIN f \/ Cardinality(DOMAIN f) < ChannelsMax,
           Cardinality(DOMAIN f) <= ChannelsMax,
           store' = Scheduled([store EXCEPT !.values = With(f, c, rec)])
    PROVE  store' \in StoreRecs /\ StoreFollows'
<1> DEFINE s == [store EXCEPT !.values = With(f, c, rec)]
<1>1. With(f, c, rec) \in ChannelMaps /\ DOMAIN With(f, c, rec) = DOMAIN f \cup {c}
  BY WithMaps DEF ChannelMaps
<1>2. s \in StoreRecs /\ s.values = With(f, c, rec)
  BY <1>1 DEF StoreRecs
<1>3. store' = Scheduled(s)
  OBVIOUS
<1> HIDE DEF s
<1>4. /\ store' \in StoreRecs /\ store'.values = With(f, c, rec)
      /\ ~store'.disposed => store'.repaint /\ store'.broadcast
  BY <1>2, <1>3, ScheduledFollows
<1>5. IsFiniteSet(DOMAIN f \cup {c}) /\ Cardinality(DOMAIN f \cup {c}) <= ChannelsMax
  <2>1. CASE c \in DOMAIN f
    <3>1. DOMAIN f \cup {c} = DOMAIN f
      BY <2>1
    <3> QED BY <3>1
  <2>2. CASE c \notin DOMAIN f
    <3>1. /\ IsFiniteSet(DOMAIN f \cup {c})
          /\ Cardinality(DOMAIN f \cup {c}) = Cardinality(DOMAIN f) + 1
      BY <2>2, FS_AddElement
    <3>2. Cardinality(DOMAIN f) \in Nat
      BY FS_CardinalityType
    <3> QED BY <2>2, <3>1, <3>2, CapacitiesKnown
  <2> QED BY <2>1, <2>2
<1> QED BY <1>1, <1>4, <1>5 DEF StoreFollows

LEMMA StoreSetFollows ==
    ASSUME store \in StoreRecs, StoreFollows, NEW c \in PushChannelNames,
           NEW v \in PushTexts \cup {0}, NEW lasts \in BOOLEAN, StoreSet(c, v, lasts)
    PROVE  store' \in StoreRecs /\ StoreFollows'
<1> DEFINE rec == [v |-> v, lasts |-> lasts, over |-> FALSE]
           expired == {x \in DOMAIN store.values : store.values[x].over}
<1>1. rec \in ChannelRecs /\ store.values \in ChannelMaps
  BY DEF ChannelRecs, StoreRecs
<1>2. CASE UNCHANGED store
  BY <1>2 DEF StoreFollows
<1>3. CASE /\ c \in DOMAIN store.values \/ Cardinality(DOMAIN store.values) < ChannelsMax
           /\ store' = Scheduled([store EXCEPT !.values = With(store.values, c, rec)])
  <2> HIDE DEF rec
  <2> QED BY <1>1, <1>3, PutFollows DEF StoreFollows
<1>4. CASE \E x \in expired :
             store' = Scheduled([store EXCEPT !.values = With(Without(store.values, x), c, rec)])
  <2> HIDE DEF rec
  <2> HIDE DEF expired
  <2>1. PICK x \in DOMAIN store.values :
          store' = Scheduled([store EXCEPT !.values = With(Without(store.values, x), c, rec)])
    BY <1>4 DEF expired
  <2>2. /\ Without(store.values, x) \in ChannelMaps
        /\ DOMAIN Without(store.values, x) = DOMAIN store.values \ {x}
    BY <1>1, ChannelDropped
  <2>3. /\ IsFiniteSet(DOMAIN store.values \ {x})
        /\ Cardinality(DOMAIN store.values \ {x}) = Cardinality(DOMAIN store.values) - 1
    BY <2>1, FS_RemoveElement DEF StoreFollows
  <2>4. Cardinality(DOMAIN store.values) \in Nat
    BY FS_CardinalityType DEF StoreFollows
  <2>5. Cardinality(DOMAIN store.values \ {x}) < ChannelsMax
    BY <2>3, <2>4, CapacitiesKnown DEF StoreFollows
  <2>6. Cardinality(DOMAIN store.values \ {x}) <= ChannelsMax
    BY <2>3, <2>4, <2>5, CapacitiesKnown
  <2> QED BY <1>1, <2>1, <2>2, <2>3, <2>5, <2>6, PutFollows
<1>5. \/ UNCHANGED store
      \/ /\ c \in DOMAIN store.values \/ Cardinality(DOMAIN store.values) < ChannelsMax
         /\ store' = Scheduled([store EXCEPT !.values = With(store.values, c, rec)])
      \/ \E x \in expired :
           store' = Scheduled([store EXCEPT !.values = With(Without(store.values, x), c, rec)])
  BY <1>1 DEF StoreSet, StoreRecs
<1> QED BY <1>2, <1>3, <1>4, <1>5

LEMMA CodeSet ==
    ASSUME code \in CodeRecs, NEW c \in [n : Nat, over : BOOLEAN], NEW f \in Nat, NEW m \in Nat,
           NEW d \in SUBSET Nat, code' = [code EXCEPT !.cur = c, !.fails = f, !.made = m, !.dead = d]
    PROVE  code' \in CodeRecs
  BY DEF CodeRecs

LEMMA CodeStruck ==
    ASSUME code \in CodeRecs, NEW f \in Nat, NEW c \in [n : Nat, over : BOOLEAN],
           NEW d \in SUBSET Nat, code' = [code EXCEPT !.fails = f, !.cur = c, !.dead = d]
    PROVE  /\ code' \in CodeRecs
           /\ code'.cur = c /\ code'.dead = d /\ code'.made = code.made
           /\ code'.paired = code.paired
  BY DEF CodeRecs

LEMMA LimSet ==
    ASSUME lim \in LimRecs, NEW o \in Maps(Nat, Nat), NEW g \in Nat, NEW f \in Nat,
           NEW s \in Nat,
           lim' = [lim EXCEPT !.own = o, !.global = g, !.failed = f, !.seconds = s]
    PROVE  lim' \in LimRecs
  BY DEF LimRecs

LEMMA AdminCreatesStep ==
    ASSUME AccessInv, AdminCreates
    PROVE  AccessInv'
<1> USE DEF AdminCreates, CreateToken, Started
<1>0. AccessTyped /\ IdsApart /\ CodeFollows /\ UsedOnce /\ Counted /\ StoreFollows
  BY DEF AccessInv
<1>1. AccessTyped'
  BY <1>0 DEF AccessTyped, CreateJobs, RotateJobs, AuthJobs, BodyJobs, CodeRecs
<1>2. IdsApart'
  BY <1>0 DEF IdsApart, AccessTyped, CreateJobs, RotateJobs, AuthJobs, BodyJobs, TokenRecs,
      PushOps, StoreRecs, LimRecs, CodeRecs, Hashing, Creating
<1>3. CodeFollows'
  BY <1>0 DEF CodeFollows
<1>4. UsedOnce'
  BY <1>0 DEF UsedOnce, AccessTyped, CodeFollows, CodeRecs, Creating
<1>5. Counted'
  BY <1>0 DEF Counted
<1>6. StoreFollows'
  BY <1>0 DEF StoreFollows
<1> QED BY <1>1, <1>2, <1>3, <1>4, <1>5, <1>6 DEF AccessInv

LEMMA TokenCreatedStep ==
    ASSUME AccessInv, NEW j \in jobs, TokenCreated(j)
    PROVE  AccessInv'
<1> USE DEF TokenCreated, Ended
<1>0. AccessTyped /\ IdsApart /\ CodeFollows /\ UsedOnce /\ Counted /\ StoreFollows
  BY DEF AccessInv
<1>1. AccessTyped'
  BY <1>0 DEF AccessTyped, CreateJobs, RotateJobs, AuthJobs, BodyJobs, TokenRecs, PushOps,
      StoreRecs, LimRecs, CodeRecs
<1>2. IdsApart'
  BY <1>0 DEF IdsApart, Hashing, Creating
<1>3. CodeFollows'
  BY <1>0 DEF CodeFollows
<1>4. UsedOnce'
  BY <1>0 DEF UsedOnce, AccessTyped, CreateJobs, RotateJobs, AuthJobs, BodyJobs, CodeRecs, Creating
<1>5. Counted'
  BY <1>0 DEF Counted
<1>6. StoreFollows'
  BY <1>0 DEF StoreFollows
<1> QED BY <1>1, <1>2, <1>3, <1>4, <1>5, <1>6 DEF AccessInv

LEMMA TokenRotatedStep ==
    ASSUME AccessInv, NEW j \in jobs, TokenRotated(j)
    PROVE  AccessInv'
<1> USE DEF TokenRotated, Ended
<1>0. AccessTyped /\ IdsApart /\ CodeFollows /\ UsedOnce /\ Counted /\ StoreFollows
  BY DEF AccessInv
<1>1. AccessTyped'
  <2>1. j.old \in TokenRecs /\ j.secret \in Nat
    BY <1>0 DEF AccessTyped, CreateJobs, RotateJobs, AuthJobs, BodyJobs
  <2>2. [j.old EXCEPT !.secret = j.secret] \in TokenRecs
    BY <2>1 DEF TokenRecs
  <2> QED BY <1>0, <2>2 DEF AccessTyped
<1>2. IdsApart'
  BY <1>0 DEF IdsApart, AccessTyped, CreateJobs, RotateJobs, AuthJobs, BodyJobs, TokenRecs,
      PushOps, StoreRecs, LimRecs, CodeRecs, Hashing, Creating
<1>3. CodeFollows'
  BY <1>0 DEF CodeFollows
<1>4. UsedOnce'
  BY <1>0 DEF UsedOnce, Creating
<1>5. Counted'
  BY <1>0 DEF Counted
<1>6. StoreFollows'
  BY <1>0 DEF StoreFollows
<1> QED BY <1>1, <1>2, <1>3, <1>4, <1>5, <1>6 DEF AccessInv

LEMMA RotateTokenStep ==
    ASSUME AccessInv, NEW r \in acc.recs, RotateToken(r)
    PROVE  AccessInv'
<1> USE DEF RotateToken, Started
<1>0. AccessTyped /\ IdsApart /\ CodeFollows /\ UsedOnce /\ Counted /\ StoreFollows
  BY DEF AccessInv
<1>1. AccessTyped'
  BY <1>0 DEF AccessTyped, CreateJobs, RotateJobs, AuthJobs, BodyJobs, CodeRecs
<1>2. IdsApart'
  BY <1>0 DEF IdsApart, AccessTyped, CreateJobs, RotateJobs, AuthJobs, BodyJobs, TokenRecs,
      PushOps, StoreRecs, LimRecs, CodeRecs, Hashing, Creating
<1>3. CodeFollows'
  BY <1>0 DEF CodeFollows
<1>4. UsedOnce'
  BY <1>0 DEF UsedOnce, Creating
<1>5. Counted'
  BY <1>0 DEF Counted
<1>6. StoreFollows'
  BY <1>0 DEF StoreFollows
<1> QED BY <1>1, <1>2, <1>3, <1>4, <1>5, <1>6 DEF AccessInv

LEMMA RevokeTokenStep ==
    ASSUME AccessInv, NEW r \in acc.recs, RevokeToken(r)
    PROVE  AccessInv'
<1> USE DEF RevokeToken
<1>0. AccessTyped /\ IdsApart /\ CodeFollows /\ UsedOnce /\ Counted /\ StoreFollows
  BY DEF AccessInv
<1>1. AccessTyped'
  BY <1>0 DEF AccessTyped, CreateJobs, RotateJobs, AuthJobs, BodyJobs, TokenRecs, PushOps,
      StoreRecs, LimRecs, CodeRecs
<1>2. IdsApart'
  BY <1>0 DEF IdsApart, Hashing, Creating
<1>3. CodeFollows'
  BY <1>0 DEF CodeFollows
<1>4. UsedOnce'
  BY <1>0 DEF UsedOnce, Creating
<1>5. Counted'
  BY <1>0 DEF Counted
<1>6. StoreFollows'
  BY <1>0 DEF StoreFollows
<1> QED BY <1>1, <1>2, <1>3, <1>4, <1>5, <1>6 DEF AccessInv

LEMMA CreatePairingStep ==
    ASSUME AccessInv, CreatePairing
    PROVE  AccessInv'
<1> USE DEF CreatePairing
<1>0. AccessTyped /\ IdsApart /\ CodeFollows /\ UsedOnce /\ Counted /\ StoreFollows
  BY DEF AccessInv
<1>1. AccessTyped'
  <2> DEFINE fresh == [n |-> code.made + 1, over |-> FALSE]
             more == code.made + 1
             dead == code.dead \cup ({code.cur.n} \ {0})
  <2>1. fresh \in [n : Nat, over : BOOLEAN] /\ more \in Nat /\ dead \in SUBSET Nat
    BY <1>0 DEF AccessTyped, CodeRecs
  <2>2. code' = [code EXCEPT !.cur = fresh, !.fails = 0, !.made = more, !.dead = dead]
    OBVIOUS
  <2> HIDE DEF fresh, more, dead
  <2>3. code' \in CodeRecs
    BY ONLY <1>0, <2>1, <2>2, CodeSet DEF AccessTyped
  <2> QED BY <1>0, <2>3 DEF AccessTyped
<1>2. IdsApart'
  BY <1>0 DEF IdsApart, Hashing, Creating
<1>3. CodeFollows'
  BY <1>0 DEF CodeFollows, AccessTyped, CodeRecs
<1>4. UsedOnce'
  BY <1>0 DEF UsedOnce, AccessTyped, CreateJobs, RotateJobs, AuthJobs, BodyJobs, CodeRecs, Creating
<1>5. Counted'
  BY <1>0 DEF Counted
<1>6. StoreFollows'
  BY <1>0 DEF StoreFollows
<1> QED BY <1>1, <1>2, <1>3, <1>4, <1>5, <1>6 DEF AccessInv

LEMMA CancelPairingStep ==
    ASSUME AccessInv, CancelPairing
    PROVE  AccessInv'
<1> USE DEF CancelPairing, NoCode
<1>0. AccessTyped /\ IdsApart /\ CodeFollows /\ UsedOnce /\ Counted /\ StoreFollows
  BY DEF AccessInv
<1>1. AccessTyped'
  BY <1>0 DEF AccessTyped, CodeRecs
<1>2. IdsApart'
  BY <1>0 DEF IdsApart, Hashing, Creating
<1>3. CodeFollows'
  BY <1>0 DEF CodeFollows, AccessTyped, CodeRecs
<1>4. UsedOnce'
  BY <1>0 DEF UsedOnce, AccessTyped, CodeFollows, CodeRecs, Creating
<1>5. Counted'
  BY <1>0 DEF Counted
<1>6. StoreFollows'
  BY <1>0 DEF StoreFollows
<1> QED BY <1>1, <1>2, <1>3, <1>4, <1>5, <1>6 DEF AccessInv

LEMMA PairingExpiresStep ==
    ASSUME AccessInv, PairingExpires
    PROVE  AccessInv'
<1> USE DEF PairingExpires
<1>0. AccessTyped /\ IdsApart /\ CodeFollows /\ UsedOnce /\ Counted /\ StoreFollows
  BY DEF AccessInv
<1>1. AccessTyped'
  BY <1>0 DEF AccessTyped, CodeRecs
<1>2. IdsApart'
  BY <1>0 DEF IdsApart, Hashing, Creating
<1>3. CodeFollows'
  BY <1>0 DEF CodeFollows, AccessTyped, CodeRecs
<1>4. UsedOnce'
  BY <1>0 DEF UsedOnce, AccessTyped, CodeRecs, Creating
<1>5. Counted'
  BY <1>0 DEF Counted
<1>6. StoreFollows'
  BY <1>0 DEF StoreFollows
<1> QED BY <1>1, <1>2, <1>3, <1>4, <1>5, <1>6 DEF AccessInv

LEMMA PairRefusedStep ==
    ASSUME AccessInv, NEW right \in BOOLEAN, Pair(right), code.cur.n = 0 \/ code.cur.over
    PROVE  AccessInv'
<1> USE DEF Pair, FailedAttempt, NoCode
<1>0. AccessTyped /\ IdsApart /\ CodeFollows /\ UsedOnce /\ Counted /\ StoreFollows
  BY DEF AccessInv
<1>1. AccessTyped'
  <2>1. lim' \in LimRecs
    BY <1>0 DEF AccessTyped, LimRecs
  <2>2. code' \in CodeRecs
    <3> DEFINE none == [n |-> 0, over |-> FALSE]
    <3>1. none \in [n : Nat, over : BOOLEAN]
      OBVIOUS
    <3>2. code' = [code EXCEPT !.cur = none]
      OBVIOUS
    <3> HIDE DEF none
    <3> QED BY <1>0, <3>1, <3>2 DEF AccessTyped, CodeRecs
  <2> QED BY <1>0, <2>1, <2>2 DEF AccessTyped
<1>2. IdsApart'
  BY <1>0 DEF IdsApart, Hashing, Creating
<1>3. CodeFollows'
  BY <1>0 DEF CodeFollows, AccessTyped, CodeRecs
<1>4. UsedOnce'
  BY <1>0 DEF UsedOnce, AccessTyped, CodeRecs, Creating
<1>5. Counted'
  BY <1>0 DEF Counted, AccessTyped, CreateJobs, RotateJobs, AuthJobs, BodyJobs, TokenRecs, PushOps,
      StoreRecs, LimRecs, CodeRecs
<1>6. StoreFollows'
  BY <1>0 DEF StoreFollows
<1> QED BY <1>1, <1>2, <1>3, <1>4, <1>5, <1>6 DEF AccessInv

LEMMA PairWrongStep ==
    ASSUME AccessInv, NEW right \in BOOLEAN, Pair(right), ~right, code.cur.n # 0, ~code.cur.over
    PROVE  AccessInv'
<1> USE DEF Pair, FailedAttempt, NoCode
<1>0. AccessTyped /\ IdsApart /\ CodeFollows /\ UsedOnce /\ Counted /\ StoreFollows
  BY DEF AccessInv
<1> DEFINE struck == code.fails + 1 >= PairingMaxFails
           cur == IF struck THEN [n |-> 0, over |-> FALSE] ELSE code.cur
           dead == IF struck THEN code.dead \cup {code.cur.n} ELSE code.dead
           fails == code.fails + 1
<1>7. code' = [code EXCEPT !.fails = fails, !.cur = cur, !.dead = dead]
  OBVIOUS
<1>8. /\ fails \in Nat /\ cur \in [n : Nat, over : BOOLEAN] /\ dead \in SUBSET Nat
      /\ \/ cur = code.cur /\ dead = code.dead
         \/ cur.n = 0 /\ ~cur.over /\ dead = code.dead \cup {code.cur.n}
  BY <1>0 DEF AccessTyped, CodeRecs
<1> HIDE DEF cur, dead, fails
<1>9. /\ code' \in CodeRecs
      /\ code'.cur = cur /\ code'.dead = dead /\ code'.made = code.made
      /\ code'.paired = code.paired
  BY ONLY <1>0, <1>7, <1>8, CodeStruck DEF AccessTyped
<1>10. UNCHANGED <<acc, jobs, store>> /\ asked' = asked + 1
  OBVIOUS
<1>1. AccessTyped'
  <2>1. lim' \in LimRecs
    BY <1>0 DEF AccessTyped, LimRecs
  <2> QED BY <1>0, <1>9, <1>10, <2>1 DEF AccessTyped
<1>2. IdsApart'
  BY <1>0 DEF IdsApart, Hashing, Creating
<1>3. CodeFollows'
  BY <1>0, <1>8, <1>9 DEF AccessTyped, CodeFollows, CodeRecs
<1>4. UsedOnce'
  <2>1. Creating' = Creating /\ \A i \in Creating : i.pairing \in Nat
    BY <1>0, <1>10 DEF AccessTyped, Creating, CreateJobs, RotateJobs, AuthJobs, BodyJobs
  <2>2. \A p \in code.paired : p[1] # code.cur.n /\ p[1] # 0
    BY <1>0 DEF AccessTyped, UsedOnce, CodeRecs
  <2>3. code.cur.n # 0
    OBVIOUS
  <2>4. 0 \notin code.dead
    BY <1>0 DEF CodeFollows
  <2> QED BY ONLY <1>0, <1>8, <1>9, <2>1, <2>2, <2>3, <2>4 DEF UsedOnce
<1>5. Counted'
  BY <1>0 DEF Counted, AccessTyped, CreateJobs, RotateJobs, AuthJobs, BodyJobs, TokenRecs, PushOps,
      StoreRecs, LimRecs, CodeRecs
<1>6. StoreFollows'
  BY <1>0 DEF StoreFollows
<1> QED BY <1>1, <1>2, <1>3, <1>4, <1>5, <1>6 DEF AccessInv

LEMMA PairRightStep ==
    ASSUME AccessInv, NEW right \in BOOLEAN, Pair(right), right, code.cur.n # 0, ~code.cur.over
    PROVE  AccessInv'
<1> USE DEF Pair, CreateToken, Started, NoCode
<1>0. AccessTyped /\ IdsApart /\ CodeFollows /\ UsedOnce /\ Counted /\ StoreFollows
  BY DEF AccessInv
<1>1. AccessTyped'
  <2>2. code' \in CodeRecs
    <3> DEFINE none == [n |-> 0, over |-> FALSE]
    <3>1. none \in [n : Nat, over : BOOLEAN]
      OBVIOUS
    <3>2. code' = [code EXCEPT !.cur = none]
      OBVIOUS
    <3> HIDE DEF none
    <3> QED BY <1>0, <3>1, <3>2 DEF AccessTyped, CodeRecs
  <2>3. CASE UNCHANGED <<acc, jobs>>
    BY <1>0, <2>2, <2>3 DEF AccessTyped
  <2>4. CASE CreateToken("deck", code.cur.n)
    BY <1>0, <2>2, <2>4 DEF AccessTyped, CodeRecs, CreateJobs
  <2> QED BY <2>3, <2>4
<1>2. IdsApart'
  BY <1>0 DEF IdsApart, AccessTyped, CreateJobs, RotateJobs, AuthJobs, BodyJobs, TokenRecs,
      PushOps, StoreRecs, LimRecs, CodeRecs, Hashing, Creating
<1>3. CodeFollows'
  BY <1>0 DEF CodeFollows, AccessTyped, CodeRecs
<1>4. UsedOnce'
  BY <1>0 DEF UsedOnce, AccessTyped, CodeFollows, CodeRecs, Creating
<1>5. Counted'
  BY <1>0 DEF Counted
<1>6. StoreFollows'
  BY <1>0 DEF StoreFollows
<1> QED BY <1>1, <1>2, <1>3, <1>4, <1>5, <1>6 DEF AccessInv

LEMMA PushRequestStep ==
    ASSUME AccessInv, NEW s \in Nat, NEW op \in PushOps, PushRequest(s, op)
    PROVE  AccessInv'
<1> USE DEF PushRequest, Started
<1>0. AccessTyped /\ IdsApart /\ CodeFollows /\ UsedOnce /\ Counted /\ StoreFollows
  BY DEF AccessInv
<1>1. AccessTyped'
  BY <1>0 DEF AccessTyped, CreateJobs, RotateJobs, AuthJobs, BodyJobs, CodeRecs
<1>2. IdsApart'
  BY <1>0 DEF IdsApart, Hashing, Creating
<1>3. CodeFollows'
  BY <1>0 DEF CodeFollows
<1>4. UsedOnce'
  BY <1>0 DEF UsedOnce, Creating
<1>5. Counted'
  BY <1>0 DEF Counted
<1>6. StoreFollows'
  BY <1>0 DEF StoreFollows
<1> QED BY <1>1, <1>2, <1>3, <1>4, <1>5, <1>6 DEF AccessInv

LEMMA AuthenticatedStep ==
    ASSUME AccessInv, NEW j \in jobs, Authenticated(j)
    PROVE  AccessInv'
<1> USE DEF Authenticated, Ended
<1>0. AccessTyped /\ IdsApart /\ CodeFollows /\ UsedOnce /\ Counted /\ StoreFollows
  BY DEF AccessInv
<1>1. AccessTyped'
  <2>1. /\ UNCHANGED <<acc, code, asked>> /\ j \in AuthJobs
    BY <1>0 DEF AccessTyped, CreateJobs, RotateJobs, AuthJobs, BodyJobs
  <2>2. CASE j.found = {} /\ FailedAttempt /\ Ended(j) /\ UNCHANGED store
    <3>1. lim' \in LimRecs
      BY <1>0, <2>2 DEF AccessTyped, LimRecs, FailedAttempt
    <3> QED BY <1>0, <2>1, <2>2, <3>1 DEF AccessTyped
  <2>3. CASE \E r \in j.found : r.scope # "push" /\ Ended(j) /\ UNCHANGED <<lim, store>>
    BY <1>0, <2>1, <2>3 DEF AccessTyped
  <2>4. CASE \E r \in j.found : AuthAdmitted(j, r)
    <3>1. PICK r \in j.found : AuthAdmitted(j, r)
      BY <2>4
    <3>2. r.id \in Nat /\ j.op \in PushOps /\ j.n \in Nat
      BY <2>1 DEF AuthJobs, TokenRecs
    <3>3. lim' \in LimRecs
      BY <1>0, <3>1, <3>2, TakePushCounts DEF AccessTyped, AuthAdmitted
    <3>4. store' = store \/ store' = StoreCleared(store, j.op.c)
      BY <3>1 DEF AuthAdmitted
    <3>5. store' \in StoreRecs
      BY <1>0, <3>4, StoreClearedFollows DEF AccessTyped
    <3>6. jobs' \subseteq jobs \cup BodyJobs
      BY <3>1, <3>2 DEF AuthAdmitted, BodyJobs
    <3> QED BY <1>0, <2>1, <3>3, <3>5, <3>6 DEF AccessTyped
  <2> QED BY <2>2, <2>3, <2>4 DEF AuthAdmitted
<1>2. IdsApart'
  <2>1. UNCHANGED <<acc, code>> /\ j.k = "auth"
    OBVIOUS
  <2>2. \A i \in jobs' : i \in jobs \/ i.k = "body"
    BY DEF AuthAdmitted
  <2>3. Hashing' \subseteq Hashing /\ Creating' \subseteq Creating
    BY ONLY <2>2 DEF Hashing, Creating
  <2> QED BY ONLY <1>0, <2>1, <2>3 DEF IdsApart
<1>3. CodeFollows'
  BY <1>0 DEF CodeFollows
<1>4. UsedOnce'
  <2>1. UNCHANGED <<acc, code>> /\ j.k = "auth"
    OBVIOUS
  <2>2. \A i \in jobs' : i \in jobs \/ i.k = "body"
    BY DEF AuthAdmitted
  <2>3. Creating' \subseteq Creating
    BY ONLY <2>2 DEF Creating
  <2> QED BY ONLY <1>0, <2>1, <2>3 DEF UsedOnce
<1>5. Counted'
  <2>1. CASE UNCHANGED lim
    BY <1>0, <2>1 DEF Counted
  <2>2. CASE FailedAttempt
    BY <1>0, <2>2 DEF Counted, AccessTyped, LimRecs, FailedAttempt
  <2>3. CASE \E r \in j.found : lim' = TakePush(r.id)
    <3>1. j \in AuthJobs
      BY <1>0 DEF AccessTyped, CreateJobs, RotateJobs, AuthJobs, BodyJobs
    <3>2. PICK r \in j.found : lim' = TakePush(r.id)
      BY <2>3
    <3>3. r.id \in Nat
      BY <3>1 DEF AuthJobs, TokenRecs
    <3> QED BY <1>0, <3>2, <3>3, TakePushCounts, CapacitiesKnown DEF AccessTyped, LimRecs, Counted
  <2> QED BY <2>1, <2>2, <2>3
<1>6. StoreFollows'
  <2>1. UNCHANGED store \/ store' = StoreCleared(store, j.op.c)
    OBVIOUS
  <2>2. CASE UNCHANGED store
    BY <1>0, <2>2 DEF StoreFollows
  <2>3. CASE store' = StoreCleared(store, j.op.c)
    BY <1>0, <2>3, StoreClearedFollows DEF AccessTyped
  <2> QED BY <2>1, <2>2, <2>3
<1> QED BY <1>1, <1>2, <1>3, <1>4, <1>5, <1>6 DEF AccessInv

LEMMA BodyReadStep ==
    ASSUME AccessInv, NEW j \in jobs, BodyRead(j)
    PROVE  AccessInv'
<1> USE DEF BodyRead, Ended
<1>0. AccessTyped /\ IdsApart /\ CodeFollows /\ UsedOnce /\ Counted /\ StoreFollows
  BY DEF AccessInv
<1>1. AccessTyped'
  <2>1. j \in BodyJobs
    BY <1>0 DEF AccessTyped, CreateJobs, RotateJobs, AuthJobs, BodyJobs
  <2>2. j.op.c \in PushChannelNames /\ j.op.v \in PushTexts \cup {0}
    BY <2>1 DEF BodyJobs, PushOps
  <2>3. CASE UNCHANGED store
    BY <1>0, <2>3 DEF AccessTyped
  <2>4. CASE \E lasts \in BOOLEAN : StoreSet(j.op.c, j.op.v, lasts)
    BY <1>0, <2>2, <2>4, StoreSetFollows DEF AccessTyped
  <2> QED BY <2>3, <2>4
<1>2. IdsApart'
  BY <1>0 DEF IdsApart, Hashing, Creating
<1>3. CodeFollows'
  BY <1>0 DEF CodeFollows
<1>4. UsedOnce'
  BY <1>0 DEF UsedOnce, Creating
<1>5. Counted'
  BY <1>0 DEF Counted
<1>6. StoreFollows'
  <2>1. j \in BodyJobs
    BY <1>0 DEF AccessTyped, CreateJobs, RotateJobs, AuthJobs, BodyJobs
  <2>2. j.op.c \in PushChannelNames /\ j.op.v \in PushTexts \cup {0}
    BY <2>1 DEF BodyJobs, PushOps
  <2>3. CASE UNCHANGED store
    BY <1>0, <2>3 DEF StoreFollows
  <2>4. CASE \E lasts \in BOOLEAN : StoreSet(j.op.c, j.op.v, lasts)
    BY <1>0, <2>2, <2>4, StoreSetFollows DEF AccessTyped
  <2> QED BY <2>3, <2>4
<1> QED BY <1>1, <1>2, <1>3, <1>4, <1>5, <1>6 DEF AccessInv

LEMMA ChannelExpiresStep ==
    ASSUME AccessInv, NEW c \in DOMAIN store.values, ChannelExpires(c)
    PROVE  AccessInv'
<1> USE DEF ChannelExpires
<1>0. AccessTyped /\ IdsApart /\ CodeFollows /\ UsedOnce /\ Counted /\ StoreFollows
  BY DEF AccessInv
<1>1. AccessTyped'
  <2>1. PICK D \in SUBSET PushChannelNames : store.values \in [D -> ChannelRecs]
    BY <1>0 DEF AccessTyped, StoreRecs, ChannelMaps, Maps
  <2>2. store.values[c] \in ChannelRecs /\ c \in D
    BY <2>1
  <2>3. DOMAIN [store.values[c] EXCEPT !.over = TRUE] = DOMAIN store.values[c]
    OBVIOUS
  <2> DEFINE aged == [store.values[c] EXCEPT !.over = TRUE]
  <2>4. aged \in ChannelRecs /\ aged.v = store.values[c].v
    BY <2>2 DEF ChannelRecs
  <2>5. store' = [store EXCEPT !.values = [@ EXCEPT ![c] = aged]]
    OBVIOUS
  <2> HIDE DEF aged
  <2>6. store' = [store EXCEPT !.values = [store.values EXCEPT ![c] = aged]]
    BY <2>5
  <2>7. [store.values EXCEPT ![c] = aged] \in [D -> ChannelRecs]
    BY <2>1, <2>2, <2>4
  <2>8. [store.values EXCEPT ![c] = aged] \in ChannelMaps
    BY <2>7 DEF ChannelMaps, Maps
  <2>9. store' \in StoreRecs
    BY <1>0, <2>6, <2>8 DEF AccessTyped, StoreRecs
  <2> QED BY <1>0, <2>9 DEF AccessTyped
<1>2. IdsApart'
  BY <1>0 DEF IdsApart, Hashing, Creating
<1>3. CodeFollows'
  BY <1>0 DEF CodeFollows
<1>4. UsedOnce'
  BY <1>0 DEF UsedOnce, Creating
<1>5. Counted'
  BY <1>0 DEF Counted
<1>6. StoreFollows'
  <2>1. PICK D \in SUBSET PushChannelNames : store.values \in [D -> ChannelRecs]
    BY <1>0 DEF AccessTyped, StoreRecs, ChannelMaps, Maps
  <2>2. store.values[c] \in ChannelRecs /\ c \in D
    BY <2>1
  <2>3. DOMAIN [store.values[c] EXCEPT !.over = TRUE] = DOMAIN store.values[c]
    OBVIOUS
  <2> DEFINE aged == [store.values[c] EXCEPT !.over = TRUE]
  <2>4. aged \in ChannelRecs /\ aged.v = store.values[c].v
    BY <2>2 DEF ChannelRecs
  <2>5. store' = [store EXCEPT !.values = [@ EXCEPT ![c] = aged]]
    OBVIOUS
  <2> HIDE DEF aged
  <2>6. store' = [store EXCEPT !.values = [store.values EXCEPT ![c] = aged]]
    BY <2>5
  <2>7. [store.values EXCEPT ![c] = aged] \in [D -> ChannelRecs]
    BY <2>1, <2>2, <2>4
  <2>8. /\ store'.values = [store.values EXCEPT ![c] = aged]
        /\ store'.repaint = store.repaint /\ store'.broadcast = store.broadcast
        /\ store'.disposed = store.disposed
        /\ store'.painted = store.painted /\ store'.ui = store.ui
    BY <1>0, <2>6 DEF AccessTyped, StoreRecs
  <2>9. Texts([store.values EXCEPT ![c] = aged]) = Texts(store.values)
    BY <2>1, <2>2, <2>4 DEF Texts
  <2>10. DOMAIN [store.values EXCEPT ![c] = aged] = DOMAIN store.values
    OBVIOUS
  <2> QED BY <1>0, <2>8, <2>9, <2>10 DEF StoreFollows
<1> QED BY <1>1, <1>2, <1>3, <1>4, <1>5, <1>6 DEF AccessInv

LEMMA RepaintTimerStep ==
    ASSUME AccessInv, RepaintTimer
    PROVE  AccessInv'
<1> USE DEF RepaintTimer
<1>0. AccessTyped /\ IdsApart /\ CodeFollows /\ UsedOnce /\ Counted /\ StoreFollows
  BY DEF AccessInv
<1>1. AccessTyped'
  BY <1>0 DEF AccessTyped, CreateJobs, RotateJobs, AuthJobs, BodyJobs, TokenRecs, PushOps,
      StoreRecs, LimRecs, CodeRecs
<1>2. IdsApart'
  BY <1>0 DEF IdsApart, Hashing, Creating
<1>3. CodeFollows'
  BY <1>0 DEF CodeFollows
<1>4. UsedOnce'
  BY <1>0 DEF UsedOnce, Creating
<1>5. Counted'
  BY <1>0 DEF Counted
<1>6. StoreFollows'
  BY <1>0 DEF StoreFollows
<1> QED BY <1>1, <1>2, <1>3, <1>4, <1>5, <1>6 DEF AccessInv

LEMMA BroadcastTimerStep ==
    ASSUME AccessInv, BroadcastTimer
    PROVE  AccessInv'
<1> USE DEF BroadcastTimer
<1>0. AccessTyped /\ IdsApart /\ CodeFollows /\ UsedOnce /\ Counted /\ StoreFollows
  BY DEF AccessInv
<1>1. AccessTyped'
  BY <1>0 DEF AccessTyped, CreateJobs, RotateJobs, AuthJobs, BodyJobs, TokenRecs, PushOps,
      StoreRecs, LimRecs, CodeRecs
<1>2. IdsApart'
  BY <1>0 DEF IdsApart, Hashing, Creating
<1>3. CodeFollows'
  BY <1>0 DEF CodeFollows
<1>4. UsedOnce'
  BY <1>0 DEF UsedOnce, Creating
<1>5. Counted'
  BY <1>0 DEF Counted
<1>6. StoreFollows'
  BY <1>0 DEF StoreFollows
<1> QED BY <1>1, <1>2, <1>3, <1>4, <1>5, <1>6 DEF AccessInv

LEMMA DisposePushStep ==
    ASSUME AccessInv, DisposePush
    PROVE  AccessInv'
<1> USE DEF DisposePush
<1>0. AccessTyped /\ IdsApart /\ CodeFollows /\ UsedOnce /\ Counted /\ StoreFollows
  BY DEF AccessInv
<1>1. AccessTyped'
  BY <1>0 DEF AccessTyped, CreateJobs, RotateJobs, AuthJobs, BodyJobs, TokenRecs, PushOps,
      StoreRecs, LimRecs, CodeRecs
<1>2. IdsApart'
  BY <1>0 DEF IdsApart, Hashing, Creating
<1>3. CodeFollows'
  BY <1>0 DEF CodeFollows
<1>4. UsedOnce'
  BY <1>0 DEF UsedOnce, Creating
<1>5. Counted'
  BY <1>0 DEF Counted
<1>6. StoreFollows'
  BY <1>0 DEF StoreFollows
<1> QED BY <1>1, <1>2, <1>3, <1>4, <1>5, <1>6 DEF AccessInv

LEMMA SecondPassesStep ==
    ASSUME AccessInv, SecondPasses
    PROVE  AccessInv'
<1> USE DEF SecondPasses
<1>0. AccessTyped /\ IdsApart /\ CodeFollows /\ UsedOnce /\ Counted /\ StoreFollows
  BY DEF AccessInv
<1>1. AccessTyped'
  <2>1. PICK D \in SUBSET Nat : lim.own \in [D -> Nat]
    BY <1>0 DEF AccessTyped, LimRecs, Maps
  <2> DEFINE more(n, cap) == IF n < cap THEN n + 1 ELSE n
             refilled == [i \in DOMAIN lim.own |-> more(lim.own[i], OwnCapacity)]
  <2>2. \A n \in Nat : \A cap : more(n, cap) \in Nat
    OBVIOUS
  <2>3. refilled \in Maps(Nat, Nat)
    <3>1. DOMAIN lim.own = D /\ \A i \in D : more(lim.own[i], OwnCapacity) \in Nat
      BY <2>1, <2>2
    <3> HIDE DEF more
    <3>2. refilled \in [D -> Nat]
      BY <3>1
    <3> HIDE DEF refilled
    <3> QED BY <3>2 DEF Maps
  <2> DEFINE global == more(lim.global, GlobalCapacity)
             failed == more(lim.failed, FailCapacity)
             seconds == lim.seconds + 1
  <2>4. lim' = [lim EXCEPT !.own = refilled, !.global = global, !.failed = failed,
                           !.seconds = seconds]
    OBVIOUS
  <2>5. global \in Nat /\ failed \in Nat /\ seconds \in Nat
    BY <1>0, <2>2 DEF AccessTyped, LimRecs
  <2> HIDE DEF refilled, more, global, failed, seconds
  <2>6. lim' \in LimRecs
    BY ONLY <1>0, <2>3, <2>4, <2>5, LimSet DEF AccessTyped
  <2> QED BY <1>0, <2>6 DEF AccessTyped
<1>2. IdsApart'
  BY <1>0 DEF IdsApart, Hashing, Creating
<1>3. CodeFollows'
  BY <1>0 DEF CodeFollows
<1>4. UsedOnce'
  BY <1>0 DEF UsedOnce, Creating
<1>5. Counted'
  BY <1>0, CapacitiesKnown DEF Counted, AccessTyped, LimRecs, CodeRecs
<1>6. StoreFollows'
  BY <1>0 DEF StoreFollows
<1> QED BY <1>1, <1>2, <1>3, <1>4, <1>5, <1>6 DEF AccessInv

(* The tokens, the pairings and the push channels stay consistent over everything that is
   awaited (push-controller.ts, pairing-codes.ts): for any number of jobs, secrets, pairings
   and requests, and every set of channels and texts. *)
THEOREM AccessStaysConsistent == PushSpec => []AccessIsConsistent
<1>1. PushInit => AccessInv
  BY AccessInitHolds
<1>2. AccessInv /\ [PushNext]_pushVars => AccessInv'
  <2> SUFFICES ASSUME AccessInv, [PushNext]_pushVars PROVE AccessInv'
    OBVIOUS
  <2>1. CASE UNCHANGED pushVars
    BY <2>1 DEF pushVars, AccessInv, AccessTyped, IdsApart, CodeFollows, UsedOnce, Counted,
                StoreFollows, Hashing, Creating
  <2>2. CASE AdminCreates
    BY <2>2, AdminCreatesStep
  <2>3. CASE \E j \in jobs : TokenCreated(j) \/ TokenRotated(j) \/ Authenticated(j) \/ BodyRead(j)
    BY <2>3, TokenCreatedStep, TokenRotatedStep, AuthenticatedStep, BodyReadStep
  <2>4. CASE \E r \in acc.recs : RotateToken(r) \/ RevokeToken(r)
    BY <2>4, RotateTokenStep, RevokeTokenStep
  <2>5. CASE CreatePairing \/ CancelPairing \/ PairingExpires
    BY <2>5, CreatePairingStep, CancelPairingStep, PairingExpiresStep
  <2>6. CASE \E right \in BOOLEAN : Pair(right)
    <3>1. PICK right \in BOOLEAN : Pair(right)
      BY <2>6
    <3>2. CASE code.cur.n = 0 \/ code.cur.over
      BY <3>1, <3>2, PairRefusedStep
    <3>3. CASE code.cur.n # 0 /\ ~code.cur.over /\ ~right
      BY <3>1, <3>3, PairWrongStep
    <3>4. CASE code.cur.n # 0 /\ ~code.cur.over /\ right
      BY <3>1, <3>4, PairRightStep
    <3> QED BY <3>2, <3>3, <3>4
  <2>7. CASE \E s \in {0} \cup {r.secret : r \in acc.recs}, c \in PushChannelNames,
               v \in PushTexts \cup {0} : PushRequest(s, [c |-> c, v |-> v])
    <3>1. \A r \in acc.recs : r.secret \in Nat
      BY DEF AccessInv, AccessTyped, TokenRecs
    <3>2. PICK s \in Nat, c \in PushChannelNames, v \in PushTexts \cup {0} :
            PushRequest(s, [c |-> c, v |-> v])
      BY <2>7, <3>1
    <3>3. [c |-> c, v |-> v] \in PushOps
      BY DEF PushOps
    <3> QED BY <3>2, <3>3, PushRequestStep
  <2>8. CASE \E c \in DOMAIN store.values : ChannelExpires(c)
    BY <2>8, ChannelExpiresStep
  <2>9. CASE RepaintTimer \/ BroadcastTimer \/ DisposePush \/ SecondPasses
    BY <2>9, RepaintTimerStep, BroadcastTimerStep, DisposePushStep, SecondPassesStep
  <2> QED BY <2>1, <2>2, <2>3, <2>4, <2>5, <2>6, <2>7, <2>8, <2>9 DEF PushNext
<1>3. AccessInv => AccessIsConsistent
  <2> SUFFICES ASSUME AccessInv PROVE AccessIsConsistent
    OBVIOUS
  <2>1. RevokedStaysRevoked
    BY DEF AccessInv, IdsApart, RevokedStaysRevoked
  <2>2. PairingsAreOneTime
    BY DEF AccessInv, UsedOnce, Creating, PairingsAreOneTime
  <2>3. PushesAreAccounted
    BY DEF AccessInv, Counted, StoreFollows, Texts, PushesAreAccounted
  <2> QED BY <2>1, <2>2, <2>3 DEF AccessIsConsistent
<1> QED BY <1>1, <1>2, <1>3, PTL DEF PushSpec

(***************************************************************************)
(* Part 3. DockIdentity, for every set of units, models, names and reports. *)
(***************************************************************************)
AdvertShape(a) ==
    /\ a = [live |-> a.live, name |-> a.name, pid |-> a.pid, serial |-> a.serial, via |-> a.via]
    /\ a.live \in BOOLEAN
ConfigShape(c) == c = [serial |-> c.serial, pid |-> c.pid, fw |-> c.fw, child |-> c.child]

IdentityShaped ==
    /\ kind \in {"primary", "scanned"} /\ servers \in {"down", "half", "up", "stopped"}
    /\ ConfigShape(config) /\ AdvertShape(advertiser)
    /\ dock = [owner |-> dock.owner, model |-> dock.model, info |-> dock.info, unit |-> dock.unit]
    /\ dock.owner \in IdUnits \cup {NoUnit} /\ dock.unit \in IdUnits \cup {NoUnit}
    /\ geometry = [primary |-> geometry.primary, child |-> geometry.child]
    /\ session = [open |-> session.open, told |-> session.told, answers |-> session.answers]
    /\ session.open \in BOOLEAN
    /\ dockNames \in [IdUnits -> DockNames]

(* What is announced, if anything, is what the advertiser last announced: alive from the
   primary's listen to its stop, under the name of the dock's identity and for its config. *)
AdvertFollows ==
    /\ adverts \subseteq {Announced(advertiser)}
    /\ advertiser.live <=> servers \in {"half", "up"}
    /\ ~advertiser.live => adverts = {}
    /\ advertiser.name = IF dock.owner = NoUnit THEN DefaultName ELSE dockNames[dock.owner]
    /\ advertiser.live => advertiser.pid = config.pid /\ advertiser.serial = config.serial

(* What the session was told. *)
SessionFollows ==
    /\ ~session.open => session = NoSession
    /\ session.told \subseteq {CapsOf(config, geometry.primary)}
    /\ \A a \in session.answers : a[2] = config[a[1]]
    /\ geometry.primary = geometry.child

(* The config against the unit: of a scanned dock from the start, of dock 0 while it has one. *)
ConfigFollows ==
    /\ config.serial = dock.owner
    /\ dock.unit # NoUnit =>
         /\ servers = "up" /\ dock.info = dock.unit /\ dock.owner = dock.unit
         /\ config.pid = dock.model.pid /\ config.fw = FirmwareFor(dock.model, dock.info)
         /\ kind = "scanned" \/ dock.model.physical =>
              config.child = IF dock.model.physical THEN Physical(dock.info)
                             ELSE Generated(dock.owner)
    /\ kind = "scanned" =>
         /\ dock.owner # NoUnit /\ dock.info = dock.owner
         /\ servers \in {"down", "half"} => config.child = Generated(dock.owner)

IdentityInv == IdentityShaped /\ AdvertFollows /\ SessionFollows /\ ConfigFollows

(* Whatever was announced by the advertiser that stops, nothing is left of it. *)
LEMMA SilencedIsEmpty ==
    ASSUME NEW a, NEW ads, ads \subseteq {Announced(a)}
    PROVE  Silenced(ads, a) = {}
  BY DEF Silenced, Deregistered, Announced

LEMMA AnnouncingOne ==
    ASSUME NEW a
    PROVE  Announcing({}, a) \subseteq {Announced(a)}
  BY DEF Announcing, Registered, Deregistered

LEMMA SpawnFollows ==
    ASSUME NEW name, NEW cfg, NEW via, SpawnAdvertiser({}, name, cfg, via)
    PROVE  /\ AdvertShape(advertiser)' /\ advertiser'.live /\ advertiser'.name = name
           /\ advertiser'.pid = cfg.pid /\ advertiser'.serial = cfg.serial
           /\ adverts' \subseteq {Announced(advertiser)'}
<1> DEFINE a == [live |-> TRUE, name |-> name, pid |-> cfg.pid, serial |-> cfg.serial, via |-> via]
<1>1. AdvertShape(a) /\ a.live /\ a.name = name /\ a.pid = cfg.pid /\ a.serial = cfg.serial
  BY DEF AdvertShape
<1>2. advertiser' = a /\ adverts' = Announcing({}, a)
  BY DEF SpawnAdvertiser
<1> HIDE DEF a
<1>3. adverts' \subseteq {Announced(a)}
  BY <1>2, AnnouncingOne
<1> QED BY <1>1, <1>2, <1>3 DEF AdvertShape, Announced

LEMMA RestartFollows ==
    ASSUME NEW a, AdvertShape(a), a.live, NEW ads, ads \subseteq {Announced(a)},
           NEW cfg, NEW via, RestartMdns(a, ads, cfg, via)
    PROVE  /\ AdvertShape(advertiser)' /\ advertiser'.live /\ advertiser'.name = a.name
           /\ advertiser'.pid = cfg.pid /\ advertiser'.serial = cfg.serial
           /\ adverts' \subseteq {Announced(advertiser)'}
<1>1. CASE a.pid = cfg.pid /\ a.serial = cfg.serial
  <2>1. advertiser' = a /\ adverts' = ads
    BY <1>1 DEF RestartMdns
  <2> QED BY <1>1, <2>1 DEF AdvertShape, Announced
<1>2. CASE ~ (a.pid = cfg.pid /\ a.serial = cfg.serial)
  <2>1. SpawnAdvertiser({}, a.name, cfg, via)
    BY <1>2, SilencedIsEmpty DEF RestartMdns
  <2> QED BY <2>1, SpawnFollows
<1> QED BY <1>1, <1>2

(* Advertiser and adverts r: those of a, under the name. *)
GoesAs(a, name, cfg, r) ==
    /\ AdvertShape(r[1]) /\ r[1].live = a.live /\ r[1].name = name
    /\ r[2] \subseteq {Announced(r[1])} /\ (~a.live => r[2] = {})
    /\ \/ r[1].pid = a.pid /\ r[1].serial = a.serial
       \/ r[1].pid = cfg.pid /\ r[1].serial = cfg.serial

LEMMA RenamedFollows ==
    ASSUME NEW a, AdvertShape(a), NEW ads, ads \subseteq {Announced(a)},
           ~a.live => ads = {}, NEW name, NEW cfg, NEW via,
           NEW r, r = Renamed(a, ads, name, cfg, via)
    PROVE  GoesAs(a, name, cfg, r)
<1> USE DEF GoesAs
<1>1. CASE name = a.name
  <2>1. Renamed(a, ads, name, cfg, via) = <<a, ads>>
    BY <1>1 DEF Renamed
  <2> QED BY <1>1, <2>1
<1>2. CASE name # a.name /\ ~a.live
  <2> DEFINE b == [a EXCEPT !.name = name]
  <2>1. AdvertShape(b) /\ b.live = a.live /\ b.name = name /\ b.pid = a.pid /\ b.serial = a.serial
    BY DEF AdvertShape
  <2>2. Renamed(a, ads, name, cfg, via) = <<b, {}>>
    BY <1>2 DEF Renamed
  <2> HIDE DEF b
  <2> QED BY <1>2, <2>1, <2>2
<1>3. CASE name # a.name /\ a.live
  <2> DEFINE b == [live |-> TRUE, name |-> name, pid |-> cfg.pid, serial |-> cfg.serial, via |-> via]
  <2>1. /\ AdvertShape(b) /\ b.live = TRUE /\ b.name = name
        /\ b.pid = cfg.pid /\ b.serial = cfg.serial
    BY DEF AdvertShape
  <2>2. Renamed(a, ads, name, cfg, via) = <<b, Announcing(Silenced(ads, a), b)>>
    BY <1>3 DEF Renamed
  <2> HIDE DEF b
  <2>3. Announcing(Silenced(ads, a), b) \subseteq {Announced(b)}
    BY SilencedIsEmpty, AnnouncingOne
  <2>4. b.live = a.live
    BY <1>3, <2>1 DEF AdvertShape
  <2> DEFINE left == Announcing(Silenced(ads, a), b)
  <2>5. r[1] = b /\ r[2] = left
    BY <2>2
  <2>6. left \subseteq {Announced(b)}
    BY <2>3
  <2> HIDE DEF left
  <2> QED BY ONLY <1>3, <2>1, <2>4, <2>5, <2>6
<1> QED BY <1>1, <1>2, <1>3

LEMMA PatchedShape ==
    ASSUME NEW cfg, ConfigShape(cfg), NEW model, NEW info
    PROVE  /\ ConfigShape(PatchedConfig(cfg, model, info))
           /\ PatchedConfig(cfg, model, info).serial = cfg.serial
           /\ PatchedConfig(cfg, model, info).pid = model.pid
           /\ PatchedConfig(cfg, model, info).fw = FirmwareFor(model, info)
           /\ PatchedConfig(cfg, model, info).child =
                IF model.physical /\ info # NoUnit THEN Physical(info) ELSE cfg.child
<1> DEFINE fw == FirmwareFor(model, info)
           kid == IF model.physical /\ info # NoUnit THEN Physical(info) ELSE cfg.child
           pid == model.pid
           p == [serial |-> cfg.serial, pid |-> pid, fw |-> fw, child |-> kid]
<1>1. PatchedConfig(cfg, model, info) = p
  <2>1. PatchedConfig(cfg, model, info) = [cfg EXCEPT !.pid = pid, !.fw = fw, !.child = kid]
    BY DEF PatchedConfig
  <2>2. cfg = [serial |-> cfg.serial, pid |-> cfg.pid, fw |-> cfg.fw, child |-> cfg.child]
    BY DEF ConfigShape
  <2>3. [cfg EXCEPT !.pid = pid, !.fw = fw, !.child = kid]
          = [[serial |-> cfg.serial, pid |-> cfg.pid, fw |-> cfg.fw, child |-> cfg.child]
               EXCEPT !.pid = pid, !.fw = fw, !.child = kid]
    BY <2>2
  <2> HIDE DEF fw, kid, pid
  <2> QED BY ONLY <2>1, <2>3
<1>2. /\ ConfigShape(p) /\ p.serial = cfg.serial /\ p.pid = pid
      /\ p.fw = fw /\ p.child = kid
  <2> HIDE DEF fw, kid, pid
  <2> QED BY DEF ConfigShape
<1> QED BY ONLY <1>1, <1>2

(* A model applied to servers that run: the config is patched, the advert and the session are
   told. *)
LEMMA ApplyFollows ==
    ASSUME NEW cfg, ConfigShape(cfg), NEW model, NEW info,
           NEW a, AdvertShape(a), a.live, NEW ads, ads \subseteq {Announced(a)}, NEW via,
           ApplyModelToServers(cfg, model, info, a, ads, via),
           IdentityShaped, SessionFollows
    PROVE  /\ ConfigShape(config)' /\ config' = PatchedConfig(cfg, model, info)
           /\ AdvertShape(advertiser)' /\ advertiser'.live /\ advertiser'.name = a.name
           /\ advertiser'.pid = config'.pid /\ advertiser'.serial = config'.serial
           /\ adverts' \subseteq {Announced(advertiser)'}
           /\ geometry' = [primary |-> geometry'.primary, child |-> geometry'.child]
           /\ session' = [open |-> session'.open, told |-> session'.told,
                          answers |-> session'.answers]
           /\ session'.open \in BOOLEAN
           /\ SessionFollows'
<1> DEFINE patched == PatchedConfig(cfg, model, info)
<1>1. config' = patched /\ RestartMdns(a, ads, patched, via)
  BY DEF ApplyModelToServers
<1>2. geometry' = [primary |-> GeometryOf(model), child |-> GeometryOf(model)]
  BY DEF ApplyModelToServers
<1>3. session' = IF session.open
                 THEN [session EXCEPT !.told = {CapsOf(patched, GeometryOf(model))}, !.answers = {}]
                 ELSE session
  BY DEF ApplyModelToServers, PushChildCapabilities
<1>4. ConfigShape(patched)
  BY PatchedShape
<1> HIDE DEF patched
<1>5. /\ AdvertShape(advertiser)' /\ advertiser'.live /\ advertiser'.name = a.name
      /\ advertiser'.pid = patched.pid /\ advertiser'.serial = patched.serial
      /\ adverts' \subseteq {Announced(advertiser)'}
  BY <1>1, RestartFollows
<1>6. /\ session' = [open |-> session'.open, told |-> session'.told, answers |-> session'.answers]
      /\ session'.open = session.open
  BY <1>3 DEF IdentityShaped
<1>7. SessionFollows'
  <2>1. CASE session.open
    <3>1. /\ session'.told = {CapsOf(patched, GeometryOf(model))} /\ session'.answers = {}
          /\ session'.open
      BY <1>3, <2>1 DEF IdentityShaped
    <3> QED BY <3>1, <1>1, <1>2 DEF SessionFollows
  <2>2. CASE ~session.open
    <3>1. session' = NoSession
      BY <1>3, <2>2 DEF SessionFollows
    <3> QED BY <3>1, <1>2 DEF SessionFollows, NoSession
  <2> QED BY <2>1, <2>2 DEF IdentityShaped
<1> QED BY <1>1, <1>2, <1>4, <1>5, <1>6, <1>7 DEF ConfigShape, IdentityShaped, patched

LEMMA PrimaryListensStep ==
    ASSUME IdentityInv, PrimaryListens
    PROVE  IdentityInv'
<1> USE DEF PrimaryListens
<1>0. IdentityShaped /\ AdvertFollows /\ SessionFollows /\ ConfigFollows
  BY DEF IdentityInv
<1>5. adverts = {} /\ servers = "down" /\ ~advertiser.live
  BY <1>0 DEF AdvertFollows
<1>6. /\ AdvertShape(advertiser)' /\ advertiser'.live /\ advertiser'.name = advertiser.name
      /\ advertiser'.pid = config.pid /\ advertiser'.serial = config.serial
      /\ adverts' \subseteq {Announced(advertiser)'}
  <2>1. PICK via \in Ways : SpawnAdvertiser({}, advertiser.name, config, via)
    BY <1>5
  <2> QED BY <2>1, SpawnFollows
<1>7. /\ servers' = "half"
      /\ UNCHANGED <<kind, dock, config, geometry, dockNames, session>>
  OBVIOUS
<1>1. IdentityShaped'
  BY ONLY <1>0, <1>6, <1>7 DEF IdentityShaped, ConfigShape
<1>2. AdvertFollows'
  BY ONLY <1>0, <1>6, <1>7 DEF AdvertFollows
<1>3. SessionFollows'
  BY <1>0 DEF SessionFollows
<1>4. ConfigFollows'
  BY <1>0 DEF ConfigFollows
<1> QED BY <1>1, <1>2, <1>3, <1>4 DEF IdentityInv

LEMMA ChildListensStep ==
    ASSUME IdentityInv, ChildListens
    PROVE  IdentityInv'
<1> USE DEF ChildListens
<1>0. IdentityShaped /\ AdvertFollows /\ SessionFollows /\ ConfigFollows
  BY DEF IdentityInv
<1>5. UNCHANGED <<kind, dockNames>> /\ servers' = "up" /\ servers = "half"
  OBVIOUS
<1>6. CASE kind # "scanned"
  <2>1. UNCHANGED <<dock, config, geometry, advertiser, adverts, session>>
    BY <1>6
  <2> QED BY ONLY <1>0, <1>5, <1>6, <2>1 DEF IdentityInv, IdentityShaped, ConfigShape, AdvertShape,
        AdvertFollows, SessionFollows, ConfigFollows
<1>7. CASE kind = "scanned"
  <2> DEFINE patched == PatchedConfig(config, dock.model, dock.info)
  <2>1. PICK via \in Ways :
          ApplyModelToServers(config, dock.model, dock.info, advertiser, adverts, via)
    BY <1>7
  <2>2. dock' = [dock EXCEPT !.unit = dock.owner]
    BY <1>7
  <2>3. advertiser.live /\ adverts \subseteq {Announced(advertiser)}
    BY <1>0 DEF AdvertFollows
  <2>4. /\ ConfigShape(config) /\ AdvertShape(advertiser)
    BY <1>0 DEF IdentityShaped
  <2>5. /\ config' = patched /\ ConfigShape(config)'
        /\ AdvertShape(advertiser)' /\ advertiser'.live /\ advertiser'.name = advertiser.name
        /\ advertiser'.pid = config'.pid /\ advertiser'.serial = config'.serial
        /\ adverts' \subseteq {Announced(advertiser)'}
        /\ geometry' = [primary |-> geometry'.primary, child |-> geometry'.child]
        /\ session' = [open |-> session'.open, told |-> session'.told, answers |-> session'.answers]
        /\ session'.open \in BOOLEAN
        /\ SessionFollows'
    BY <1>0, <2>1, <2>3, <2>4, ApplyFollows
  <2>6. /\ patched.serial = config.serial /\ patched.pid = dock.model.pid
        /\ patched.fw = FirmwareFor(dock.model, dock.info)
        /\ patched.child = IF dock.model.physical /\ dock.info # NoUnit THEN Physical(dock.info)
                           ELSE config.child
    BY <2>4, PatchedShape
  <2> HIDE DEF patched
  <2>7. /\ dock'.owner = dock.owner /\ dock'.model = dock.model /\ dock'.info = dock.info
        /\ dock'.unit = dock.owner
        /\ dock' = [owner |-> dock'.owner, model |-> dock'.model, info |-> dock'.info,
                    unit |-> dock'.unit]
    BY <1>0, <2>2 DEF IdentityShaped
  <2>8. IdentityShaped'
    BY ONLY <1>0, <1>5, <2>5, <2>7 DEF IdentityShaped
  <2>9. AdvertFollows'
    BY ONLY <1>0, <1>5, <2>5, <2>7 DEF AdvertFollows
  <2>10. ConfigFollows'
    BY ONLY <1>0, <1>5, <1>7, <2>5, <2>6, <2>7 DEF ConfigFollows
  <2> QED BY <2>5, <2>8, <2>9, <2>10 DEF IdentityInv
<1>1. IdentityShaped'
  BY <1>6, <1>7 DEF IdentityInv
<1>2. AdvertFollows'
  BY <1>6, <1>7 DEF IdentityInv
<1>3. SessionFollows'
  BY <1>6, <1>7 DEF IdentityInv
<1>4. ConfigFollows'
  BY <1>6, <1>7 DEF IdentityInv
<1> QED BY <1>1, <1>2, <1>3, <1>4 DEF IdentityInv

LEMMA ChildBindFailsStep ==
    ASSUME IdentityInv, ChildBindFails
    PROVE  IdentityInv'
<1> USE DEF ChildBindFails, Act, Idle, NoSession
<1>0. IdentityShaped /\ AdvertFollows /\ SessionFollows /\ ConfigFollows
  BY DEF IdentityInv
<1>1. IdentityShaped'
  BY <1>0 DEF IdentityShaped, AdvertShape, ConfigShape
<1>2. AdvertFollows'
  BY <1>0, SilencedIsEmpty DEF AdvertFollows, IdentityShaped, AdvertShape
<1>3. SessionFollows'
  BY <1>0 DEF SessionFollows
<1>4. ConfigFollows'
  BY <1>0 DEF ConfigFollows
<1> QED BY <1>1, <1>2, <1>3, <1>4 DEF IdentityInv

LEMMA StopDockStep ==
    ASSUME IdentityInv, StopDock
    PROVE  IdentityInv'
<1> USE DEF StopDock, Idle, NoSession
<1>0. IdentityShaped /\ AdvertFollows /\ SessionFollows /\ ConfigFollows
  BY DEF IdentityInv
<1>1. IdentityShaped'
  BY <1>0 DEF IdentityShaped, AdvertShape, ConfigShape
<1>2. AdvertFollows'
  BY <1>0, SilencedIsEmpty DEF AdvertFollows, IdentityShaped, AdvertShape
<1>3. SessionFollows'
  BY <1>0 DEF SessionFollows
<1>4. ConfigFollows'
  BY <1>0 DEF ConfigFollows
<1> QED BY <1>1, <1>2, <1>3, <1>4 DEF IdentityInv

LEMMA ProbeFindsStep ==
    ASSUME IdentityInv, NEW u \in IdUnits, ProbeFinds(u)
    PROVE  IdentityInv'
<1> USE DEF ProbeFinds, Act
<1>0. IdentityShaped /\ AdvertFollows /\ SessionFollows /\ ConfigFollows
  BY DEF IdentityInv
<1> DEFINE cfg == [config EXCEPT !.serial = u]
           model == IdModel[u]
           patched == PatchedConfig(cfg, model, u)
<1>5. /\ UNCHANGED <<kind, servers, dockNames>> /\ servers = "up" /\ kind = "primary"
      /\ dock' = [owner |-> u, model |-> model, info |-> u, unit |-> u]
  OBVIOUS
<1>6. PICK named \in Ways, via \in Ways :
        LET r == Renamed(advertiser, adverts, dockNames[u], cfg, named)
        IN  ApplyModelToServers(cfg, model, u, r[1], r[2], via)
  OBVIOUS
<1> DEFINE r == Renamed(advertiser, adverts, dockNames[u], cfg, named)
<1>7. ApplyModelToServers(cfg, model, u, r[1], r[2], via)
  BY <1>6
<1>8. ConfigShape(cfg) /\ cfg.serial = u
  BY <1>0 DEF IdentityShaped, ConfigShape
<1> HIDE DEF cfg, model
<1>9. AdvertShape(r[1]) /\ r[1].live /\ r[1].name = dockNames[u] /\ r[2] \subseteq {Announced(r[1])}
  <2>1. AdvertShape(advertiser) /\ adverts \subseteq {Announced(advertiser)} /\ advertiser.live
    BY ONLY <1>0, <1>5 DEF IdentityShaped, AdvertFollows
  <2>2. r = Renamed(advertiser, adverts, dockNames[u], cfg, named)
    OBVIOUS
  <2> HIDE DEF r
  <2>3. ~advertiser.live => adverts = {}
    BY <2>1
  <2>4. GoesAs(advertiser, dockNames[u], cfg, r)
    BY ONLY <2>1, <2>2, <2>3, RenamedFollows, Zenon
  <2> QED BY ONLY <2>1, <2>4 DEF GoesAs
<1> HIDE DEF r
<1>10. /\ config' = patched /\ ConfigShape(config)'
       /\ AdvertShape(advertiser)' /\ advertiser'.live /\ advertiser'.name = dockNames[u]
       /\ advertiser'.pid = config'.pid /\ advertiser'.serial = config'.serial
       /\ adverts' \subseteq {Announced(advertiser)'}
       /\ geometry' = [primary |-> geometry'.primary, child |-> geometry'.child]
       /\ session' = [open |-> session'.open, told |-> session'.told, answers |-> session'.answers]
       /\ session'.open \in BOOLEAN
       /\ SessionFollows'
  BY ONLY <1>0, <1>7, <1>8, <1>9, ApplyFollows
<1>11. patched.serial = u /\ patched.pid = model.pid /\ patched.fw = FirmwareFor(model, u)
       /\ patched.child = IF model.physical /\ u # NoUnit THEN Physical(u) ELSE cfg.child
  BY ONLY <1>8, PatchedShape
<1> HIDE DEF patched
<1>12. u # NoUnit /\ u \in IdUnits
  BY IdentityAssumption
<1>1. IdentityShaped'
  BY ONLY <1>0, <1>5, <1>10, <1>12 DEF IdentityShaped
<1>2. AdvertFollows'
  BY ONLY <1>0, <1>5, <1>10, <1>12 DEF AdvertFollows
<1>3. SessionFollows'
  BY <1>10
<1>4. ConfigFollows'
  <2>1. /\ dock'.owner = u /\ dock'.model = model /\ dock'.info = u /\ dock'.unit = u
        /\ servers' = "up" /\ kind' = "primary"
    BY ONLY <1>5
  <2>2. /\ config'.serial = u /\ config'.pid = model.pid /\ config'.fw = FirmwareFor(model, u)
        /\ model.physical => config'.child = Physical(u)
    BY ONLY <1>10, <1>11, <1>12
  <2> QED BY ONLY <1>12, <2>1, <2>2 DEF ConfigFollows
<1> QED BY <1>1, <1>2, <1>3, <1>4 DEF IdentityInv

LEMMA RenameStep ==
    ASSUME IdentityInv, NEW u \in IdUnits, NEW n \in DockNames, Rename(u, n)
    PROVE  IdentityInv'
<1> USE DEF Rename, Act
<1>0. IdentityShaped /\ AdvertFollows /\ SessionFollows /\ ConfigFollows
  BY DEF IdentityInv
<1>5. UNCHANGED <<kind, servers, dock, config, geometry, session>>
      /\ dockNames' = [dockNames EXCEPT ![u] = n]
  OBVIOUS
<1>6. /\ AdvertShape(advertiser) /\ adverts \subseteq {Announced(advertiser)}
      /\ ~advertiser.live => adverts = {}
  BY ONLY <1>0 DEF IdentityShaped, AdvertFollows
<1>7. /\ AdvertShape(advertiser)' /\ advertiser'.live = advertiser.live
      /\ advertiser'.name = (IF dock.owner = u THEN n ELSE advertiser.name)
      /\ adverts' \subseteq {Announced(advertiser)'} /\ (~advertiser'.live => adverts' = {})
      /\ \/ advertiser'.pid = advertiser.pid /\ advertiser'.serial = advertiser.serial
         \/ advertiser'.pid = config.pid /\ advertiser'.serial = config.serial
  <2>1. CASE dock.owner # u
    <3>1. advertiser' = advertiser /\ adverts' = adverts
      BY <2>1
    <3>2. Announced(advertiser)' = Announced(advertiser) /\ AdvertShape(advertiser)'
      BY <1>6, <3>1 DEF Announced, AdvertShape
    <3> QED BY ONLY <1>6, <2>1, <3>1, <3>2
  <2>2. CASE dock.owner = u
    <3>1. PICK via \in Ways : LET r == Renamed(advertiser, adverts, n, config, via)
                              IN  advertiser' = r[1] /\ adverts' = r[2]
      BY <2>2
    <3> DEFINE r == Renamed(advertiser, adverts, n, config, via)
    <3>2. advertiser' = r[1] /\ adverts' = r[2]
      BY <3>1
    <3>5. r = Renamed(advertiser, adverts, n, config, via)
      OBVIOUS
    <3> HIDE DEF r
    <3>3. /\ AdvertShape(r[1]) /\ r[1].live = advertiser.live /\ r[1].name = n
          /\ r[2] \subseteq {Announced(r[1])} /\ (~advertiser.live => r[2] = {})
          /\ \/ r[1].pid = advertiser.pid /\ r[1].serial = advertiser.serial
             \/ r[1].pid = config.pid /\ r[1].serial = config.serial
      <4>1. GoesAs(advertiser, n, config, r)
        BY ONLY <1>6, <3>5, RenamedFollows, Zenon
      <4> QED BY ONLY <4>1 DEF GoesAs
    <3>4. Announced(advertiser)' = Announced(r[1]) /\ AdvertShape(advertiser)'
      BY ONLY <3>2, <3>3 DEF Announced, AdvertShape
    <3> QED BY ONLY <2>2, <3>2, <3>3, <3>4
  <2> QED BY <2>1, <2>2
<1>1. IdentityShaped'
  BY ONLY <1>0, <1>5, <1>7, u \in IdUnits, n \in DockNames DEF IdentityShaped, ConfigShape
<1>2. AdvertFollows'
  <2>1. u # NoUnit /\ dockNames'[u] = n /\ \A x \in IdUnits : x # u => dockNames'[x] = dockNames[x]
    BY ONLY <1>0, <1>5, u \in IdUnits, IdentityAssumption DEF IdentityShaped
  <2>2. dock.owner \in IdUnits \cup {NoUnit}
    BY <1>0 DEF IdentityShaped
  <2> QED BY ONLY <1>0, <1>5, <1>7, <2>1, <2>2 DEF AdvertFollows
<1>3. SessionFollows'
  BY <1>0 DEF SessionFollows
<1>4. ConfigFollows'
  BY <1>0 DEF ConfigFollows
<1> QED BY <1>1, <1>2, <1>3, <1>4 DEF IdentityInv

LEMMA UnitLeavesStep ==
    ASSUME IdentityInv, UnitLeaves
    PROVE  IdentityInv'
<1> USE DEF UnitLeaves, Act
<1>0. IdentityShaped /\ AdvertFollows /\ SessionFollows /\ ConfigFollows
  BY DEF IdentityInv
<1> DEFINE patched == PatchedConfig(config, DefaultModel, NoUnit)
<1>5. /\ UNCHANGED <<kind, servers, dockNames>> /\ kind = "primary" /\ dock.unit # NoUnit
      /\ dock' = [dock EXCEPT !.model = DefaultModel, !.info = NoUnit, !.unit = NoUnit]
  OBVIOUS
<1>6. PICK via \in Ways :
        ApplyModelToServers(config, DefaultModel, NoUnit, advertiser, adverts, via)
  OBVIOUS
<1>7. /\ AdvertShape(advertiser) /\ adverts \subseteq {Announced(advertiser)} /\ advertiser.live
      /\ ConfigShape(config)
  BY ONLY <1>0, <1>5 DEF IdentityShaped, AdvertFollows, ConfigFollows
<1>8. /\ config' = patched /\ ConfigShape(config)'
      /\ AdvertShape(advertiser)' /\ advertiser'.live /\ advertiser'.name = advertiser.name
      /\ advertiser'.pid = config'.pid /\ advertiser'.serial = config'.serial
      /\ adverts' \subseteq {Announced(advertiser)'}
      /\ geometry' = [primary |-> geometry'.primary, child |-> geometry'.child]
      /\ session' = [open |-> session'.open, told |-> session'.told, answers |-> session'.answers]
      /\ session'.open \in BOOLEAN
      /\ SessionFollows'
  BY ONLY <1>0, <1>6, <1>7, ApplyFollows
<1>9. patched.serial = config.serial
  BY ONLY <1>7, PatchedShape
<1> HIDE DEF patched
<1>10. /\ dock'.owner = dock.owner /\ dock'.unit = NoUnit
       /\ dock' = [owner |-> dock'.owner, model |-> dock'.model, info |-> dock'.info,
                   unit |-> dock'.unit]
  BY ONLY <1>0, <1>5 DEF IdentityShaped
<1>1. IdentityShaped'
  BY ONLY <1>0, <1>5, <1>8, <1>10 DEF IdentityShaped
<1>2. AdvertFollows'
  BY ONLY <1>0, <1>5, <1>7, <1>8, <1>10 DEF AdvertFollows
<1>3. SessionFollows'
  BY <1>8
<1>4. ConfigFollows'
  BY ONLY <1>0, <1>5, <1>8, <1>9, <1>10 DEF ConfigFollows
<1> QED BY <1>1, <1>2, <1>3, <1>4 DEF IdentityInv

LEMMA AdvertProcessDiesStep ==
    ASSUME IdentityInv, AdvertProcessDies
    PROVE  IdentityInv'
<1> USE DEF AdvertProcessDies, Act
<1>0. IdentityShaped /\ AdvertFollows /\ SessionFollows /\ ConfigFollows
  BY DEF IdentityInv
<1>1. IdentityShaped'
  BY <1>0 DEF IdentityShaped
<1>2. AdvertFollows'
  BY <1>0 DEF AdvertFollows
<1>3. SessionFollows'
  BY <1>0 DEF SessionFollows
<1>4. ConfigFollows'
  BY <1>0 DEF ConfigFollows
<1> QED BY <1>1, <1>2, <1>3, <1>4 DEF IdentityInv

LEMMA AppConnectsStep ==
    ASSUME IdentityInv, AppConnects
    PROVE  IdentityInv'
<1> USE DEF AppConnects, Act, NoSession
<1>0. IdentityShaped /\ AdvertFollows /\ SessionFollows /\ ConfigFollows
  BY DEF IdentityInv
<1>1. IdentityShaped'
  BY <1>0 DEF IdentityShaped
<1>2. AdvertFollows'
  BY <1>0 DEF AdvertFollows
<1>3. SessionFollows'
  BY <1>0 DEF SessionFollows
<1>4. ConfigFollows'
  BY <1>0 DEF ConfigFollows
<1> QED BY <1>1, <1>2, <1>3, <1>4 DEF IdentityInv

LEMMA AppDisconnectsStep ==
    ASSUME IdentityInv, AppDisconnects
    PROVE  IdentityInv'
<1> USE DEF AppDisconnects, Act, NoSession
<1>0. IdentityShaped /\ AdvertFollows /\ SessionFollows /\ ConfigFollows
  BY DEF IdentityInv
<1>1. IdentityShaped'
  BY <1>0 DEF IdentityShaped
<1>2. AdvertFollows'
  BY <1>0 DEF AdvertFollows
<1>3. SessionFollows'
  BY <1>0 DEF SessionFollows
<1>4. ConfigFollows'
  BY <1>0 DEF ConfigFollows
<1> QED BY <1>1, <1>2, <1>3, <1>4 DEF IdentityInv

LEMMA GetCapabilitiesStep ==
    ASSUME IdentityInv, GetCapabilities
    PROVE  IdentityInv'
<1> USE DEF GetCapabilities, Act
<1>0. IdentityShaped /\ AdvertFollows /\ SessionFollows /\ ConfigFollows
  BY DEF IdentityInv
<1>1. IdentityShaped'
  BY <1>0 DEF IdentityShaped
<1>2. AdvertFollows'
  BY <1>0 DEF AdvertFollows
<1>3. SessionFollows'
  BY <1>0 DEF SessionFollows
<1>4. ConfigFollows'
  BY <1>0 DEF ConfigFollows
<1> QED BY <1>1, <1>2, <1>3, <1>4 DEF IdentityInv

LEMMA GetReportStep ==
    ASSUME IdentityInv, NEW f \in PrimaryReports \cup ChildReports, GetReport(f)
    PROVE  IdentityInv'
<1> USE DEF GetReport, Act
<1>0. IdentityShaped /\ AdvertFollows /\ SessionFollows /\ ConfigFollows
  BY DEF IdentityInv
<1>1. IdentityShaped'
  BY <1>0 DEF IdentityShaped
<1>2. AdvertFollows'
  BY <1>0 DEF AdvertFollows
<1>3. SessionFollows'
  BY <1>0 DEF SessionFollows
<1>4. ConfigFollows'
  BY <1>0 DEF ConfigFollows
<1> QED BY <1>1, <1>2, <1>3, <1>4 DEF IdentityInv

LEMMA IdentityInitHolds == IdInit => IdentityInv
<1> SUFFICES ASSUME IdInit PROVE IdentityInv
  OBVIOUS
<1>1. PICK u \in IdUnits :
        dock = IF kind = "primary"
               THEN [owner |-> NoUnit, model |-> DefaultModel, info |-> NoUnit, unit |-> NoUnit]
               ELSE [owner |-> u, model |-> IdModel[u], info |-> u, unit |-> NoUnit]
  BY DEF IdInit
<1>2. u # NoUnit /\ DefaultName \in DockNames
  BY IdentityAssumption
<1>3. /\ config.serial = dock.owner /\ ConfigShape(config)
      /\ config.child = IF kind = "primary" THEN NoUnit ELSE Generated(dock.owner)
  BY DEF IdInit, ConfigShape
<1>4. dock.unit = NoUnit /\ dock.owner \in IdUnits \cup {NoUnit} /\ dock.info = dock.owner
  BY <1>1
<1>5. IdentityShaped
  <2>1. dock = [owner |-> dock.owner, model |-> dock.model, info |-> dock.info, unit |-> dock.unit]
    BY <1>1
  <2>2. AdvertShape(advertiser)
    BY DEF IdInit, Idle, AdvertShape
  <2>3. /\ session = [open |-> session.open, told |-> session.told, answers |-> session.answers]
        /\ session.open \in BOOLEAN
    BY DEF IdInit, NoSession
  <2>4. dockNames \in [IdUnits -> DockNames]
    BY <1>2 DEF IdInit
  <2>5. geometry = [primary |-> geometry.primary, child |-> geometry.child]
    BY DEF IdInit
  <2>6. kind \in {"primary", "scanned"} /\ servers = "down"
    BY DEF IdInit
  <2> QED BY <1>3, <1>4, <2>1, <2>2, <2>3, <2>4, <2>5, <2>6 DEF IdentityShaped
<1>6. AdvertFollows
  BY <1>4 DEF IdInit, Idle, AdvertFollows
<1>7. SessionFollows
  BY DEF IdInit, NoSession, SessionFollows
<1>8. ConfigFollows
  <2>1. kind = "scanned" => dock.owner # NoUnit
    BY <1>1, <1>2
  <2>2. kind \in {"primary", "scanned"} /\ servers = "down"
    BY DEF IdInit
  <2> QED BY ONLY <1>3, <1>4, <2>1, <2>2 DEF ConfigFollows
<1> QED BY <1>5, <1>6, <1>7, <1>8 DEF IdentityInv

(* Who a dock says it is on the network, to the app on either port and in the web UI: whatever
   order of start, failed bind, probe, unplug, rename and connection (main/dock.ts,
   primary-server.ts, mdns-advertiser.ts), for every set of units, models and names. *)
THEOREM IdentityStaysTold == IdSpec => []IdentityIsTold
<1>1. IdInit => IdentityInv
  BY IdentityInitHolds
<1>2. IdentityInv /\ [IdNext]_idVars => IdentityInv'
  <2> SUFFICES ASSUME IdentityInv, [IdNext]_idVars PROVE IdentityInv'
    OBVIOUS
  <2>1. CASE UNCHANGED idVars
    BY <2>1 DEF idVars, IdentityInv, IdentityShaped, ConfigShape, AdvertShape, AdvertFollows,
                Announced, SessionFollows, ConfigFollows
  <2>2. CASE PrimaryListens \/ ChildListens \/ ChildBindFails \/ StopDock
    BY <2>2, PrimaryListensStep, ChildListensStep, ChildBindFailsStep, StopDockStep
  <2>3. CASE \E u \in IdUnits : ProbeFinds(u) \/ \E n \in DockNames : Rename(u, n)
    BY <2>3, ProbeFindsStep, RenameStep
  <2>4. CASE UnitLeaves \/ AdvertProcessDies
    BY <2>4, UnitLeavesStep, AdvertProcessDiesStep
  <2>5. CASE AppConnects \/ AppDisconnects \/ GetCapabilities
    BY <2>5, AppConnectsStep, AppDisconnectsStep, GetCapabilitiesStep
  <2>6. CASE \E f \in PrimaryReports \cup ChildReports : GetReport(f)
    BY <2>6, GetReportStep
  <2> QED BY <2>1, <2>2, <2>3, <2>4, <2>5, <2>6 DEF IdNext
<1>3. IdentityInv => IdentityIsTold
  <2> SUFFICES ASSUME IdentityInv PROVE IdentityIsTold
    OBVIOUS
  <2>1. AdvertIsCurrent
    <3>1. Cardinality(adverts) <= 1
      <4>1. IsFiniteSet({Announced(advertiser)}) /\ Cardinality({Announced(advertiser)}) = 1
        BY FS_Singleton
      <4>2. Cardinality(adverts) <= Cardinality({Announced(advertiser)})
        BY <4>1, FS_Subset DEF IdentityInv, AdvertFollows
      <4> QED BY <4>1, <4>2
    <3>2. \A x \in adverts : x = Announced(advertiser) /\ advertiser.live
      BY DEF IdentityInv, AdvertFollows, IdentityShaped, AdvertShape
    <3>3. servers \in {"down", "stopped"} => adverts = {}
      BY DEF IdentityInv, AdvertFollows
    <3> QED BY <3>1, <3>2, <3>3 DEF IdentityInv, AdvertFollows, Announced, AdvertIsCurrent
  <2>2. CapsAreCurrent
    BY DEF IdentityInv, SessionFollows, CapsAreCurrent
  <2>3. StatusIsTrue
    <3>1. SUFFICES ASSUME dock.unit # NoUnit
                   PROVE  /\ \A f \in {"pid", "fw", "serial"} : config[f] = StatusOf[f]
                          /\ kind = "scanned" \/ dock.model.physical => config.child = StatusOf.child
      BY DEF StatusIsTrue
    <3>2. /\ StatusOf.pid = dock.model.pid /\ StatusOf.serial = dock.owner
          /\ StatusOf.fw = FirmwareFor(dock.model, dock.info)
          /\ StatusOf.child = IF dock.model.physical /\ dock.info # NoUnit
                              THEN Physical(dock.info) ELSE Generated(dock.owner)
      BY DEF StatusOf
    <3>3. dock.info # NoUnit
      BY <3>1 DEF IdentityInv, ConfigFollows
    <3>4. config.pid = StatusOf.pid /\ config.fw = StatusOf.fw /\ config.serial = StatusOf.serial
      BY <3>1, <3>2 DEF IdentityInv, ConfigFollows
    <3>5. kind = "scanned" \/ dock.model.physical => config.child = StatusOf.child
      BY <3>1, <3>2, <3>3 DEF IdentityInv, ConfigFollows
    <3> QED BY <3>4, <3>5
  <2> QED BY <2>1, <2>2, <2>3 DEF IdentityIsTold
<1> QED BY <1>1, <1>2, <1>3, PTL DEF IdSpec

(***************************************************************************)
(* Part 4. StripZones, for every finite set of zones and side keys. What    *)
(* the messages still posted to the worker will make of the device is what  *)
(* the scheduler's object records of it; a handler extends both alike.      *)
(***************************************************************************)

(* What the worker makes of a message: its canvas and the panel. *)
PutOnPanel(e, zs) == [i \in Ids |-> IF i \in zs THEN e.rgb[i] ELSE e.panel[i]]

FrameUploaded(e, m) ==
  LET c == [e EXCEPT !.rgb = [z \in Zones |-> IF z \in m.ids THEN m.pic ELSE @[z]]]
      full == (c.always \/ m.ids = Zones) /\ StripSurface /\ c.mask = {}
  IN  [c EXCEPT !.panel = PutOnPanel(c, IF full THEN Zones ELSE m.ids \ c.mask)]

Worked(e, m) ==
  IF m.t = "frame" THEN (IF m.ok THEN FrameUploaded(e, m) ELSE e)
  ELSE IF m.t = "mask" THEN [e EXCEPT !.mask = m.ids, !.panel = PutOnPanel(e, e.mask \ m.ids)]
  ELSE IF m.t = "restore" THEN [e EXCEPT !.panel = PutOnPanel(e, m.ids)]
  ELSE IF m.t = "options" THEN [e EXCEPT !.always = m.always]
  ELSE [e EXCEPT !.panel = [i \in Ids |-> IF i \notin m.ids THEN e.panel[i]
                                          ELSE IF m.t = "clear" THEN Black ELSE m.pic]]

Device == [rgb |-> canvas.rgb, mask |-> canvas.mask, always |-> canvas.always, panel |-> panel]

TextPic(v) == IF v = 0 THEN Black ELSE <<"widget", v>>

(* The strip as it will be when everything posted is done; U are the zones drawn on unrecorded. *)
Shows(x, d, e, U) ==
  /\ e.mask = StripMask(x) /\ x.lastMask = StripMask(x) /\ e.always = x.always
  /\ \A z \in Zones : e.rgb[z] = d[z]
  /\ x.flashes = 0 => \A i \in WidgetIds(x) : x.lastPainted[i] # NeverPainted =>
                        e.panel[i] = TextPic(x.lastPainted[i])
  /\ x.mode = "elgato" => \A z \in Zones \ U : e.panel[z] = d[z]
  /\ x.mode = "deckbridge-repaint" => \A z \in Zones \ (U \cup x.widgetOnZone) : e.panel[z] = d[z]

Keeps(x) ==
  /\ \A z \in Zones : x.hold[z] = "on" => z \notin x.widgetOnZone
  /\ x.mode # "deckbridge-repaint" => x.widgetOnZone = {}
  /\ x.active /\ ~x.timer => x.mode = "elgato" /\ SideKeys = {}
  /\ x.timer => x.active

(* A dock's strip, the widgets' scheduler: what has which type. *)
IsWidgets(x) ==
  /\ x = [active |-> x.active, timer |-> x.timer, mode |-> x.mode, conf |-> x.conf,
          always |-> x.always, lastMask |-> x.lastMask, lastPainted |-> x.lastPainted,
          hold |-> x.hold, widgetOnZone |-> x.widgetOnZone, refreshing |-> x.refreshing,
          shown |-> x.shown, flashes |-> x.flashes]
  /\ x.active \in BOOLEAN /\ x.timer \in BOOLEAN /\ x.always \in BOOLEAN /\ x.mode \in Modes
  /\ x.conf \in [Ids -> [widget : Widgets, value : Nat]] /\ x.lastPainted \in [Ids -> Int]
  /\ x.shown \in [Ids -> Int] /\ x.hold \in [Zones -> {"none", "on", "over"}]
  /\ x.widgetOnZone \subseteq Zones /\ x.refreshing \subseteq Ids /\ x.flashes \in Nat

Pictures == {Black} \cup ({"app", "widget", "flash"} \X Int)
Messages ==
  [t : {"mask", "clear", "restore"}, ids : SUBSET Ids]
    \cup [t : {"paint"}, ids : SUBSET Ids, pic : Pictures]
    \cup [t : {"frame"}, ids : SUBSET Zones, pic : Pictures, ok : BOOLEAN]
    \cup [t : {"options"}, ids : SUBSET Ids, always : BOOLEAN]

IsDevice(e) ==
  /\ e = [rgb |-> e.rgb, mask |-> e.mask, always |-> e.always, panel |-> e.panel]
  /\ e.rgb = [z \in Zones |-> e.rgb[z]] /\ e.panel = [i \in Ids |-> e.panel[i]]

(* Messages q take the device from e to f. *)
Leads(e, q, f) ==
  \E run : run[0] = e /\ run[Len(q)] = f /\ \A n \in 1 .. Len(q) : run[n] = Worked(run[n - 1], q[n])

Off(x, q) == IF x.mode = "deckbridge-repaint" THEN ClearedZones(q) ELSE {}

(* The object x and a device e that is going to show what it records. *)
Agree(x, d, e, U) ==
  /\ IsWidgets(x) /\ IsDevice(e) /\ Shows(x, d, e, U) /\ U \subseteq Zones
  /\ \A z \in Zones : x.hold[z] = "on" => z \notin x.widgetOnZone
  /\ x.mode # "deckbridge-repaint" => x.widgetOnZone = {}

SameWidgets(x, y) == x.active = y.active /\ x.mode = y.mode /\ (x.timer => y.timer)

Result(x, d, e, U, r) ==
  /\ SameWidgets(x, r[1]) /\ r[2] \in Seq(Messages)
  /\ \E f : Leads(e, r[2], f) /\ Agree(r[1], d, f, U \cup Off(x, r[2]))

(* A device e that a repaint of the object x will make show what x then records. *)
Ready(x, d, e, U) ==
  /\ IsWidgets(x) /\ IsDevice(e) /\ U \subseteq Zones
  /\ x.lastMask \in {{}, Zones} /\ e.mask = x.lastMask /\ e.always = x.always
  /\ \A z \in Zones : e.rgb[z] = d[z]
  /\ \A z \in Zones : x.hold[z] = "on" => z \notin x.widgetOnZone
  /\ x.mode # "deckbridge-repaint" => x.widgetOnZone = {}
  /\ (x.mode = "elgato" /\ x.lastMask = {}) => \A z \in Zones \ U : e.panel[z] = d[z]
  /\ (x.mode = "deckbridge-repaint" /\ x.lastMask = {}) =>
       \A z \in Zones \ (U \cup x.widgetOnZone) : e.panel[z] = d[z]

(* No messages lead nowhere; one leads where the worker goes with it; runs of them compose, and
   the first of a run can be taken off. *)
LEMMA LeadsNowhere ==
  ASSUME NEW e
  PROVE  Leads(e, << >>, e)
<1> DEFINE run == [n \in {0} |-> e]
<1>1. run[0] = e /\ Len(<< >>) = 0
  OBVIOUS
<1> HIDE DEF run
<1> QED BY <1>1 DEF Leads

LEMMA LeadsOnce ==
  ASSUME NEW e, NEW m
  PROVE  Leads(e, <<m>>, Worked(e, m))
<1> DEFINE run == [n \in {0, 1} |-> IF n = 0 THEN e ELSE Worked(e, m)]
<1>1. run[0] = e /\ run[1] = Worked(e, m) /\ Len(<<m>>) = 1 /\ <<m>>[1] = m
  OBVIOUS
<1>2. \A n \in 1 .. 1 : n = 1 /\ n - 1 = 0
  OBVIOUS
<1> HIDE DEF run
<1> QED BY <1>1, <1>2 DEF Leads

LEMMA LeadsOn ==
  ASSUME NEW S, NEW p \in Seq(S), NEW q \in Seq(S), NEW e, NEW f, NEW g,
         Leads(e, p, f), Leads(f, q, g)
  PROVE  Leads(e, p \o q, g)
<1>1. PICK r1 : /\ r1[0] = e /\ r1[Len(p)] = f
                /\ \A n \in 1 .. Len(p) : r1[n] = Worked(r1[n - 1], p[n])
  BY DEF Leads
<1>2. PICK r2 : /\ r2[0] = f /\ r2[Len(q)] = g
                /\ \A n \in 1 .. Len(q) : r2[n] = Worked(r2[n - 1], q[n])
  BY DEF Leads
<1>3. Len(p) \in Nat /\ Len(q) \in Nat /\ Len(p \o q) = Len(p) + Len(q)
  OBVIOUS
<1> DEFINE run == [n \in Nat |-> IF n <= Len(p) THEN r1[n] ELSE r2[n - Len(p)]]
<1>4. run[0] = e /\ run[Len(p)] = f
  BY <1>1, <1>3
<1>5. run[Len(p \o q)] = g
  <2>1. CASE Len(q) = 0
    BY <1>1, <1>2, <1>3, <2>1
  <2>2. CASE Len(q) # 0
    BY <1>2, <1>3, <2>2
  <2> QED BY <2>1, <2>2
<1>6. ASSUME NEW n \in 1 .. Len(p \o q)
      PROVE  run[n] = Worked(run[n - 1], (p \o q)[n])
  <2>1. CASE n <= Len(p)
    <3>1. n \in 1 .. Len(p) /\ n - 1 \in Nat /\ n - 1 <= Len(p) /\ (p \o q)[n] = p[n]
      BY <1>3, <2>1
    <3>2. run[n] = r1[n] /\ run[n - 1] = r1[n - 1]
      BY <1>3, <3>1
    <3> HIDE DEF run
    <3> QED BY <1>1, <3>1, <3>2
  <2>2. CASE n > Len(p)
    <3>1. PICK k \in 1 .. Len(q) : n = Len(p) + k /\ (p \o q)[n] = q[k]
      BY <1>3, <2>2
    <3>2. run[n] = r2[k]
      BY <1>3, <3>1
    <3>3. run[n - 1] = r2[k - 1]
      <4>1. CASE k = 1
        BY <1>1, <1>2, <1>3, <3>1, <4>1
      <4>2. CASE k # 1
        BY <1>3, <3>1, <4>2
      <4> QED BY <4>1, <4>2
    <3> HIDE DEF run
    <3> QED BY <1>2, <3>1, <3>2, <3>3
  <2> QED BY <1>3, <2>1, <2>2
<1> HIDE DEF run
<1> QED BY <1>4, <1>5, <1>6 DEF Leads

LEMMA LeadsTail ==
  ASSUME NEW S, NEW q \in Seq(S), q # << >>, NEW e, NEW f, Leads(e, q, f)
  PROVE  Leads(Worked(e, Head(q)), Tail(q), f)
<1>1. PICK r : /\ r[0] = e /\ r[Len(q)] = f
               /\ \A n \in 1 .. Len(q) : r[n] = Worked(r[n - 1], q[n])
  BY DEF Leads
<1>2. Len(q) \in Nat \ {0} /\ Len(Tail(q)) = Len(q) - 1 /\ Head(q) = q[1]
  OBVIOUS
<1>3. \A n \in 1 .. Len(Tail(q)) : Tail(q)[n] = q[n + 1] /\ n + 1 \in 1 .. Len(q)
  BY <1>2
<1> DEFINE run == [n \in Nat |-> r[n + 1]]
<1>4. run[0] = Worked(e, Head(q))
  <2>1. 1 \in 1 .. Len(q) /\ run[0] = r[1] /\ r[1 - 1] = e
    BY <1>1, <1>2
  <2> QED BY <1>1, <1>2, <2>1
<1>5. run[Len(Tail(q))] = f
  BY <1>1, <1>2
<1>6. ASSUME NEW n \in 1 .. Len(Tail(q))
      PROVE  run[n] = Worked(run[n - 1], Tail(q)[n])
  <2>1. run[n] = r[n + 1] /\ run[n - 1] = r[n] /\ n + 1 \in 1 .. Len(q) /\ (n + 1) - 1 = n
    BY <1>2, <1>3
  <2> HIDE DEF run
  <2> QED BY <1>1, <1>3, <2>1
<1> HIDE DEF run
<1> QED BY <1>4, <1>5, <1>6 DEF Leads

(* A burst of messages, each of which sets what one id shows. *)
Burst(e, D, v, q) ==
  /\ \A n \in 1 .. Len(q) : \E i \in D :
       /\ q[n].ids = {i}
       /\ \A f : (IsDevice(f) /\ f.rgb = e.rgb) =>
            Worked(f, q[n]) = [f EXCEPT !.panel = [j \in Ids |-> IF j = i THEN v[j] ELSE f.panel[j]]]
  /\ \A i \in D : \E n \in 1 .. Len(q) : q[n].ids = {i}

(* A burst over the ids D leaves each of them showing its picture, and touches nothing else. *)
LEMMA BurstLeads ==
  ASSUME NEW e, IsDevice(e), NEW D, NEW v, NEW q \in Seq(Messages),
         Burst(e, D, v, q)
  PROVE  Leads(e, q, [e EXCEPT !.panel = [i \in Ids |-> IF i \in D THEN v[i] ELSE e.panel[i]]])
<1> DEFINE at(n) == [i \in Ids |-> IF \E k \in 1 .. n : q[k].ids = {i} THEN v[i] ELSE e.panel[i]]
           run == [n \in 0 .. Len(q) |-> [e EXCEPT !.panel = at(n)]]
<1>1. Len(q) \in Nat
  OBVIOUS
<1>2. \A n \in 0 .. Len(q) : run[n] = [rgb |-> e.rgb, mask |-> e.mask, always |-> e.always, panel |-> at(n)]
  <2>1. e = [rgb |-> e.rgb, mask |-> e.mask, always |-> e.always, panel |-> e.panel]
    BY DEF IsDevice
  <2> HIDE DEF at
  <2> QED BY <2>1
<1>3. run[0] = e
  <2>1. at(0) = e.panel
    BY DEF IsDevice
  <2>2. e = [rgb |-> e.rgb, mask |-> e.mask, always |-> e.always, panel |-> e.panel]
    BY DEF IsDevice
  <2>3. 0 \in 0 .. Len(q)
    BY <1>1
  <2> HIDE DEF at, run
  <2> QED BY <1>2, <2>1, <2>2, <2>3
<1>4. run[Len(q)] = [e EXCEPT !.panel = [i \in Ids |-> IF i \in D THEN v[i] ELSE e.panel[i]]]
  <2>1. \A i \in Ids : (\E k \in 1 .. Len(q) : q[k].ids = {i}) <=> i \in D
    BY DEF Burst
  <2>2. at(Len(q)) = [i \in Ids |-> IF i \in D THEN v[i] ELSE e.panel[i]]
    BY <2>1
  <2>3. Len(q) \in 0 .. Len(q)
    BY <1>1
  <2>4. run[Len(q)] = [e EXCEPT !.panel = at(Len(q))]
    BY <2>3
  <2> HIDE DEF at, run
  <2> QED BY <2>2, <2>4
<1>5. ASSUME NEW n \in 1 .. Len(q)
      PROVE  run[n] = Worked(run[n - 1], q[n])
  <2>1. PICK i \in D : /\ q[n].ids = {i}
                       /\ \A f : (IsDevice(f) /\ f.rgb = e.rgb) =>
                            Worked(f, q[n]) =
                              [f EXCEPT !.panel = [j \in Ids |-> IF j = i THEN v[j] ELSE f.panel[j]]]
    BY DEF Burst
  <2>2. n \in 0 .. Len(q) /\ n - 1 \in 0 .. Len(q)
    BY <1>1
  <2>3. at(n - 1) = [j \in Ids |-> at(n - 1)[j]]
    OBVIOUS
  <2>4. at(n) = [j \in Ids |-> IF j = i THEN v[j] ELSE at(n - 1)[j]]
    <3>1. \A j \in Ids : (\E k \in 1 .. n : q[k].ids = {j}) <=>
                           (j = i \/ \E k \in 1 .. n - 1 : q[k].ids = {j})
      <4>1. \A k \in 1 .. n : k = n \/ k \in 1 .. n - 1
        BY <1>1
      <4>2. \A k \in 1 .. n - 1 : k \in 1 .. n
        BY <1>1
      <4>3. n \in 1 .. n
        BY <1>1
      <4> SUFFICES ASSUME NEW j \in Ids
                   PROVE  (\E k \in 1 .. n : q[k].ids = {j}) <=>
                            (j = i \/ \E k \in 1 .. n - 1 : q[k].ids = {j})
        OBVIOUS
      <4>4. ASSUME NEW k \in 1 .. n, q[k].ids = {j}
            PROVE  j = i \/ \E l \in 1 .. n - 1 : q[l].ids = {j}
        <5>1. CASE k = n
          <6>1. {j} = {i}
            BY <2>1, <4>4, <5>1
          <6> QED BY <6>1
        <5> QED BY <4>1, <4>4, <5>1
      <4> QED BY <2>1, <4>2, <4>3, <4>4
    <3> QED BY <3>1
  <2> HIDE DEF at
  <2>5. /\ run[n] = [rgb |-> e.rgb, mask |-> e.mask, always |-> e.always, panel |-> at(n)]
        /\ run[n - 1] = [rgb |-> e.rgb, mask |-> e.mask, always |-> e.always, panel |-> at(n - 1)]
    BY <1>2, <2>2
  <2> HIDE DEF run
  <2>6. IsDevice(run[n - 1]) /\ run[n - 1].rgb = e.rgb
    BY <2>3, <2>5 DEF IsDevice
  <2>7. Worked(run[n - 1], q[n]) =
          [run[n - 1] EXCEPT !.panel = [j \in Ids |-> IF j = i THEN v[j] ELSE run[n - 1].panel[j]]]
    BY <2>1, <2>6
  <2>8. run[n - 1].panel = at(n - 1)
    BY <2>5
  <2> QED BY <2>4, <2>5, <2>7, <2>8
<1> HIDE DEF run
<1> QED BY <1>3, <1>4, <1>5 DEF Leads

(* What SetToSeq makes of a finite set of messages. *)
LEMMA ListOf ==
  ASSUME NEW S, IsFiniteSet(S), S \subseteq Messages
  PROVE  /\ SetToSeq(S) \in Seq(Messages)
         /\ \A n \in 1 .. Len(SetToSeq(S)) : SetToSeq(S)[n] \in S
         /\ \A m \in S : \E n \in 1 .. Len(SetToSeq(S)) : SetToSeq(S)[n] = m
<1>1. ExistsBijection(1 .. Cardinality(S), S) /\ Cardinality(S) \in Nat
  BY FS_CardinalityType
<1>2. PICK f \in Bijection(1 .. Cardinality(S), S) : TRUE
  BY <1>1 DEF ExistsBijection
<1>3. f \in [1 .. Cardinality(S) -> S] /\ IsInjective(f)
  BY <1>2 DEF Bijection, Injection
<1>4. SetToSeq(S) \in [1 .. Cardinality(S) -> S] /\ IsInjective(SetToSeq(S))
  BY <1>3 DEF SetToSeq
<1>5. SetToSeq(S) \in Injection(1 .. Cardinality(S), S)
  BY <1>4 DEF Injection
<1>6. Cardinality(1 .. Cardinality(S)) = Cardinality(S)
  BY <1>1, FS_Interval
<1>7. SetToSeq(S) \in Surjection(1 .. Cardinality(S), S)
  BY <1>5, <1>6, FS_Injection
<1>8. Len(SetToSeq(S)) = Cardinality(S) /\ SetToSeq(S) \in Seq(Messages)
  BY <1>1, <1>4
<1> QED BY <1>4, <1>7, <1>8 DEF Surjection

LEMMA IdsFinite == \A D \in SUBSET Ids : IsFiniteSet(D)
BY StripAssumption, FS_Union, FS_Subset DEF Ids

(* What a run of messages clears. *)
LEMMA ClearedHas ==
  ASSUME NEW q \in Seq(Messages), NEW z
  PROVE  z \in ClearedZones(q) <=> z \in Zones /\ \E n \in 1 .. Len(q) : q[n].t = "clear" /\ z \in q[n].ids
<1> DEFINE N == {m \in DOMAIN q : q[m].t = "clear"}
<1>1. N = {m \in 1 .. Len(q) : q[m].t = "clear"}
  OBVIOUS
<1>2. ClearedZones(q) = (UNION {q[n].ids : n \in N}) \cap Zones
  BY DEF ClearedZones
<1> HIDE DEF N
<1>3. z \in ClearedZones(q) <=> z \in Zones /\ \E n \in N : z \in q[n].ids
  <2>1. z \in UNION {q[n].ids : n \in N} <=> \E n \in N : z \in q[n].ids
    OBVIOUS
  <2> QED BY <1>2, <2>1
<1> QED BY <1>1, <1>3

LEMMA ClearedOn ==
  ASSUME NEW p \in Seq(Messages), NEW q \in Seq(Messages)
  PROVE  ClearedZones(p \o q) = ClearedZones(p) \cup ClearedZones(q)
<1>1. Len(p) \in Nat /\ Len(q) \in Nat /\ Len(p \o q) = Len(p) + Len(q)
  OBVIOUS
<1>2. DOMAIN p = 1 .. Len(p) /\ DOMAIN q = 1 .. Len(q) /\ DOMAIN (p \o q) = 1 .. Len(p) + Len(q)
  OBVIOUS
<1>3. \A n \in 1 .. Len(p) : (p \o q)[n] = p[n] /\ n \in 1 .. Len(p) + Len(q)
  BY <1>1
<1>4. \A n \in 1 .. Len(q) : (p \o q)[n + Len(p)] = q[n] /\ n + Len(p) \in 1 .. Len(p) + Len(q)
  BY <1>1
<1>5. \A n \in 1 .. Len(p) + Len(q) : n \in 1 .. Len(p) \/ \E k \in 1 .. Len(q) : n = k + Len(p)
  <2> SUFFICES ASSUME NEW n \in 1 .. Len(p) + Len(q), n \notin 1 .. Len(p)
               PROVE  \E k \in 1 .. Len(q) : n = k + Len(p)
    OBVIOUS
  <2>1. n - Len(p) \in 1 .. Len(q) /\ n = (n - Len(p)) + Len(p)
    BY <1>1
  <2> QED BY <2>1
<1>6. \A z : z \in ClearedZones(p \o q) <=>
         z \in Zones /\ \E n \in 1 .. Len(p) + Len(q) : (p \o q)[n].t = "clear" /\ z \in (p \o q)[n].ids
  <2>1. p \o q \in Seq(Messages)
    OBVIOUS
  <2> QED BY <1>1, <2>1, ClearedHas
<1>7. \A z : z \in ClearedZones(p) <=> z \in Zones /\ \E n \in 1 .. Len(p) : p[n].t = "clear" /\ z \in p[n].ids
  BY ClearedHas
<1>8. \A z : z \in ClearedZones(q) <=> z \in Zones /\ \E n \in 1 .. Len(q) : q[n].t = "clear" /\ z \in q[n].ids
  BY ClearedHas
<1>9. ASSUME NEW z PROVE z \in ClearedZones(p \o q) <=> z \in ClearedZones(p) \cup ClearedZones(q)
  <2>1. ASSUME z \in ClearedZones(p \o q) PROVE z \in ClearedZones(p) \cup ClearedZones(q)
    <3>1. PICK n \in 1 .. Len(p) + Len(q) : (p \o q)[n].t = "clear" /\ z \in (p \o q)[n].ids
      BY <1>6, <2>1
    <3>2. z \in Zones
      BY <1>6, <2>1
    <3>3. CASE n \in 1 .. Len(p)
      BY <1>3, <1>7, <3>1, <3>2, <3>3
    <3>4. ASSUME NEW k \in 1 .. Len(q), n = k + Len(p) PROVE z \in ClearedZones(q)
      BY <1>4, <1>8, <3>1, <3>2, <3>4
    <3> QED BY <1>5, <3>3, <3>4
  <2>2. ASSUME z \in ClearedZones(p) PROVE z \in ClearedZones(p \o q)
    BY <1>3, <1>6, <1>7, <2>2
  <2>3. ASSUME z \in ClearedZones(q) PROVE z \in ClearedZones(p \o q)
    BY <1>4, <1>6, <1>8, <2>3
  <2> QED BY <2>1, <2>2, <2>3
<1> QED BY <1>9

LEMMA ClearedNone ==
  ASSUME NEW q \in Seq(Messages), \A n \in 1 .. Len(q) : q[n].t # "clear"
  PROVE  ClearedZones(q) = {}
BY ClearedHas

(* Results follow one another. *)
LEMMA ResultOn ==
  ASSUME NEW x, NEW d, NEW e, NEW U, NEW r, NEW s, Result(x, d, e, U, r),
         \A f, V : Agree(r[1], d, f, V) => Result(r[1], d, f, V, s)
  PROVE  Result(x, d, e, U, FollowedBy(r, s))
<1>1. PICK f : Leads(e, r[2], f) /\ Agree(r[1], d, f, U \cup Off(x, r[2]))
  BY DEF Result
<1>2. Result(r[1], d, f, U \cup Off(x, r[2]), s)
  BY <1>1
<1>3. PICK g : Leads(f, s[2], g) /\ Agree(s[1], d, g, (U \cup Off(x, r[2])) \cup Off(r[1], s[2]))
  BY <1>2 DEF Result
<1>4. /\ r[2] \in Seq(Messages) /\ s[2] \in Seq(Messages)
      /\ SameWidgets(x, r[1]) /\ SameWidgets(r[1], s[1])
  BY <1>2 DEF Result
<1>5. Leads(e, r[2] \o s[2], g)
  BY <1>1, <1>3, <1>4, LeadsOn
<1>6. (U \cup Off(x, r[2])) \cup Off(r[1], s[2]) = U \cup Off(x, r[2] \o s[2])
  BY <1>4, ClearedOn DEF Off, SameWidgets
<1>7. SameWidgets(x, s[1]) /\ r[2] \o s[2] \in Seq(Messages)
  BY <1>4 DEF SameWidgets
<1>8. Agree(s[1], d, g, U \cup Off(x, r[2] \o s[2]))
  BY <1>3, <1>6
<1>9. FollowedBy(r, s)[1] = s[1] /\ FollowedBy(r, s)[2] = r[2] \o s[2]
  BY DEF FollowedBy
<1> QED BY <1>5, <1>7, <1>8, <1>9 DEF Result

(* The messages of a tick: there are finitely many, each of them well formed. *)
LEMMA MessagesFinite ==
  ASSUME NEW D \in SUBSET Ids, NEW f, f = [i \in D |-> f[i]]
  PROVE  IsFiniteSet({f[i] : i \in D})
<1>1. f \in Surjection(D, {f[i] : i \in D})
  BY DEF Surjection
<1> QED BY <1>1, IdsFinite, FS_Surjection

LEMMA BurstsTyped ==
  ASSUME NEW x, IsWidgets(x), NEW D \in SUBSET Ids
  PROVE  /\ {[t |-> "restore", ids |-> {i}] : i \in D} \subseteq Messages
         /\ IsFiniteSet({[t |-> "restore", ids |-> {i}] : i \in D})
         /\ {PaintMessage(x, i) : i \in D} \subseteq Messages
         /\ IsFiniteSet({PaintMessage(x, i) : i \in D})
<1> DEFINE R == {[t |-> "restore", ids |-> {i}] : i \in D}
           P == {PaintMessage(x, i) : i \in D}
<1>1. \A i \in D : LinesFor(x, i) \in Int
  BY DEF LinesFor, Placeholder, IsWidgets
<1>2. \A i \in D : PaintMessage(x, i) \in Messages /\ [t |-> "restore", ids |-> {i}] \in Messages
  BY <1>1 DEF PaintMessage, Messages, Pictures
<1>3. R \subseteq Messages /\ P \subseteq Messages
  BY <1>2
<1>4. IsFiniteSet(R) /\ IsFiniteSet(P)
  <2>1. PICK f : f = [i \in D |-> [t |-> "restore", ids |-> {i}]]
    OBVIOUS
  <2>2. PICK g : g = [i \in D |-> PaintMessage(x, i)]
    OBVIOUS
  <2>3. f = [i \in D |-> f[i]] /\ R = {f[i] : i \in D}
    BY <2>1
  <2>4. g = [i \in D |-> g[i]] /\ P = {g[i] : i \in D}
    BY <2>2
  <2> HIDE DEF R, P
  <2> QED BY <2>3, <2>4, MessagesFinite
<1> QED BY <1>3, <1>4

(* A tick puts back what is left to the app and paints what has changed. *)
LEMMA PaintLeads ==
  ASSUME NEW x, NEW d, NEW e, NEW U, Agree(x, d, e, U), x.active
  PROVE  Result(x, d, e, U, PaintChanged(x))
<1> DEFINE ids == WidgetIds(x)
           left == {i \in ids : LeftToApp(x, i)}
           orphan == {i \in left : ~Owns(x, i)}
           due == {i \in ids \ left : x.lastPainted[i] # LinesFor(x, i)}
           drawn == {i \in due : LinesFor(x, i) # 0}
           tracked == IF x.mode = "deckbridge-repaint" THEN drawn \cap Zones ELSE {}
           back == orphan \cap x.widgetOnZone
           R == {[t |-> "restore", ids |-> {i}] : i \in back}
           P == {PaintMessage(x, i) : i \in due}
           y == [x EXCEPT
                  !.lastPainted = [i \in Ids |-> IF i \in orphan THEN NeverPainted
                                                 ELSE IF i \in due THEN LinesFor(x, i) ELSE @[i]],
                  !.shown = [i \in Ids |-> IF i \in due THEN LinesFor(x, i) ELSE @[i]],
                  !.hold = [z \in Zones |->
                              IF x.mode = "deckbridge-repaint" /\ Owns(x, z) /\ @[z] = "over"
                                THEN "none" ELSE @[z]],
                  !.widgetOnZone = (@ \ orphan) \cup tracked]
           q == SetToSeq(R) \o SetToSeq(P)
           e1 == [e EXCEPT !.panel = [i \in Ids |-> IF i \in back THEN e.rgb[i] ELSE e.panel[i]]]
           text == [i \in Ids |-> TextPic(LinesFor(x, i))]
           e2 == [e1 EXCEPT !.panel = [i \in Ids |-> IF i \in due THEN text[i] ELSE e1.panel[i]]]
<1>3. PaintChanged(x) = <<y, q>>
  BY DEF PaintChanged
<1>4. /\ due \subseteq ids /\ due \subseteq Ids /\ back \subseteq Zones /\ back \subseteq orphan
      /\ orphan \subseteq left /\ due \cap left = {} /\ tracked \subseteq due \cap Zones
      /\ orphan \subseteq Ids /\ back \subseteq Ids
  BY DEF WidgetIds, Ids, Agree, IsWidgets, Modes
<1>5. \A i \in Ids : LinesFor(x, i) \in Int /\ x.conf[i].value \in Nat /\ x.shown[i] \in Int
  BY DEF LinesFor, Placeholder, Agree, IsWidgets
<1>6. x.mode \in Modes /\ x.widgetOnZone \subseteq Zones
  BY DEF Agree, IsWidgets
<1>7. \A i \in due : PaintMessage(x, i) \in Messages /\ PaintMessage(x, i).ids = {i}
  BY <1>4, <1>5 DEF PaintMessage, Messages, Pictures
<1>8. R \subseteq Messages /\ P \subseteq Messages /\ IsFiniteSet(R) /\ IsFiniteSet(P)
  <2>1. IsWidgets(x)
    BY DEF Agree
  <2> HIDE DEF back, due
  <2> QED BY <1>4, <2>1, BurstsTyped
<1>10. /\ SetToSeq(R) \in Seq(Messages)
       /\ \A n \in 1 .. Len(SetToSeq(R)) : SetToSeq(R)[n] \in R
       /\ \A m \in R : \E n \in 1 .. Len(SetToSeq(R)) : SetToSeq(R)[n] = m
  <2> HIDE DEF R
  <2> QED BY <1>8, ListOf
<1>11. /\ SetToSeq(P) \in Seq(Messages)
       /\ \A n \in 1 .. Len(SetToSeq(P)) : SetToSeq(P)[n] \in P
       /\ \A m \in P : \E n \in 1 .. Len(SetToSeq(P)) : SetToSeq(P)[n] = m
  <2> HIDE DEF P
  <2> QED BY <1>8, ListOf
<1>12. IsDevice(e)
  BY DEF Agree
<1>13. Leads(e, SetToSeq(R), e1)
  <2>1. ASSUME NEW n \in 1 .. Len(SetToSeq(R))
        PROVE  \E i \in back :
            /\ SetToSeq(R)[n].ids = {i}
            /\ \A f : (IsDevice(f) /\ f.rgb = e.rgb) =>
                 Worked(f, SetToSeq(R)[n]) =
                   [f EXCEPT !.panel = [j \in Ids |-> IF j = i THEN e.rgb[j] ELSE f.panel[j]]]
    <3>1. PICK i \in back : SetToSeq(R)[n] = [t |-> "restore", ids |-> {i}]
      BY <1>10
    <3>0. PICK m : m = SetToSeq(R)[n]
      OBVIOUS
    <3> HIDE DEF R, back
    <3>2. m = SetToSeq(R)[n] /\ m.t = "restore" /\ m.ids = {i}
      BY ONLY <3>0, <3>1
    <3>3. ASSUME NEW f, IsDevice(f), f.rgb = e.rgb
          PROVE  Worked(f, m) = [f EXCEPT !.panel = [j \in Ids |-> IF j = i THEN e.rgb[j] ELSE f.panel[j]]]
      <4>1. Worked(f, m) = [f EXCEPT !.panel = PutOnPanel(f, {i})]
        BY ONLY <3>2 DEF Worked
      <4>2. PutOnPanel(f, {i}) = [j \in Ids |-> IF j = i THEN e.rgb[j] ELSE f.panel[j]]
        BY ONLY <3>3 DEF PutOnPanel
      <4> QED BY ONLY <4>1, <4>2
    <3> QED BY <3>2, <3>3
  <2>2. \A i \in back : \E n \in 1 .. Len(SetToSeq(R)) : SetToSeq(R)[n].ids = {i}
    <3> SUFFICES ASSUME NEW i \in back
                 PROVE  \E n \in 1 .. Len(SetToSeq(R)) : SetToSeq(R)[n].ids = {i}
      OBVIOUS
    <3>1. [t |-> "restore", ids |-> {i}] \in R
      OBVIOUS
    <3> HIDE DEF R, back
    <3>2. PICK n \in 1 .. Len(SetToSeq(R)) : SetToSeq(R)[n] = [t |-> "restore", ids |-> {i}]
      BY <1>10, <3>1
    <3> QED BY <3>2
  <2> HIDE DEF R, back
  <2>3. Burst(e, back, e.rgb, SetToSeq(R))
    BY <2>1, <2>2 DEF Burst
  <2> QED BY <1>10, <1>12, <2>3, BurstLeads
<1>14. IsDevice(e1) /\ e1.rgb = e.rgb /\ e1.mask = e.mask /\ e1.always = e.always
  <2> HIDE DEF back
  <2> QED BY <1>12 DEF IsDevice
<1>15. Leads(e1, SetToSeq(P), e2)
  <2>1. ASSUME NEW n \in 1 .. Len(SetToSeq(P))
        PROVE  \E i \in due :
            /\ SetToSeq(P)[n].ids = {i}
            /\ \A f : (IsDevice(f) /\ f.rgb = e1.rgb) =>
                 Worked(f, SetToSeq(P)[n]) =
                   [f EXCEPT !.panel = [j \in Ids |-> IF j = i THEN text[j] ELSE f.panel[j]]]
    <3>1. PICK i \in due : SetToSeq(P)[n] = PaintMessage(x, i)
      BY <1>11
    <3>0. PICK m : m = PaintMessage(x, i)
      OBVIOUS
    <3>2. /\ m = SetToSeq(P)[n] /\ m.ids = {i} /\ m.t \in {"paint", "clear"}
          /\ (IF m.t = "clear" THEN Black ELSE m.pic) = TextPic(LinesFor(x, i))
      <4>1. m = SetToSeq(P)[n]
        BY ONLY <3>0, <3>1
      <4>2. /\ m.ids = {i} /\ m.t \in {"paint", "clear"}
            /\ (IF m.t = "clear" THEN Black ELSE m.pic) = TextPic(LinesFor(x, i))
        BY ONLY <3>0 DEF PaintMessage, TextPic
      <4> QED BY ONLY <4>1, <4>2
    <3>3. text[i] = TextPic(LinesFor(x, i))
      BY <1>4
    <3> HIDE DEF text
    <3>4. ASSUME NEW f
          PROVE  Worked(f, m) = [f EXCEPT !.panel = [j \in Ids |-> IF j = i THEN text[j] ELSE f.panel[j]]]
      <4>1. Worked(f, m) = [f EXCEPT !.panel = [j \in Ids |-> IF j \notin m.ids THEN f.panel[j]
                                          ELSE IF m.t = "clear" THEN Black ELSE m.pic]]
        BY ONLY <3>2 DEF Worked
      <4>2. [j \in Ids |-> IF j \notin m.ids THEN f.panel[j] ELSE IF m.t = "clear" THEN Black ELSE m.pic]
              = [j \in Ids |-> IF j = i THEN text[j] ELSE f.panel[j]]
        BY ONLY <3>2, <3>3
      <4> QED BY ONLY <4>1, <4>2
    <3> HIDE DEF P, due
    <3> QED BY <3>2, <3>4
  <2>2. \A i \in due : \E n \in 1 .. Len(SetToSeq(P)) : SetToSeq(P)[n].ids = {i}
    <3> SUFFICES ASSUME NEW i \in due
                 PROVE  \E n \in 1 .. Len(SetToSeq(P)) : SetToSeq(P)[n].ids = {i}
      OBVIOUS
    <3>1. PaintMessage(x, i) \in P
      OBVIOUS
    <3> HIDE DEF P, due
    <3>2. PICK n \in 1 .. Len(SetToSeq(P)) : SetToSeq(P)[n] = PaintMessage(x, i)
      BY <1>11, <3>1
    <3> QED BY <1>7, <3>2
  <2> HIDE DEF P, due, e1, text
  <2>3. Burst(e1, due, text, SetToSeq(P))
    BY <2>1, <2>2 DEF Burst
  <2> QED BY <1>11, <1>14, <2>3, BurstLeads
<1>16. q \in Seq(Messages) /\ Leads(e, q, e2)
  <2> HIDE DEF R, P, e1, e2
  <2> QED BY <1>10, <1>11, <1>13, <1>15, LeadsOn
<1> HIDE DEF R, P, e1
<1>17. \A z \in due \cap Zones : LinesFor(x, z) = 0 => z \in ClearedZones(q)
  <2> SUFFICES ASSUME NEW z \in due \cap Zones, LinesFor(x, z) = 0
               PROVE  z \in ClearedZones(q)
    OBVIOUS
  <2>1. PaintMessage(x, z) = [t |-> "clear", ids |-> {z}] /\ PaintMessage(x, z) \in P
    BY DEF PaintMessage, P
  <2>2. PICK n \in 1 .. Len(SetToSeq(P)) : SetToSeq(P)[n] = [t |-> "clear", ids |-> {z}]
    BY <1>11, <2>1
  <2>3. z \in ClearedZones(SetToSeq(P))
    BY <1>11, <2>2, ClearedHas
  <2> QED BY <1>10, <1>11, <2>3, ClearedOn
<1>19. /\ y = [active |-> x.active, timer |-> x.timer, mode |-> x.mode, conf |-> x.conf,
               always |-> x.always, lastMask |-> x.lastMask, lastPainted |-> y.lastPainted,
               hold |-> y.hold, widgetOnZone |-> (x.widgetOnZone \ orphan) \cup tracked,
               refreshing |-> x.refreshing, shown |-> y.shown, flashes |-> x.flashes]
       /\ y.lastPainted = [i \in Ids |-> IF i \in orphan THEN NeverPainted
                                         ELSE IF i \in due THEN LinesFor(x, i) ELSE x.lastPainted[i]]
       /\ y.shown = [i \in Ids |-> IF i \in due THEN LinesFor(x, i) ELSE x.shown[i]]
       /\ y.hold = [z \in Zones |->
                      IF x.mode = "deckbridge-repaint" /\ Owns(x, z) /\ x.hold[z] = "over"
                        THEN "none" ELSE x.hold[z]]
  <2>1. x = [active |-> x.active, timer |-> x.timer, mode |-> x.mode, conf |-> x.conf,
             always |-> x.always, lastMask |-> x.lastMask, lastPainted |-> x.lastPainted,
             hold |-> x.hold, widgetOnZone |-> x.widgetOnZone, refreshing |-> x.refreshing,
             shown |-> x.shown, flashes |-> x.flashes]
    BY DEF Agree, IsWidgets
  <2> HIDE DEF orphan, tracked, due
  <2>2. PICK p : p = [i \in Ids |-> IF i \in orphan THEN NeverPainted
                                    ELSE IF i \in due THEN LinesFor(x, i) ELSE x.lastPainted[i]]
    OBVIOUS
  <2>3. PICK s : s = [i \in Ids |-> IF i \in due THEN LinesFor(x, i) ELSE x.shown[i]]
    OBVIOUS
  <2>4. PICK h : h = [z \in Zones |->
                       IF x.mode = "deckbridge-repaint" /\ Owns(x, z) /\ x.hold[z] = "over"
                         THEN "none" ELSE x.hold[z]]
    OBVIOUS
  <2>5. PICK w : w = (x.widgetOnZone \ orphan) \cup tracked
    OBVIOUS
  <2>6. y = [x EXCEPT !.lastPainted = p, !.shown = s, !.hold = h, !.widgetOnZone = w]
    BY ONLY <2>2, <2>3, <2>4, <2>5
  <2> HIDE DEF y
  <2>7. y.lastPainted = p /\ y.shown = s /\ y.hold = h
    BY ONLY <2>1, <2>6
  <2>8. y = [active |-> x.active, timer |-> x.timer, mode |-> x.mode, conf |-> x.conf,
             always |-> x.always, lastMask |-> x.lastMask, lastPainted |-> p, hold |-> h,
             widgetOnZone |-> w, refreshing |-> x.refreshing, shown |-> s, flashes |-> x.flashes]
    BY ONLY <2>1, <2>6
  <2>9. y = [active |-> x.active, timer |-> x.timer, mode |-> x.mode, conf |-> x.conf,
             always |-> x.always, lastMask |-> x.lastMask, lastPainted |-> y.lastPainted, hold |-> y.hold,
             widgetOnZone |-> w, refreshing |-> x.refreshing, shown |-> y.shown, flashes |-> x.flashes]
    BY ONLY <2>7, <2>8
  <2> QED BY ONLY <2>2, <2>3, <2>4, <2>5, <2>7, <2>9
<1> HIDE DEF y
<1>20. /\ y.active = x.active /\ y.timer = x.timer /\ y.mode = x.mode /\ y.conf = x.conf
       /\ y.always = x.always /\ y.lastMask = x.lastMask /\ y.refreshing = x.refreshing
       /\ y.flashes = x.flashes /\ y.widgetOnZone = (x.widgetOnZone \ orphan) \cup tracked
  <2> HIDE DEF orphan, tracked
  <2> QED BY ONLY <1>19
<1>21. IsWidgets(y)
  <2>1. y.lastPainted \in [Ids -> Int] /\ y.shown \in [Ids -> Int]
    <3> HIDE DEF orphan, due
    <3> QED BY <1>5, <1>19 DEF Agree, IsWidgets, NeverPainted
  <2>2. y.hold \in [Zones -> {"none", "on", "over"}]
    BY <1>19 DEF Agree, IsWidgets
  <2>3. y.widgetOnZone \subseteq Zones
    BY <1>4, <1>6, <1>20
  <2>4. /\ x.active \in BOOLEAN /\ x.timer \in BOOLEAN /\ x.always \in BOOLEAN
        /\ x.conf \in [Ids -> [widget : Widgets, value : Nat]] /\ x.refreshing \subseteq Ids
        /\ x.flashes \in Nat
    BY DEF Agree, IsWidgets
  <2> HIDE DEF orphan, tracked
  <2> QED BY <1>6, <1>19, <1>20, <2>1, <2>2, <2>3, <2>4 DEF IsWidgets
<1>22. SameWidgets(x, y)
  BY <1>20 DEF SameWidgets
<1>23. /\ e2 = [rgb |-> e.rgb, mask |-> e.mask, always |-> e.always, panel |-> e2.panel]
       /\ e2.rgb = e.rgb /\ e2.mask = e.mask /\ e2.always = e.always
       /\ e2.panel = [i \in Ids |-> IF i \in due THEN TextPic(LinesFor(x, i))
                                    ELSE IF i \in back THEN e.rgb[i] ELSE e.panel[i]]
  <2>1. e1.panel = [i \in Ids |-> IF i \in back THEN e.rgb[i] ELSE e.panel[i]]
    <3> HIDE DEF back
    <3> QED BY <1>12 DEF e1, IsDevice
  <2>2. e1 = [rgb |-> e1.rgb, mask |-> e1.mask, always |-> e1.always, panel |-> e1.panel]
    BY <1>14 DEF IsDevice
  <2>3. e2.panel = [i \in Ids |-> IF i \in due THEN TextPic(LinesFor(x, i)) ELSE e1.panel[i]]
    <3> HIDE DEF due
    <3> QED BY <2>2
  <2> HIDE DEF due, back
  <2> QED BY <1>14, <2>1, <2>2, <2>3
<1> HIDE DEF e2
<1>24. IsDevice(e2)
  BY <1>12, <1>23 DEF IsDevice
<1>25. \A i \in ids : (LeftToApp(x, i) => i \notin due) /\ (i \in orphan => i \notin due)
  OBVIOUS
<1>26. Shows(y, d, e2, U \cup Off(x, q))
  <2>1. /\ e2.mask = StripMask(y) /\ y.lastMask = StripMask(y) /\ e2.always = y.always
        /\ \A z \in Zones : e2.rgb[z] = d[z]
    BY <1>20, <1>23 DEF Agree, Shows, StripMask
  <2>2. ASSUME y.flashes = 0, NEW i \in WidgetIds(y), y.lastPainted[i] # NeverPainted
        PROVE  e2.panel[i] = TextPic(y.lastPainted[i])
    <3>1. i \in ids /\ i \in Ids /\ i \notin orphan
      BY <1>4, <1>6, <1>19, <1>20, <2>2 DEF WidgetIds, Ids, Modes
    <3>2. CASE i \in due
      BY <1>19, <1>23, <3>1, <3>2
    <3>3. CASE i \notin due
      <4>1. y.lastPainted[i] = x.lastPainted[i] /\ e2.panel[i] = e.panel[i]
        BY <1>4, <1>19, <1>23, <3>1, <3>3
      <4> QED BY <1>20, <2>2, <3>1, <4>1 DEF Agree, Shows
    <3> QED BY <3>2, <3>3
  <2>3. ASSUME y.mode = "elgato", NEW z \in Zones \ (U \cup Off(x, q))
        PROVE  e2.panel[z] = d[z]
    <3>1. z \in Ids /\ z \notin due /\ z \notin back
      BY <1>4, <1>20, <2>3, StripAssumption DEF WidgetIds, LeftToApp, Ids
    <3>2. e2.panel[z] = e.panel[z]
      BY <1>23, <3>1
    <3> QED BY <1>20, <2>3, <3>2 DEF Agree, Shows
  <2>4. ASSUME y.mode = "deckbridge-repaint", NEW z \in Zones \ ((U \cup Off(x, q)) \cup y.widgetOnZone)
        PROVE  e2.panel[z] = d[z]
    <3>1. z \in Ids /\ z \notin U /\ z \notin ClearedZones(q)
      BY <1>20, <2>4 DEF Off, Ids
    <3>2. z \notin due
      <4>1. z \in due => LinesFor(x, z) # 0
        BY <1>17, <3>1, <2>4
      <4> QED BY <1>20, <2>4, <4>1
    <3>3. CASE z \in back
      BY <1>23, <3>1, <3>2, <3>3 DEF Agree, Shows
    <3>4. CASE z \notin back
      <4>1. z \notin x.widgetOnZone
        BY <1>20, <2>4, <3>4
      <4>2. e2.panel[z] = e.panel[z]
        BY <1>23, <3>1, <3>2, <3>4
      <4> QED BY <1>20, <2>4, <3>1, <4>1, <4>2 DEF Agree, Shows
    <3> QED BY <3>3, <3>4
  <2> QED BY <2>1, <2>2, <2>3, <2>4 DEF Shows
<1>27. /\ \A z \in Zones : y.hold[z] = "on" => z \notin y.widgetOnZone
       /\ y.mode # "deckbridge-repaint" => y.widgetOnZone = {}
  <2>1. ASSUME NEW z \in Zones, y.hold[z] = "on"
        PROVE  z \notin y.widgetOnZone
    <3>1. x.hold[z] = "on" /\ z \in Ids
      BY <1>19, <2>1 DEF Ids
    <3>2. z \notin x.widgetOnZone
      BY <3>1 DEF Agree
    <3>3. z \notin tracked
      BY <1>25, <3>1 DEF LeftToApp, InElgatoHoldOff
    <3> QED BY <1>20, <3>2, <3>3
  <2>2. y.mode # "deckbridge-repaint" => y.widgetOnZone = {}
    BY <1>20 DEF Agree
  <2> QED BY <2>1, <2>2
<1>28. Agree(y, d, e2, U \cup Off(x, q))
  <2>1. U \cup Off(x, q) \subseteq Zones
    BY DEF Agree, Off, ClearedZones
  <2> QED BY <1>21, <1>24, <1>26, <1>27, <2>1 DEF Agree
<1>29. PaintChanged(x)[1] = y /\ PaintChanged(x)[2] = q
  BY <1>3
<1> QED BY <1>16, <1>22, <1>28, <1>29 DEF Result

(* What agrees already is ready to be repainted; nothing done, nothing changes. *)
LEMMA AgreeIsReady ==
  ASSUME NEW x, NEW d, NEW e, NEW U, Agree(x, d, e, U)
  PROVE  Ready(x, d, e, U)
BY DEF Agree, Ready, Shows, StripMask

LEMMA ResultNothing ==
  ASSUME NEW x, NEW d, NEW e, NEW U, Agree(x, d, e, U)
  PROVE  Result(x, d, e, U, <<x, << >>>>)
<1>1. Leads(e, << >>, e) /\ << >> \in Seq(Messages)
  BY LeadsNowhere
<1>2. U \cup Off(x, << >>) = U
  <2>1. ClearedZones(<< >>) = {}
    <3>1. << >> \in Seq(Messages) /\ \A n \in 1 .. Len(<< >>) : << >>[n].t # "clear"
      OBVIOUS
    <3> QED BY <3>1, ClearedNone
  <2> QED BY <2>1 DEF Off
<1>3. <<x, << >>>>[1] = x /\ <<x, << >>>>[2] = << >>
  OBVIOUS
<1> QED BY <1>1, <1>2, <1>3 DEF Result, SameWidgets

(* The object's fields, and what forgetting the painted values leaves of them. *)
LEMMA FieldsOfWidgets ==
  ASSUME NEW x, IsWidgets(x)
  PROVE  x = [active |-> x.active, timer |-> x.timer, mode |-> x.mode, conf |-> x.conf,
              always |-> x.always, lastMask |-> x.lastMask, lastPainted |-> x.lastPainted,
              hold |-> x.hold, widgetOnZone |-> x.widgetOnZone, refreshing |-> x.refreshing,
              shown |-> x.shown, flashes |-> x.flashes]
BY DEF IsWidgets

LEMMA ForgottenFields ==
  ASSUME NEW x, IsWidgets(x)
  PROVE  LET y == Forgotten(x)
         IN  /\ IsWidgets(y) /\ SameWidgets(x, y) /\ y.timer = x.timer
             /\ y.lastMask = x.lastMask /\ y.always = x.always /\ y.hold = x.hold
             /\ y.widgetOnZone = x.widgetOnZone /\ \A i \in Ids : y.lastPainted[i] = NeverPainted
<1>1. PICK p : p = [i \in Ids |-> NeverPainted]
  OBVIOUS
<1>2. Forgotten(x) = [x EXCEPT !.lastPainted = p]
  BY <1>1 DEF Forgotten
<1>3. Forgotten(x) =
        [active |-> x.active, timer |-> x.timer, mode |-> x.mode, conf |-> x.conf,
         always |-> x.always, lastMask |-> x.lastMask, lastPainted |-> p,
         hold |-> x.hold, widgetOnZone |-> x.widgetOnZone, refreshing |-> x.refreshing,
         shown |-> x.shown, flashes |-> x.flashes]
  BY <1>2, FieldsOfWidgets
<1>4. p \in [Ids -> Int] /\ \A i \in Ids : p[i] = NeverPainted
  BY <1>1 DEF NeverPainted
<1>5. PICK y : y = Forgotten(x)
  OBVIOUS
<1>6. /\ y.active = x.active /\ y.timer = x.timer /\ y.mode = x.mode /\ y.conf = x.conf
      /\ y.always = x.always /\ y.lastMask = x.lastMask /\ y.lastPainted = p /\ y.hold = x.hold
      /\ y.widgetOnZone = x.widgetOnZone /\ y.refreshing = x.refreshing /\ y.shown = x.shown
      /\ y.flashes = x.flashes
  BY ONLY <1>3, <1>5
<1>7. IsWidgets(y)
  BY <1>3, <1>4, <1>5, <1>6 DEF IsWidgets
<1> QED BY <1>4, <1>5, <1>6, <1>7 DEF SameWidgets

(* A repaint first brings the mask up to date. *)
LEMMA MaskLeads ==
  ASSUME NEW x, NEW d, NEW e, NEW U, Ready(x, d, e, U), x.active
  PROVE  Result(x, d, e, U, PushMask(Forgotten(x), FALSE))
<1>0. PICK r : r = PushMask(Forgotten(x), FALSE)
  OBVIOUS
<1>1. PICK y : y = Forgotten(x)
  OBVIOUS
<1>2. /\ IsWidgets(y) /\ SameWidgets(x, y) /\ y.timer = x.timer
      /\ y.lastMask = x.lastMask /\ y.always = x.always /\ y.hold = x.hold
      /\ y.widgetOnZone = x.widgetOnZone /\ \A i \in Ids : y.lastPainted[i] = NeverPainted
  BY <1>1, ForgottenFields DEF Ready
<1>3. Ready(y, d, e, U) /\ y.active
  BY <1>2 DEF Ready, SameWidgets
<1>4. StripMask(y) \in {{}, Zones} /\ WidgetIds(y) \subseteq Ids
  BY <1>2 DEF StripMask, WidgetIds, Ids
<1>5. ASSUME Zones # {} /\ StripMask(y) # y.lastMask
      PROVE  Result(x, d, e, U, r)
  <2> DEFINE m == [t |-> "mask", ids |-> StripMask(y)]
             w == [y EXCEPT !.lastMask = StripMask(y)]
             f == Worked(e, m)
  <2>1. r = <<w, <<m>>>>
    BY <1>0, <1>1, <1>3, <1>5 DEF PushMask
  <2>2. w = [active |-> y.active, timer |-> y.timer, mode |-> y.mode, conf |-> y.conf,
              always |-> y.always, lastMask |-> StripMask(y), lastPainted |-> y.lastPainted,
              hold |-> y.hold, widgetOnZone |-> y.widgetOnZone, refreshing |-> y.refreshing,
              shown |-> y.shown, flashes |-> y.flashes]
    BY <1>2, FieldsOfWidgets
  <2> HIDE DEF w
  <2>3. /\ w.active = y.active /\ w.timer = y.timer /\ w.mode = y.mode /\ w.conf = y.conf
        /\ w.always = y.always /\ w.lastMask = StripMask(y) /\ w.lastPainted = y.lastPainted
        /\ w.hold = y.hold /\ w.widgetOnZone = y.widgetOnZone /\ w.refreshing = y.refreshing
        /\ w.shown = y.shown /\ w.flashes = y.flashes
    BY ONLY <2>2
  <2>4. IsWidgets(w)
    BY <1>2, <2>2, <2>3 DEF IsWidgets
  <2>5. m \in Messages
    BY <1>4 DEF Messages, Ids
  <2>6. f = [e EXCEPT !.mask = StripMask(y), !.panel = PutOnPanel(e, e.mask \ StripMask(y))]
    BY DEF Worked
  <2> HIDE DEF m, f
  <2>7. e = [rgb |-> e.rgb, mask |-> e.mask, always |-> e.always, panel |-> e.panel]
    BY <1>3 DEF Ready, IsDevice
  <2>8. /\ f = [rgb |-> e.rgb, mask |-> StripMask(y), always |-> e.always,
                panel |-> PutOnPanel(e, e.mask \ StripMask(y))]
        /\ f.rgb = e.rgb /\ f.mask = StripMask(y) /\ f.always = e.always
        /\ f.panel = PutOnPanel(e, e.mask \ StripMask(y))
    BY ONLY <2>6, <2>7
  <2>9. IsDevice(f)
    BY <1>3, <2>8 DEF IsDevice, PutOnPanel, Ready
  <2>10. StripMask(w) = StripMask(y)
    BY <2>3 DEF StripMask
  <2>11. ASSUME w.mode # "deckbridge-ignore", NEW z \in Zones
         PROVE  f.panel[z] = d[z]
    <3>1. StripMask(y) = {} /\ e.mask = Zones /\ z \in Ids
      BY <1>3, <1>5, <2>3, <2>11 DEF StripMask, Ready, Ids
    <3> QED BY <1>3, <2>8, <3>1 DEF PutOnPanel, Ready
  <2>12. Shows(w, d, f, U)
    <3>1. \A i \in WidgetIds(w) : w.lastPainted[i] = NeverPainted
      BY <1>2, <1>4, <2>3 DEF WidgetIds
    <3> QED BY <1>3, <2>3, <2>8, <2>10, <2>11, <3>1 DEF Shows, Ready
  <2>13. Agree(w, d, f, U)
    BY <1>3, <2>3, <2>4, <2>9, <2>12 DEF Agree, Ready
  <2>14. ClearedZones(<<m>>) = {} /\ <<m>> \in Seq(Messages)
    <3>1. <<m>> \in Seq(Messages) /\ \A n \in 1 .. Len(<<m>>) : <<m>>[n].t # "clear"
      BY <2>5 DEF m
    <3> QED BY <3>1, ClearedNone
  <2>15. SameWidgets(x, w)
    BY <1>2, <2>3 DEF SameWidgets
  <2>16. Leads(e, <<m>>, f)
    BY LeadsOnce DEF f
  <2>17. U \cup Off(x, <<m>>) = U
    BY <2>14 DEF Off
  <2>18. r[1] = w /\ r[2] = <<m>>
    BY <2>1
  <2> QED BY <2>13, <2>14, <2>15, <2>16, <2>17, <2>18 DEF Result
<1>6. ASSUME ~(Zones # {} /\ StripMask(y) # y.lastMask)
      PROVE  Result(x, d, e, U, r)
  <2>1. r = <<y, << >>>>
    BY <1>0, <1>1, <1>6 DEF PushMask
  <2>2. StripMask(y) = y.lastMask
    BY <1>3, <1>4, <1>6 DEF Ready
  <2>3. Shows(y, d, e, U)
    <3>1. \A i \in WidgetIds(y) : y.lastPainted[i] = NeverPainted
      BY <1>2, <1>4
    <3>2. y.mode \in {"elgato", "deckbridge-repaint"} => y.lastMask = {}
      BY <2>2 DEF StripMask
    <3> QED BY <1>3, <2>2, <3>1, <3>2 DEF Shows, Ready
  <2>4. Agree(y, d, e, U)
    BY <1>3, <2>3 DEF Agree, Ready
  <2>5. Result(y, d, e, U, <<y, << >>>>)
    BY <2>4, ResultNothing
  <2> QED BY <1>1, <1>2, <2>1, <2>5 DEF Result, SameWidgets, Off
<1> QED BY <1>0, <1>5, <1>6

(* tick() and repaint() lead the device to what the object then records. *)
LEMMA TickLeads ==
  ASSUME NEW x, NEW d, NEW e, NEW U, Agree(x, d, e, U), x.active
  PROVE  Result(x, d, e, U, StripTick(x))
<1>1. StripMask(x) = x.lastMask
  BY DEF Agree, Shows
<1>2. StripTick(x) = FollowedBy(<<x, << >>>>, PaintChanged(x))
  BY <1>1 DEF StripTick, PushMask
<1>3. \A f, V : Agree(x, d, f, V) => Result(x, d, f, V, PaintChanged(x))
  BY PaintLeads
<1>4. Result(x, d, e, U, <<x, << >>>>) /\ <<x, << >>>>[1] = x
  BY ResultNothing
<1> QED BY <1>2, <1>3, <1>4, ResultOn

LEMMA RepaintLeads ==
  ASSUME NEW x, NEW d, NEW e, NEW U, Ready(x, d, e, U), x.active
  PROVE  Result(x, d, e, U, RepaintStrip(x))
<1>1. PICK r : r = PushMask(Forgotten(x), FALSE)
  OBVIOUS
<1>2. Result(x, d, e, U, r)
  BY <1>1, MaskLeads
<1>3. r[1].active
  BY <1>2 DEF Result, SameWidgets
<1>4. \A f, V : Agree(r[1], d, f, V) => Result(r[1], d, f, V, StripTick(r[1]))
  BY <1>3, TickLeads
<1>5. Result(x, d, e, U, FollowedBy(r, StripTick(r[1])))
  BY <1>2, <1>4, ResultOn
<1>6. RepaintStrip(x) = IF x.timer THEN FollowedBy(r, StripTick(r[1])) ELSE r
  BY <1>1 DEF RepaintStrip
<1> QED BY <1>2, <1>5, <1>6

(* The tick that starts the timer. *)
LEMMA EnsureLeads ==
  ASSUME NEW x, NEW d, NEW e, NEW U, Agree(x, d, e, U), x.active
  PROVE  /\ Result(x, d, e, U, EnsureTicking(x))
         /\ EnsureTicking(x)[1].timer \/ WidgetIds(x) = {}
<1>1. CASE WidgetIds(x) = {} \/ x.timer
  <2>1. EnsureTicking(x) = <<x, << >>>>
    BY <1>1 DEF EnsureTicking
  <2>2. EnsureTicking(x)[1].timer \/ WidgetIds(x) = {}
    BY <1>1, <2>1
  <2> QED BY <2>1, <2>2, ResultNothing
<1>2. CASE ~(WidgetIds(x) = {} \/ x.timer)
  <2>1. PICK r : r = StripTick(x)
    OBVIOUS
  <2>2. PICK y : y = [r[1] EXCEPT !.timer = TRUE]
    OBVIOUS
  <2>3. EnsureTicking(x) = <<y, r[2]>>
    BY <1>2, <2>1, <2>2 DEF EnsureTicking
  <2>4. Result(x, d, e, U, r)
    BY <2>1, TickLeads
  <2>5. PICK f : Leads(e, r[2], f) /\ Agree(r[1], d, f, U \cup Off(x, r[2]))
    BY <2>4 DEF Result
  <2>6. PICK w : w = r[1]
    OBVIOUS
  <2>7. Agree(w, d, f, U \cup Off(x, r[2])) /\ IsWidgets(w)
    BY <2>5, <2>6 DEF Agree
  <2>8. y = [active |-> w.active, timer |-> TRUE, mode |-> w.mode, conf |-> w.conf,
             always |-> w.always, lastMask |-> w.lastMask, lastPainted |-> w.lastPainted,
             hold |-> w.hold, widgetOnZone |-> w.widgetOnZone, refreshing |-> w.refreshing,
             shown |-> w.shown, flashes |-> w.flashes]
    <3>1. w = [active |-> w.active, timer |-> w.timer, mode |-> w.mode, conf |-> w.conf,
               always |-> w.always, lastMask |-> w.lastMask, lastPainted |-> w.lastPainted,
               hold |-> w.hold, widgetOnZone |-> w.widgetOnZone, refreshing |-> w.refreshing,
               shown |-> w.shown, flashes |-> w.flashes]
      BY <2>7, FieldsOfWidgets
    <3> QED BY ONLY <2>2, <2>6, <3>1
  <2>9. /\ y.active = w.active /\ y.timer = TRUE /\ y.mode = w.mode /\ y.conf = w.conf
        /\ y.always = w.always /\ y.lastMask = w.lastMask /\ y.lastPainted = w.lastPainted
        /\ y.hold = w.hold /\ y.widgetOnZone = w.widgetOnZone /\ y.refreshing = w.refreshing
        /\ y.shown = w.shown /\ y.flashes = w.flashes
    BY ONLY <2>8
  <2>10. IsWidgets(y)
    BY <2>7, <2>8, <2>9 DEF IsWidgets
  <2>11. StripMask(y) = StripMask(w) /\ WidgetIds(y) = WidgetIds(w)
    BY <2>9 DEF StripMask, WidgetIds
  <2>12. Agree(y, d, f, U \cup Off(x, r[2]))
    BY <2>7, <2>9, <2>10, <2>11 DEF Agree, Shows
  <2>13. SameWidgets(x, y) /\ r[2] \in Seq(Messages)
    BY <2>4, <2>6, <2>9 DEF Result, SameWidgets
  <2>14. EnsureTicking(x)[1] = y /\ EnsureTicking(x)[2] = r[2]
    BY <2>3
  <2> QED BY <2>5, <2>9, <2>12, <2>13, <2>14 DEF Result
<1> QED BY <1>1, <1>2

(* A result from the object y is one from an object x that differs in its settings only. *)
LEMMA ResultOfSame ==
  ASSUME NEW x, NEW y, NEW d, NEW e, NEW U, NEW r, SameWidgets(x, y), Result(y, d, e, U, r)
  PROVE  Result(x, d, e, U, r)
BY DEF Result, SameWidgets, Off

LEMMA EndLeads ==
  ASSUME NEW x, NEW d, NEW e, NEW U, Agree(x, d, e, U), x.active, NEW i
  PROVE  Result(x, d, e, U, EndPlaceholder(x, i))
<1>1. CASE i \notin x.refreshing
  BY <1>1, ResultNothing DEF EndPlaceholder
<1>2. CASE i \in x.refreshing
  <2>1. PICK left : left = x.refreshing \ {i}
    OBVIOUS
  <2>2. PICK y : y = [x EXCEPT !.refreshing = left]
    OBVIOUS
  <2>3. EndPlaceholder(x, i) = RepaintStrip(y)
    BY <1>2, <2>1, <2>2 DEF EndPlaceholder
  <2>4. y = [active |-> x.active, timer |-> x.timer, mode |-> x.mode, conf |-> x.conf,
             always |-> x.always, lastMask |-> x.lastMask, lastPainted |-> x.lastPainted,
             hold |-> x.hold, widgetOnZone |-> x.widgetOnZone, refreshing |-> left,
             shown |-> x.shown, flashes |-> x.flashes]
    <3>1. x = [active |-> x.active, timer |-> x.timer, mode |-> x.mode, conf |-> x.conf,
               always |-> x.always, lastMask |-> x.lastMask, lastPainted |-> x.lastPainted,
               hold |-> x.hold, widgetOnZone |-> x.widgetOnZone, refreshing |-> x.refreshing,
               shown |-> x.shown, flashes |-> x.flashes]
      BY FieldsOfWidgets DEF Agree
    <3> QED BY ONLY <2>2, <3>1
  <2>5. /\ y.active = x.active /\ y.timer = x.timer /\ y.mode = x.mode /\ y.conf = x.conf
        /\ y.always = x.always /\ y.lastMask = x.lastMask /\ y.lastPainted = x.lastPainted
        /\ y.hold = x.hold /\ y.widgetOnZone = x.widgetOnZone /\ y.refreshing = left
        /\ y.shown = x.shown /\ y.flashes = x.flashes
    BY ONLY <2>4
  <2>6. IsWidgets(y)
    BY <2>1, <2>4, <2>5 DEF IsWidgets, Agree
  <2>7. Ready(y, d, e, U)
    BY <2>5, <2>6, AgreeIsReady DEF Ready
  <2> QED BY <2>3, <2>5, <2>7, RepaintLeads, ResultOfSame DEF SameWidgets
<1> QED BY <1>1, <1>2

(* An override is left or taken: what is restored first, the repaint, and the timer. *)
LEMMA ModeLeads ==
  ASSUME NEW x, NEW d, NEW e, NEW U, Agree(x, d, e, U), x.active, NEW m \in Modes, m # x.mode,
         NEW y, y = [x EXCEPT !.widgetOnZone = {}, !.mode = m],
         NEW back, back = IF m = "elgato" THEN RestoreMessages(x, x.widgetOnZone) ELSE << >>
  PROVE  LET painted == RepaintStrip(y)
             ticking == EnsureTicking(painted[1])
             r == <<ticking[1], back \o painted[2] \o ticking[2]>>
         IN  Result(y, d, e, U, r) /\ (r[1].timer \/ WidgetIds(r[1]) = {})
<1>1. y = [active |-> x.active, timer |-> x.timer, mode |-> m, conf |-> x.conf,
           always |-> x.always, lastMask |-> x.lastMask, lastPainted |-> x.lastPainted,
           hold |-> x.hold, widgetOnZone |-> {}, refreshing |-> x.refreshing,
           shown |-> x.shown, flashes |-> x.flashes]
  <2>1. x = [active |-> x.active, timer |-> x.timer, mode |-> x.mode, conf |-> x.conf,
             always |-> x.always, lastMask |-> x.lastMask, lastPainted |-> x.lastPainted,
             hold |-> x.hold, widgetOnZone |-> x.widgetOnZone, refreshing |-> x.refreshing,
             shown |-> x.shown, flashes |-> x.flashes]
    BY FieldsOfWidgets DEF Agree
  <2> QED BY <2>1
<1>2. /\ y.active = x.active /\ y.timer = x.timer /\ y.mode = m /\ y.conf = x.conf
      /\ y.always = x.always /\ y.lastMask = x.lastMask /\ y.lastPainted = x.lastPainted
      /\ y.hold = x.hold /\ y.widgetOnZone = {} /\ y.refreshing = x.refreshing
      /\ y.shown = x.shown /\ y.flashes = x.flashes
  BY ONLY <1>1
<1>3. IsWidgets(y)
  BY <1>1, <1>2 DEF IsWidgets, Agree
<1>4. /\ back \in Seq(Messages) /\ ClearedZones(back) = {}
      /\ \E f : Leads(e, back, f) /\ Ready(y, d, f, U)
  <2>1. CASE m = "elgato" /\ x.widgetOnZone # {}
    <3> DEFINE n == [t |-> "restore", ids |-> x.widgetOnZone]
               f == Worked(e, n)
    <3>1. back = <<n>> /\ x.widgetOnZone \subseteq Zones
      BY <2>1 DEF RestoreMessages, Agree, IsWidgets
    <3>2. n \in Messages /\ n.t # "clear"
      BY <3>1 DEF Messages, Ids
    <3>3. f = [e EXCEPT !.panel = PutOnPanel(e, x.widgetOnZone)]
      BY DEF Worked
    <3> HIDE DEF f, n
    <3>4. back \in Seq(Messages) /\ \A k \in 1 .. Len(back) : back[k].t # "clear"
      <4>1. <<n>> \in Seq(Messages) /\ Len(<<n>>) = 1 /\ <<n>>[1] = n
        BY <3>2
      <4>2. \A k \in 1 .. Len(<<n>>) : <<n>>[k].t # "clear"
        BY ONLY <3>2, <4>1
      <4> QED BY ONLY <3>1, <4>1, <4>2
    <3>5. Leads(e, back, f)
      BY <3>1, LeadsOnce DEF f
    <3>6. e = [rgb |-> e.rgb, mask |-> e.mask, always |-> e.always, panel |-> e.panel]
      BY DEF Agree, IsDevice
    <3>7. /\ f = [rgb |-> e.rgb, mask |-> e.mask, always |-> e.always, panel |-> PutOnPanel(e, x.widgetOnZone)]
          /\ f.rgb = e.rgb /\ f.mask = e.mask /\ f.always = e.always
          /\ f.panel = PutOnPanel(e, x.widgetOnZone)
      BY ONLY <3>3, <3>6
    <3>8. IsDevice(f)
      BY <3>7 DEF IsDevice, PutOnPanel, Agree
    <3>9. x.mode = "deckbridge-repaint"
      BY <2>1 DEF Agree
    <3>10. ASSUME NEW z \in Zones \ U PROVE f.panel[z] = d[z]
      <4>1. z \in Ids
        BY DEF Ids
      <4> QED BY <3>7, <3>9, <3>10, <4>1 DEF PutOnPanel, Agree, Shows
    <3>11. Ready(y, d, f, U)
      BY <1>2, <1>3, <2>1, <3>7, <3>8, <3>10 DEF Ready, Agree, Shows, StripMask
    <3> QED BY <3>4, <3>5, <3>11, ClearedNone
  <2>2. CASE ~(m = "elgato" /\ x.widgetOnZone # {})
    <3>1. back = << >>
      BY <2>2 DEF RestoreMessages
    <3>2. back \in Seq(Messages) /\ \A k \in 1 .. Len(back) : back[k].t # "clear"
      <4>1. << >> \in Seq(Messages) /\ Len(<< >>) = 0
        OBVIOUS
      <4>2. \A k \in 1 .. Len(<< >>) : << >>[k].t # "clear"
        BY ONLY <4>1
      <4> QED BY ONLY <3>1, <4>1, <4>2
    <3>3. Ready(y, d, e, U)
      BY <1>2, <1>3, <2>2 DEF Ready, Agree, Shows, StripMask, Modes
    <3> QED BY <3>1, <3>2, <3>3, ClearedNone, LeadsNowhere
  <2> QED BY <2>1, <2>2
<1>5. PICK f : Leads(e, back, f) /\ Ready(y, d, f, U)
  BY <1>4
<1>6. PICK p : p = RepaintStrip(y)
  OBVIOUS
<1>7. Result(y, d, f, U, p) /\ p[1].active
  BY <1>2, <1>5, <1>6, RepaintLeads DEF Result, SameWidgets
<1>8. PICK t : t = EnsureTicking(p[1])
  OBVIOUS
<1>9. Result(y, d, f, U, FollowedBy(p, t))
  BY <1>7, <1>8, EnsureLeads, ResultOn
<1>10. t[1].timer \/ WidgetIds(t[1]) = {}
  <2>1. PICK g, V : Agree(p[1], d, g, V)
    BY <1>7 DEF Result
  <2>2. Result(p[1], d, g, V, t) /\ (t[1].timer \/ WidgetIds(p[1]) = {})
    BY <1>7, <1>8, <2>1, EnsureLeads
  <2> QED BY <2>2 DEF Result, SameWidgets, WidgetIds
<1>11. p[2] \in Seq(Messages) /\ t[2] \in Seq(Messages)
  <2>1. PICK g, V : Agree(p[1], d, g, V)
    BY <1>7 DEF Result
  <2> QED BY <1>7, <1>8, <2>1, EnsureLeads DEF Result
<1>12. PICK q : q = p[2] \o t[2]
  OBVIOUS
<1>13. /\ FollowedBy(p, t)[1] = t[1] /\ FollowedBy(p, t)[2] = q /\ q \in Seq(Messages)
       /\ back \o p[2] \o t[2] = back \o q
  <2>1. FollowedBy(p, t)[1] = t[1] /\ FollowedBy(p, t)[2] = q
    BY <1>12 DEF FollowedBy
  <2>2. (back \o p[2]) \o t[2] = back \o (p[2] \o t[2]) /\ p[2] \o t[2] \in Seq(Messages)
    <3>1. ASSUME NEW a \in Seq(Messages), NEW b \in Seq(Messages), NEW c \in Seq(Messages)
          PROVE  (a \o b) \o c = a \o (b \o c) /\ b \o c \in Seq(Messages)
      BY ConcatAssociative, ConcatProperties
    <3> QED BY <1>4, <1>11, <3>1, Zenon
  <2> QED BY <1>12, <2>1, <2>2
<1>14. PICK g : Leads(f, q, g) /\ Agree(t[1], d, g, U \cup Off(y, q))
  BY <1>9, <1>13 DEF Result
<1>15. Leads(e, back \o q, g) /\ back \o q \in Seq(Messages) /\ Off(y, back \o q) = Off(y, q)
  <2>1. Leads(e, back \o q, g)
    BY <1>4, <1>5, <1>13, <1>14, LeadsOn
  <2>2. back \o q \in Seq(Messages)
    BY <1>4, <1>13
  <2>3. ClearedZones(back \o q) = ClearedZones(back) \cup ClearedZones(q)
    BY <1>4, <1>13, ClearedOn
  <2> QED BY <1>4, <2>1, <2>2, <2>3 DEF Off
<1>16. SameWidgets(y, t[1])
  BY <1>9, <1>13 DEF Result
<1>17. Result(y, d, e, U, <<t[1], back \o q>>)
  <2>1. <<t[1], back \o q>>[1] = t[1] /\ <<t[1], back \o q>>[2] = back \o q
    OBVIOUS
  <2> QED BY <1>14, <1>15, <1>16, <2>1 DEF Result
<1> QED BY <1>6, <1>8, <1>10, <1>13, <1>17

(* What a handler changes besides what the device shows: the settings, the placeholders, the
   flashes and the hold-offs. *)
LEMMA Touched ==
  ASSUME NEW x, IsWidgets(x), NEW c \in [Ids -> [widget : Widgets, value : Nat]],
         NEW rf \in SUBSET Ids, NEW fl \in Nat, NEW h \in [Zones -> {"none", "on", "over"}],
         NEW y, y = [active |-> x.active, timer |-> x.timer, mode |-> x.mode, conf |-> c,
                     always |-> x.always, lastMask |-> x.lastMask, lastPainted |-> x.lastPainted,
                     hold |-> h, widgetOnZone |-> x.widgetOnZone, refreshing |-> rf,
                     shown |-> x.shown, flashes |-> fl]
  PROVE  /\ IsWidgets(y) /\ SameWidgets(x, y) /\ y.timer = x.timer
         /\ (\A z \in Zones : h[z] = "on" => x.hold[z] = "on") =>
              \A d, e, U : Agree(x, d, e, U) =>
                Ready(y, d, e, U) /\ ((fl = x.flashes \/ fl # 0) => Agree(y, d, e, U))
<1>1. /\ y.active = x.active /\ y.timer = x.timer /\ y.mode = x.mode /\ y.conf = c
      /\ y.always = x.always /\ y.lastMask = x.lastMask /\ y.lastPainted = x.lastPainted
      /\ y.hold = h /\ y.widgetOnZone = x.widgetOnZone /\ y.refreshing = rf
      /\ y.shown = x.shown /\ y.flashes = fl
  OBVIOUS
<1>2. IsWidgets(y)
  BY <1>1 DEF IsWidgets
<1>3. ASSUME \A z \in Zones : h[z] = "on" => x.hold[z] = "on", NEW d, NEW e, NEW U, Agree(x, d, e, U)
      PROVE  Ready(y, d, e, U) /\ ((fl = x.flashes \/ fl # 0) => Agree(y, d, e, U))
  <2>1. StripMask(y) = StripMask(x) /\ WidgetIds(y) = WidgetIds(x)
    BY <1>1 DEF StripMask, WidgetIds
  <2>2. Ready(y, d, e, U)
    BY <1>1, <1>2, <1>3, AgreeIsReady DEF Ready
  <2>3. (fl = x.flashes \/ fl # 0) => Agree(y, d, e, U)
    BY <1>1, <1>2, <1>3, <2>1 DEF Agree, Shows
  <2> QED BY <2>2, <2>3
<1>4. SameWidgets(x, y)
  BY <1>1 DEF SameWidgets
<1> QED BY <1>1, <1>2, <1>3, <1>4

(* A flash is up: the zone is drawn on, and what it shows is recorded nowhere. *)
LEMMA FlashLeads ==
  ASSUME NEW x, NEW d, NEW e, NEW U, Agree(x, d, e, U), x.flashes # 0, NEW i \in Ids,
         i \in Zones => x.mode # "elgato", NEW v \in Int,
         NEW q, q = <<[t |-> "paint", ids |-> {i}, pic |-> <<"flash", v>>]>>
  PROVE  /\ q \in Seq(Messages) /\ ClearedZones(q) = {}
         /\ \E f : Leads(e, q, f) /\ Agree(x, d, f, U \cup ({i} \cap Zones))
<1> DEFINE m == [t |-> "paint", ids |-> {i}, pic |-> <<"flash", v>>]
           f == Worked(e, m)
<1>1. m \in Messages /\ m.t # "clear" /\ m.ids = {i}
  BY DEF Messages, Pictures
<1>2. f = [e EXCEPT !.panel = [j \in Ids |-> IF j \notin m.ids THEN e.panel[j]
                                            ELSE IF m.t = "clear" THEN Black ELSE m.pic]]
  BY DEF Worked
<1>3. q = <<m>>
  OBVIOUS
<1> HIDE DEF m, f
<1>4. <<m>> \in Seq(Messages) /\ Len(<<m>>) = 1 /\ <<m>>[1] = m
  BY <1>1
<1>5. \A k \in 1 .. Len(<<m>>) : <<m>>[k].t # "clear"
  BY ONLY <1>1, <1>4
<1>6. q \in Seq(Messages) /\ ClearedZones(q) = {}
  BY <1>3, <1>4, <1>5, ClearedNone
<1>7. Leads(e, q, f)
  BY <1>3, LeadsOnce DEF f
<1>8. e = [rgb |-> e.rgb, mask |-> e.mask, always |-> e.always, panel |-> e.panel]
  BY DEF Agree, IsDevice
<1>9. PICK p : p = [j \in Ids |-> IF j \notin m.ids THEN e.panel[j]
                                  ELSE IF m.t = "clear" THEN Black ELSE m.pic]
  OBVIOUS
<1>10. f = [rgb |-> e.rgb, mask |-> e.mask, always |-> e.always, panel |-> p]
  BY ONLY <1>2, <1>8, <1>9
<1>11. f.rgb = e.rgb /\ f.mask = e.mask /\ f.always = e.always /\ f.panel = p
  BY ONLY <1>10
<1>12. p = [j \in Ids |-> p[j]] /\ \A j \in Ids : j # i => p[j] = e.panel[j]
  BY <1>1, <1>9
<1>13. IsDevice(f)
  BY <1>10, <1>11, <1>12 DEF IsDevice, Agree
<1>14. Agree(x, d, f, U \cup ({i} \cap Zones))
  <2>1. \A z \in Zones : z \in Ids
    BY DEF Ids
  <2> QED BY <1>11, <1>12, <1>13, <2>1 DEF Agree, Shows
<1> QED BY <1>6, <1>7, <1>14

(* The app draws: the worker uploads what the mask lets through, and the zones covered are no
   longer the widgets'. *)
Covered(x, noted) ==
  [x EXCEPT !.hold = [z \in Zones |-> IF z \in noted THEN "on" ELSE @[z]],
            !.lastPainted = [i \in Ids |-> IF i \in noted THEN NeverPainted ELSE @[i]],
            !.widgetOnZone = @ \ noted]
AppDrew(d, m) == [z \in Zones |-> IF m.ok /\ z \in m.ids THEN m.pic ELSE d[z]]

LEMMA FrameLeads ==
  ASSUME NEW x, NEW d, NEW e, NEW U, Agree(x, d, e, U),
         NEW m \in Messages, m.t = "frame", m.ids # {},
         NEW cover, cover = IF x.always /\ StripSurface THEN Zones ELSE m.ids,
         NEW noted, noted = IF x.mode = "deckbridge-repaint" THEN cover ELSE {},
         NEW y, y = Covered(x, noted), NEW c, c = AppDrew(d, m),
         NEW W, W = IF m.ok THEN U \ cover ELSE U \cup noted
  PROVE  Agree(y, c, Worked(e, m), W) /\ y.active = x.active /\ y.timer = x.timer /\ y.mode = x.mode
<1> DEFINE zs == m.ids
           ok == m.ok
           pic == m.pic
<1>0. \A z \in Zones : c[z] = IF ok /\ z \in zs THEN pic ELSE d[z]
  BY DEF AppDrew
<1>1. m.t = "frame" /\ m.ids = zs /\ m.pic = pic /\ m.ok = ok /\ ok \in BOOLEAN /\ zs \subseteq Zones
  BY DEF Messages
<1>2. /\ x = [active |-> x.active, timer |-> x.timer, mode |-> x.mode, conf |-> x.conf,
              always |-> x.always, lastMask |-> x.lastMask, lastPainted |-> x.lastPainted,
              hold |-> x.hold, widgetOnZone |-> x.widgetOnZone, refreshing |-> x.refreshing,
              shown |-> x.shown, flashes |-> x.flashes]
      /\ IsWidgets(x)
  BY FieldsOfWidgets DEF Agree
<1>3. PICK h : h = [z \in Zones |-> IF z \in noted THEN "on" ELSE x.hold[z]]
  OBVIOUS
<1>4. PICK p : p = [i \in Ids |-> IF i \in noted THEN NeverPainted ELSE x.lastPainted[i]]
  OBVIOUS
<1>5. y = [x EXCEPT !.hold = h, !.lastPainted = p, !.widgetOnZone = x.widgetOnZone \ noted]
  BY <1>3, <1>4 DEF Covered
<1>6. y = [active |-> x.active, timer |-> x.timer, mode |-> x.mode, conf |-> x.conf,
           always |-> x.always, lastMask |-> x.lastMask, lastPainted |-> p,
           hold |-> h, widgetOnZone |-> x.widgetOnZone \ noted, refreshing |-> x.refreshing,
           shown |-> x.shown, flashes |-> x.flashes]
  BY ONLY <1>2, <1>5
<1>7. /\ y.active = x.active /\ y.timer = x.timer /\ y.mode = x.mode /\ y.conf = x.conf
      /\ y.always = x.always /\ y.lastMask = x.lastMask /\ y.lastPainted = p
      /\ y.hold = h /\ y.widgetOnZone = x.widgetOnZone \ noted /\ y.refreshing = x.refreshing
      /\ y.shown = x.shown /\ y.flashes = x.flashes
  BY ONLY <1>6
<1>8. noted \subseteq Zones /\ cover \subseteq Zones /\ zs \subseteq cover /\ Zones \subseteq Ids
  BY <1>1 DEF Ids
<1>9. IsWidgets(y)
  <2>1. h \in [Zones -> {"none", "on", "over"}]
    BY <1>2, <1>3 DEF IsWidgets
  <2>2. p \in [Ids -> Int]
    BY <1>2, <1>4 DEF IsWidgets, NeverPainted
  <2>3. x.widgetOnZone \ noted \subseteq Zones
    BY <1>2 DEF IsWidgets
  <2>4. /\ x.active \in BOOLEAN /\ x.timer \in BOOLEAN /\ x.always \in BOOLEAN /\ x.mode \in Modes
        /\ x.conf \in [Ids -> [widget : Widgets, value : Nat]] /\ x.refreshing \subseteq Ids
        /\ x.shown \in [Ids -> Int] /\ x.flashes \in Nat
    BY <1>2 DEF IsWidgets
  <2> QED BY ONLY <1>6, <1>7, <2>1, <2>2, <2>3, <2>4 DEF IsWidgets
<1>10. StripMask(y) = StripMask(x) /\ WidgetIds(y) = WidgetIds(x)
  BY <1>7 DEF StripMask, WidgetIds
<1>11. /\ \A z \in Zones : y.hold[z] = "on" => z \notin y.widgetOnZone
       /\ y.mode # "deckbridge-repaint" => y.widgetOnZone = {}
  BY <1>3, <1>7 DEF Agree
<1>12. W \subseteq Zones
  BY <1>8 DEF Agree
<1>13. e = [rgb |-> e.rgb, mask |-> e.mask, always |-> e.always, panel |-> e.panel] /\ IsDevice(e)
  BY DEF Agree, IsDevice
<1>14. CASE ~ok
  <2>1. Worked(e, m) = e
    BY <1>1, <1>14 DEF Worked
  <2>2. \A z \in Zones : c[z] = d[z]
    BY <1>0, <1>14
  <2>3. \A i \in Ids : y.lastPainted[i] # NeverPainted => y.lastPainted[i] = x.lastPainted[i]
    BY <1>4, <1>7
  <2>4. x.mode = "deckbridge-repaint" =>
          \A z \in Zones \ (W \cup y.widgetOnZone) : z \in Zones \ (U \cup x.widgetOnZone)
    BY <1>7, <1>14
  <2>5. WidgetIds(x) \subseteq Ids
    BY DEF WidgetIds, Ids
  <2>6. U \subseteq W
    BY <1>14
  <2>7. Shows(y, c, e, W)
    <3> USE <1>7, <1>10, <2>2, <2>3, <2>4, <2>5, <2>6 DEF Agree, Shows
    <3>1. /\ e.mask = StripMask(y) /\ y.lastMask = StripMask(y) /\ e.always = y.always
          /\ \A z \in Zones : e.rgb[z] = c[z]
      OBVIOUS
    <3>2. y.flashes = 0 => \A i \in WidgetIds(y) : y.lastPainted[i] # NeverPainted =>
                        e.panel[i] = TextPic(y.lastPainted[i])
      OBVIOUS
    <3>3. y.mode = "elgato" => \A z \in Zones \ W : e.panel[z] = c[z]
      OBVIOUS
    <3>4. y.mode = "deckbridge-repaint" => \A z \in Zones \ (W \cup y.widgetOnZone) : e.panel[z] = c[z]
      OBVIOUS
    <3> QED BY <3>1, <3>2, <3>3, <3>4
  <2> QED BY <1>1, <1>7, <1>9, <1>11, <1>12, <1>13, <2>1, <2>7 DEF Agree
<1>15. CASE ok
  <2>1. PICK g : g = [z \in Zones |-> IF z \in zs THEN pic ELSE e.rgb[z]]
    OBVIOUS
  <2>2. PICK k : k = [rgb |-> g, mask |-> e.mask, always |-> e.always, panel |-> e.panel]
    OBVIOUS
  <2>3. k = [e EXCEPT !.rgb = g]
    BY ONLY <1>13, <2>2
  <2>4. PICK full \in BOOLEAN : full = ((e.always \/ zs = Zones) /\ StripSurface /\ e.mask = {})
    OBVIOUS
  <2>5. PICK up : up = IF full THEN Zones ELSE zs \ e.mask
    OBVIOUS
  <2>6. Worked(e, m) = [k EXCEPT !.panel = PutOnPanel(k, up)]
    <3>1. k = [e EXCEPT !.rgb = [z \in Zones |-> IF z \in m.ids THEN m.pic ELSE e.rgb[z]]]
      BY <1>1, <2>1, <2>3
    <3>2. Worked(e, m) = FrameUploaded(e, m)
      BY <1>1, <1>15 DEF Worked
    <3>3. FrameUploaded(e, m) = [k EXCEPT !.panel = PutOnPanel(k, IF (k.always \/ m.ids = Zones) /\ StripSurface
                                                          /\ k.mask = {} THEN Zones ELSE m.ids \ k.mask)]
      BY <3>1 DEF FrameUploaded
    <3>4. k.always = e.always /\ k.mask = e.mask
      BY ONLY <2>2
    <3>5. up = IF (k.always \/ m.ids = Zones) /\ StripSurface /\ k.mask = {} THEN Zones ELSE m.ids \ k.mask
      BY <1>1, <2>4, <2>5, <3>4
    <3> QED BY <3>2, <3>3, <3>5
  <2>7. PICK f : f = Worked(e, m)
    OBVIOUS
  <2>8. /\ f = [rgb |-> g, mask |-> e.mask, always |-> e.always, panel |-> PutOnPanel(k, up)]
        /\ f.rgb = g /\ f.mask = e.mask /\ f.always = e.always /\ f.panel = PutOnPanel(k, up)
    BY ONLY <2>2, <2>6, <2>7
  <2>9. IsDevice(f) /\ \A i \in Ids : f.panel[i] = IF i \in up THEN g[i] ELSE e.panel[i]
    <3>1. PutOnPanel(k, up) = [i \in Ids |-> IF i \in up THEN g[i] ELSE e.panel[i]]
      BY <2>2 DEF PutOnPanel
    <3>2. g = [z \in Zones |-> g[z]]
      BY <2>1
    <3> QED BY <2>8, <3>1, <3>2 DEF IsDevice
  <2>10. \A z \in Zones : g[z] = c[z]
    BY <1>0, <1>15, <2>1 DEF Agree, Shows
  <2>11. \A z \in Zones : z \notin zs => c[z] = d[z]
    BY <1>0, <1>15
  <2>12. up \subseteq Zones
    BY <1>1, <2>5
  <2>13. ASSUME x.mode = "elgato"
         PROVE  \A z \in Zones \ W : f.panel[z] = c[z]
    <3>1. e.mask = {} /\ e.always = x.always
      BY <2>13 DEF Agree, Shows, StripMask
    <3>2. cover \subseteq up
      BY <2>4, <2>5, <3>1
    <3> SUFFICES ASSUME NEW z \in Zones \ W PROVE f.panel[z] = c[z]
      OBVIOUS
    <3>3. CASE z \in up
      BY <1>8, <2>9, <2>10, <3>3
    <3>4. CASE z \notin up
      <4>1. z \notin cover /\ z \notin zs /\ z \notin U
        BY <1>8, <1>15, <3>2, <3>4
      <4> QED BY <1>8, <2>9, <2>11, <2>13, <3>4, <4>1 DEF Agree, Shows
    <3> QED BY <3>3, <3>4
  <2>14. ASSUME x.mode = "deckbridge-repaint"
         PROVE  /\ \A z \in Zones \ (W \cup y.widgetOnZone) : f.panel[z] = c[z]
                /\ up \subseteq noted
    <3>1. e.mask = {} /\ e.always = x.always /\ noted = cover
      BY <2>14 DEF Agree, Shows, StripMask
    <3>2. cover \subseteq up
      BY <2>4, <2>5, <3>1
    <3>3. up \subseteq noted
      BY <1>8, <2>4, <2>5, <3>1
    <3>4. ASSUME NEW z \in Zones \ (W \cup y.widgetOnZone) PROVE f.panel[z] = c[z]
      <4>1. CASE z \in up
        BY <1>8, <2>9, <2>10, <4>1
      <4>2. CASE z \notin up
        <5>1. z \notin cover /\ z \notin zs /\ z \notin U /\ z \notin x.widgetOnZone
          BY <1>7, <1>8, <1>15, <3>1, <3>2, <3>4, <4>2
        <5> QED BY <1>8, <2>9, <2>11, <2>14, <4>2, <5>1 DEF Agree, Shows
      <4> QED BY <4>1, <4>2
    <3> QED BY <3>3, <3>4
  <2>15. ASSUME y.flashes = 0, NEW i \in WidgetIds(y), y.lastPainted[i] # NeverPainted
         PROVE  f.panel[i] = TextPic(y.lastPainted[i])
    <3>1. i \in Ids /\ i \in WidgetIds(x)
      BY <1>10, <2>15 DEF WidgetIds, Ids
    <3>2. i \notin noted /\ y.lastPainted[i] = x.lastPainted[i]
      BY <1>4, <1>7, <2>15, <3>1
    <3>3. i \notin up
      <4>1. CASE x.mode = "elgato"
        BY <2>12, <3>1, <4>1, StripAssumption DEF WidgetIds
      <4>2. CASE x.mode = "deckbridge-repaint"
        BY <2>14, <3>2, <4>2
      <4>3. CASE x.mode = "deckbridge-ignore"
        BY <1>1, <2>4, <2>5, <4>3 DEF Agree, Shows, StripMask
      <4> QED BY <1>2, <4>1, <4>2, <4>3 DEF IsWidgets, Modes
    <3> QED BY <1>7, <2>9, <2>15, <3>1, <3>2, <3>3 DEF Agree, Shows
  <2>16. Shows(y, c, f, W)
    <3>1. /\ f.mask = StripMask(y) /\ y.lastMask = StripMask(y) /\ f.always = y.always
          /\ \A z \in Zones : f.rgb[z] = c[z]
      BY <1>7, <1>10, <2>8, <2>10 DEF Agree, Shows
    <3> QED BY <1>7, <2>13, <2>14, <2>15, <3>1 DEF Shows
  <2> QED BY <1>1, <1>7, <1>9, <1>11, <1>12, <2>7, <2>9, <2>16 DEF Agree
<1> QED BY <1>14, <1>15

(* Two runs of messages joined. *)
LEMMA LeadsJoined ==
  ASSUME NEW p \in Seq(Messages), NEW q \in Seq(Messages), NEW e, NEW f, NEW g,
         Leads(e, p, f), Leads(f, q, g)
  PROVE  p \o q \in Seq(Messages) /\ Leads(e, p \o q, g) /\ ClearedZones(p \o q) = ClearedZones(p) \cup ClearedZones(q)
<1>1. Leads(e, p \o q, g)
  BY LeadsOn
<1>2. p \o q \in Seq(Messages)
  OBVIOUS
<1> QED BY <1>1, <1>2, ClearedOn

(* A driver is attached: the worker starts afresh and is told the options and the mask. *)
AttachedObject(mode, conf, always) == [FreshWidgets(mode, conf, always) EXCEPT !.active = TRUE]
AttachedMasked(x) == PushMask(x, TRUE)
FreshDevice ==
  [rgb |-> [z \in Zones |-> Black], mask |-> {}, always |-> FALSE, panel |-> [i \in Ids |-> Black]]

Attached(d, run, q) ==
  /\ q \in Seq(Messages) /\ run[1].active /\ (run[1].timer \/ WidgetIds(run[1]) = {})
  /\ \E f, V : /\ Leads(FreshDevice, q, f) /\ Agree(run[1], d, f, V)
               /\ V = IF run[1].mode = "deckbridge-repaint" THEN ClearedZones(q) ELSE {}

LEMMA AttachLeads ==
  ASSUME NEW mode \in Modes, NEW conf \in [Ids -> [widget : Widgets, value : Nat]],
         NEW always \in BOOLEAN, NEW d, \A z \in Zones : d[z] = Black,
         NEW x, x = AttachedObject(mode, conf, always),
         NEW masked, masked = AttachedMasked(x), NEW run, run = EnsureTicking(masked[1]),
         NEW o, o = [t |-> "options", ids |-> {}, always |-> always],
         NEW q, q = <<o>> \o masked[2] \o run[2]
  PROVE  Attached(d, run, q)
<1>000. PICK e : e = FreshDevice
  OBVIOUS
<1>0. PICK lp, h, sh : /\ lp = [i \in Ids |-> NeverPainted] /\ h = [z \in Zones |-> "none"]
                       /\ sh = [i \in Ids |-> 0]
  OBVIOUS
<1>00. lp \in [Ids -> Int] /\ sh \in [Ids -> Int] /\ h \in [Zones -> {"none", "on", "over"}]
  BY <1>0 DEF NeverPainted
<1>1. x = [active |-> TRUE, timer |-> FALSE, mode |-> mode, conf |-> conf, always |-> always,
           lastMask |-> {}, lastPainted |-> lp,
           hold |-> h, widgetOnZone |-> {}, refreshing |-> {},
           shown |-> sh, flashes |-> 0]
  BY <1>0 DEF FreshWidgets, AttachedObject
<1>2. /\ x.active = TRUE /\ x.timer = FALSE /\ x.mode = mode /\ x.conf = conf /\ x.always = always
      /\ x.lastMask = {} /\ x.lastPainted = lp
      /\ x.hold = h /\ x.widgetOnZone = {} /\ x.refreshing = {}
      /\ x.shown = sh /\ x.flashes = 0
  BY ONLY <1>1
<1>3. IsWidgets(x)
  BY ONLY <1>00, <1>1, <1>2, mode \in Modes, conf \in [Ids -> [widget : Widgets, value : Nat]],
               always \in BOOLEAN DEF IsWidgets
<1>4. PICK w : w = [active |-> TRUE, timer |-> FALSE, mode |-> mode, conf |-> conf, always |-> always,
                    lastMask |-> StripMask(x), lastPainted |-> lp,
                    hold |-> h, widgetOnZone |-> {}, refreshing |-> {},
                    shown |-> sh, flashes |-> 0]
  OBVIOUS
<1>5. /\ w.active = TRUE /\ w.timer = FALSE /\ w.mode = mode /\ w.conf = conf /\ w.always = always
      /\ w.lastMask = StripMask(x) /\ w.lastPainted = lp
      /\ w.hold = h /\ w.widgetOnZone = {} /\ w.refreshing = {}
      /\ w.shown = sh /\ w.flashes = 0
  BY ONLY <1>4
<1>6. IsWidgets(w)
  BY <1>2, <1>3, <1>4, <1>5 DEF IsWidgets
<1>7. StripMask(w) = StripMask(x) /\ StripMask(x) \subseteq Zones
  BY <1>2, <1>5 DEF StripMask
<1>9. o \in Messages /\ o.t = "options" /\ o.always = always
  BY DEF Messages
<1>10. PICK e1 : e1 = [rgb |-> [z \in Zones |-> Black], mask |-> {}, always |-> always,
                       panel |-> [i \in Ids |-> Black]]
  OBVIOUS
<1>11. Worked(e, o) = e1
  <2>1. Worked(e, o) = [e EXCEPT !.always = always]
    BY <1>9 DEF Worked
  <2> QED BY <1>000, <1>10, <2>1 DEF FreshDevice
<1>12. PICK e2 : e2 = [rgb |-> [z \in Zones |-> Black], mask |-> StripMask(x), always |-> always,
                       panel |-> [i \in Ids |-> Black]]
  OBVIOUS
<1>13. PICK n : n = [t |-> "mask", ids |-> StripMask(x)]
  OBVIOUS
<1>14. n \in Messages /\ n.t = "mask" /\ n.ids = StripMask(x)
  BY <1>7, <1>13 DEF Messages, Ids
<1>15. Worked(e1, n) = e2
  <2>1. Worked(e1, n) = [e1 EXCEPT !.mask = StripMask(x), !.panel = PutOnPanel(e1, e1.mask \ StripMask(x))]
    BY <1>14 DEF Worked
  <2>2. PutOnPanel(e1, e1.mask \ StripMask(x)) = [i \in Ids |-> Black]
    BY <1>10 DEF PutOnPanel
  <2> QED BY <1>10, <1>12, <2>1, <2>2
<1>16. /\ e2.rgb = [z \in Zones |-> Black] /\ e2.mask = StripMask(x) /\ e2.always = always
       /\ e2.panel = [i \in Ids |-> Black]
       /\ e2 = [rgb |-> e2.rgb, mask |-> e2.mask, always |-> e2.always, panel |-> e2.panel]
  BY ONLY <1>12
<1>17. Agree(w, d, e2, {})
  <2>1. IsDevice(e2)
    BY <1>16 DEF IsDevice
  <2>2. \A z \in Zones : z \in Ids /\ e2.panel[z] = Black
    BY <1>16 DEF Ids
  <2>3. \A i \in WidgetIds(w) : w.lastPainted[i] = NeverPainted
    BY <1>0, <1>5 DEF WidgetIds, Ids
  <2>4. /\ e2.mask = StripMask(w) /\ w.lastMask = StripMask(w) /\ e2.always = w.always
        /\ \A z \in Zones : e2.rgb[z] = d[z]
    BY <1>5, <1>7, <1>16
  <2>5. \A z \in Zones : e2.panel[z] = d[z]
    BY <2>2
  <2>6. Shows(w, d, e2, {})
    BY <2>3, <2>4, <2>5 DEF Shows
  <2> QED BY <1>5, <1>6, <2>1, <2>6 DEF Agree
<1>18. /\ masked[1] = w /\ masked[2] \in Seq(Messages) /\ ClearedZones(masked[2]) = {}
       /\ Leads(e1, masked[2], e2)
  <2>1. CASE Zones # {}
    <3>1. masked = <<[x EXCEPT !.lastMask = StripMask(x)], <<n>>>>
      BY <1>2, <1>13, <2>1 DEF PushMask, AttachedMasked
    <3>2. [x EXCEPT !.lastMask = StripMask(x)] = w
      <4>1. PICK k : k = StripMask(x)
        OBVIOUS
      <4>2. [x EXCEPT !.lastMask = k] = w
        <5>1. x = [active |-> x.active, timer |-> x.timer, mode |-> x.mode, conf |-> x.conf,
                   always |-> x.always, lastMask |-> x.lastMask, lastPainted |-> x.lastPainted,
                   hold |-> x.hold, widgetOnZone |-> x.widgetOnZone, refreshing |-> x.refreshing,
                   shown |-> x.shown, flashes |-> x.flashes]
          BY <1>3, FieldsOfWidgets
        <5>2. [x EXCEPT !.lastMask = k] =
                [active |-> x.active, timer |-> x.timer, mode |-> x.mode, conf |-> x.conf,
                 always |-> x.always, lastMask |-> k, lastPainted |-> x.lastPainted,
                 hold |-> x.hold, widgetOnZone |-> x.widgetOnZone, refreshing |-> x.refreshing,
                 shown |-> x.shown, flashes |-> x.flashes]
          BY ONLY <5>1
        <5> QED BY ONLY <1>2, <1>4, <4>1, <5>2
      <4> QED BY ONLY <4>1, <4>2
    <3>3. <<n>> \in Seq(Messages) /\ Len(<<n>>) = 1 /\ <<n>>[1] = n
      BY <1>14
    <3>4. \A k \in 1 .. Len(<<n>>) : <<n>>[k].t # "clear"
      BY ONLY <1>14, <3>3
    <3>5. masked[1] = w /\ masked[2] = <<n>>
      BY ONLY <3>1, <3>2
    <3> QED BY <1>15, <3>3, <3>4, <3>5, LeadsOnce, ClearedNone
  <2>2. CASE Zones = {}
    <3>1. StripMask(x) = {}
      BY <1>7, <2>2
    <3>2. masked = <<x, << >>>>
      BY <2>2 DEF PushMask, AttachedMasked
    <3>3. x = w /\ e1 = e2
      BY ONLY <1>1, <1>4, <1>10, <1>12, <3>1
    <3>4. << >> \in Seq(Messages) /\ Len(<< >>) = 0
      OBVIOUS
    <3>5. \A k \in 1 .. Len(<< >>) : << >>[k].t # "clear"
      BY ONLY <3>4
    <3>6. masked[1] = w /\ masked[2] = << >>
      BY ONLY <3>2, <3>3
    <3> QED BY <3>3, <3>4, <3>5, <3>6, LeadsNowhere, ClearedNone
  <2> QED BY <2>1, <2>2
<1>19. Result(w, d, e2, {}, run) /\ (run[1].timer \/ WidgetIds(w) = {})
  BY <1>5, <1>17, <1>18, EnsureLeads
<1>20. /\ run[2] \in Seq(Messages) /\ run[1].active /\ run[1].mode = w.mode
       /\ (run[1].timer \/ WidgetIds(run[1]) = {})
  BY <1>5, <1>19 DEF Result, SameWidgets, WidgetIds
<1>21. PICK f : Leads(e2, run[2], f) /\ Agree(run[1], d, f, {} \cup Off(w, run[2]))
  BY <1>19 DEF Result
<1>22. <<o>> \in Seq(Messages) /\ ClearedZones(<<o>>) = {} /\ Leads(e, <<o>>, e1)
  <2>1. <<o>> \in Seq(Messages) /\ Len(<<o>>) = 1 /\ <<o>>[1] = o
    BY <1>9
  <2>2. \A k \in 1 .. Len(<<o>>) : <<o>>[k].t # "clear"
    BY ONLY <1>9, <2>1
  <2> QED BY <1>11, <2>1, <2>2, LeadsOnce, ClearedNone
<1>23. PICK p : p = <<o>> \o masked[2]
  OBVIOUS
<1>24. p \in Seq(Messages) /\ ClearedZones(p) = {} /\ Leads(e, p, e2)
  <2>1. p \in Seq(Messages) /\ Leads(e, p, e2) /\ ClearedZones(p) = ClearedZones(<<o>>) \cup ClearedZones(masked[2])
    BY ONLY <1>18, <1>22, <1>23, LeadsJoined
  <2> QED BY ONLY <1>18, <1>22, <2>1
<1>25. q = p \o run[2]
  BY <1>23
<1>26. q \in Seq(Messages) /\ ClearedZones(q) = ClearedZones(run[2]) /\ Leads(e, q, f)
  <2>1. q \in Seq(Messages) /\ Leads(e, q, f) /\ ClearedZones(q) = ClearedZones(p) \cup ClearedZones(run[2])
    BY ONLY <1>20, <1>21, <1>24, <1>25, LeadsJoined
  <2> QED BY ONLY <1>24, <2>1
<1>27. {} \cup Off(w, run[2]) = IF run[1].mode = "deckbridge-repaint" THEN ClearedZones(q) ELSE {}
  BY <1>20, <1>26 DEF Off
<1> QED BY <1>000, <1>20, <1>21, <1>26, <1>27 DEF Attached

(* What has which type, and what is recorded of what the device is going to show. *)
IsCanvas(c) == c = [rgb |-> c.rgb, mask |-> c.mask, always |-> c.always]

StripTyped ==
  /\ IsCanvas(canvas)
  /\ IsWidgets(wd) /\ IsDevice(Device) /\ sq \in Seq(Messages)
  /\ hist.frames \in Nat /\ hist.unrecorded \subseteq Zones
  /\ hist = [drawn |-> hist.drawn, unrecorded |-> hist.unrecorded, frames |-> hist.frames, ops |-> hist.ops]

StripFits ==
  /\ wd.active => /\ wd.timer \/ WidgetIds(wd) = {}
                  /\ \E e : Leads(Device, sq, e) /\ Agree(wd, hist.drawn, e, hist.unrecorded)
  /\ ~wd.active => sq = << >> /\ ~wd.timer /\ \A z \in Zones : hist.drawn[z] = Black

StripInv == StripTyped /\ StripFits

(* The zones drawn on unrecorded may be fewer by those put in widgetOnZone. *)
LEMMA Recorded ==
  ASSUME NEW x, NEW d, NEW e, NEW U, Agree(x, d, e, U), NEW V, V \subseteq Zones,
         x.mode # "deckbridge-ignore" => U \ x.widgetOnZone \subseteq V
  PROVE  Agree(x, d, e, V)
<1>1. ASSUME x.mode = "elgato" PROVE \A z \in Zones \ V : e.panel[z] = d[z]
  BY <1>1 DEF Agree, Shows
<1>2. ASSUME x.mode = "deckbridge-repaint"
      PROVE  \A z \in Zones \ (V \cup x.widgetOnZone) : e.panel[z] = d[z]
  <2> SUFFICES ASSUME NEW z \in Zones \ (V \cup x.widgetOnZone) PROVE e.panel[z] = d[z]
    OBVIOUS
  <2>1. z \in Zones \ (U \cup x.widgetOnZone)
    BY <1>2
  <2> QED BY <1>2, <2>1 DEF Agree, Shows
<1>3. Shows(x, d, e, V)
  BY <1>1, <1>2 DEF Agree, Shows
<1> QED BY <1>3 DEF Agree

(* The object becomes r[1] and r[2] is posted, with a driver attached. *)
LEMMA BecomesFits ==
  ASSUME StripTyped, NEW r, NEW more, more \subseteq Zones, StripBecomes(r, more), IsDevice(Device'),
         IsCanvas(canvas'),
         NEW e, Leads(Device', sq, e), r[2] \in Seq(Messages), NEW f, Leads(e, r[2], f),
         r[1].active, r[1].timer \/ WidgetIds(r[1]) = {}, NEW V, Agree(r[1], hist.drawn, f, V),
         V \subseteq hist.unrecorded \cup
                       (IF r[1].mode = "deckbridge-repaint" THEN ClearedZones(r[2]) \cup more ELSE {})
  PROVE  StripInv'
<1>1. wd' = r[1] /\ sq' = sq \o r[2]
  BY DEF StripBecomes
<1>2. PICK off : off = IF r[1].mode = "deckbridge-repaint" THEN ClearedZones(r[2]) \cup more ELSE {}
  OBVIOUS
<1>3. PICK un : un = IF r[1].mode = "deckbridge-ignore" THEN {}
                     ELSE (hist.unrecorded \cup off) \ r[1].widgetOnZone
  OBVIOUS
<1>4. PICK ops : ops = IF hist.ops < MaxStripOps THEN hist.ops + 1 ELSE hist.ops
  OBVIOUS
<1>5. hist' = [hist EXCEPT !.unrecorded = un, !.ops = ops]
  BY <1>2, <1>3, <1>4 DEF StripBecomes
<1>6. hist = [drawn |-> hist.drawn, unrecorded |-> hist.unrecorded, frames |-> hist.frames, ops |-> hist.ops]
  BY DEF StripTyped
<1>7. hist' = [drawn |-> hist.drawn, unrecorded |-> un, frames |-> hist.frames, ops |-> ops]
  BY ONLY <1>5, <1>6
<1>8. hist'.drawn = hist.drawn /\ hist'.unrecorded = un /\ hist'.frames = hist.frames /\ hist'.ops = ops
  BY ONLY <1>7
<1>9. off \subseteq Zones /\ un \subseteq Zones /\ V \subseteq hist.unrecorded \cup off
  BY <1>2, <1>3 DEF StripTyped, ClearedZones
<1>10. Agree(r[1], hist.drawn, f, un)
  <2>1. r[1].mode # "deckbridge-ignore" => V \ r[1].widgetOnZone \subseteq un
    BY <1>3, <1>9
  <2> QED BY <1>9, <2>1, Recorded
<1>11. Leads(Device', sq', f) /\ sq' \in Seq(Messages)
  <2>1. sq \in Seq(Messages) /\ sq \o r[2] \in Seq(Messages)
    BY DEF StripTyped
  <2>2. Leads(Device', sq \o r[2], f)
    BY <2>1, LeadsOn
  <2> QED BY <1>1, <2>1, <2>2
<1>12. IsWidgets(wd')
  BY <1>1, <1>10 DEF Agree
<1>13. hist.frames \in Nat
  BY DEF StripTyped
<1>14. StripTyped'
  BY <1>7, <1>8, <1>9, <1>11, <1>12, <1>13 DEF StripTyped
<1>15. StripFits'
  BY <1>1, <1>8, <1>10, <1>11 DEF StripFits
<1> QED BY <1>14, <1>15 DEF StripInv

(* A handler on the main thread leaves the device alone. *)
LEMMA DeviceKept ==
  ASSUME UNCHANGED <<canvas, panel>>
  PROVE  Device' = Device
BY DEF Device

(* The usual case: a handler with nothing drawn on the side. *)
LEMMA ActiveFits ==
  ASSUME StripInv, wd.active, NEW r, StripBecomes(r, {}), UNCHANGED <<canvas, panel>>,
         \A d, e, U : Agree(wd, d, e, U) => Result(wd, d, e, U, r)
  PROVE  StripInv'
<1>1. PICK e : Leads(Device, sq, e) /\ Agree(wd, hist.drawn, e, hist.unrecorded)
  BY DEF StripInv, StripFits
<1>2. Result(wd, hist.drawn, e, hist.unrecorded, r)
  BY <1>1
<1>3. PICK f : Leads(e, r[2], f) /\ Agree(r[1], hist.drawn, f, hist.unrecorded \cup Off(wd, r[2]))
  BY <1>2 DEF Result
<1>4. /\ r[2] \in Seq(Messages) /\ r[1].active /\ r[1].mode = wd.mode
      /\ r[1].timer \/ WidgetIds(r[1]) = {}
  BY <1>2 DEF Result, SameWidgets, StripInv, StripFits, WidgetIds
<1>5. Device' = Device /\ IsDevice(Device) /\ IsCanvas(canvas')
  BY DeviceKept DEF StripInv, StripTyped
<1>6. hist.unrecorded \cup Off(wd, r[2]) \subseteq
        hist.unrecorded \cup (IF r[1].mode = "deckbridge-repaint" THEN ClearedZones(r[2]) \cup {} ELSE {})
  BY <1>4 DEF Off
<1> QED BY <1>1, <1>3, <1>4, <1>5, <1>6, BecomesFits DEF StripInv

(* Without a driver only the object changes. *)
LEMMA InactiveFits ==
  ASSUME StripInv, ~wd.active, NEW y, IsWidgets(y), ~y.active, ~y.timer,
         StripBecomes(<<y, << >>>>, {}), UNCHANGED <<canvas, panel>>
  PROVE  StripInv'
<1>1. sq = << >> /\ \A z \in Zones : hist.drawn[z] = Black
  BY DEF StripInv, StripFits
<1>2. wd' = y /\ sq' = sq \o << >>
  BY DEF StripBecomes
<1>3. sq' = << >>
  BY <1>1, <1>2
<1>4. ClearedZones(<< >>) = {}
  <2>1. << >> \in Seq(Messages) /\ Len(<< >>) = 0
    OBVIOUS
  <2>2. \A k \in 1 .. Len(<< >>) : << >>[k].t # "clear"
    BY ONLY <2>1
  <2> QED BY <2>1, <2>2, ClearedNone
<1>5. PICK un : un = IF y.mode = "deckbridge-ignore" THEN {}
                     ELSE (hist.unrecorded \cup {}) \ y.widgetOnZone
  OBVIOUS
<1>6. PICK ops : ops = IF hist.ops < MaxStripOps THEN hist.ops + 1 ELSE hist.ops
  OBVIOUS
<1>7. hist' = [hist EXCEPT !.unrecorded = un, !.ops = ops]
  BY <1>4, <1>5, <1>6 DEF StripBecomes
<1>8. hist = [drawn |-> hist.drawn, unrecorded |-> hist.unrecorded, frames |-> hist.frames, ops |-> hist.ops]
  BY DEF StripInv, StripTyped
<1>9. hist' = [drawn |-> hist.drawn, unrecorded |-> un, frames |-> hist.frames, ops |-> ops]
  BY ONLY <1>7, <1>8
<1>10. hist'.drawn = hist.drawn /\ hist'.unrecorded = un /\ hist'.frames = hist.frames /\ hist'.ops = ops
  BY ONLY <1>9
<1>11. hist.frames \in Nat /\ un \subseteq Zones /\ IsDevice(Device) /\ Device' = Device
       /\ IsCanvas(canvas')
  BY <1>5, DeviceKept DEF StripInv, StripTyped
<1>12. StripTyped'
  <2>1. sq' \in Seq(Messages)
    BY <1>3
  <2> QED BY <1>2, <1>9, <1>10, <1>11, <2>1 DEF StripTyped
<1>13. StripFits'
  BY <1>1, <1>2, <1>3, <1>10 DEF StripFits
<1> QED BY <1>12, <1>13 DEF StripInv

(* A handler that changes settings, placeholders, flashes or hold-offs and repaints. *)
LEMMA RepaintFits ==
  ASSUME StripInv, NEW c \in [Ids -> [widget : Widgets, value : Nat]],
         NEW rf \in SUBSET Ids, NEW fl \in Nat, NEW h \in [Zones -> {"none", "on", "over"}],
         \A z \in Zones : h[z] = "on" => wd.hold[z] = "on",
         NEW y, y = [active |-> wd.active, timer |-> wd.timer, mode |-> wd.mode, conf |-> c,
                     always |-> wd.always, lastMask |-> wd.lastMask, lastPainted |-> wd.lastPainted,
                     hold |-> h, widgetOnZone |-> wd.widgetOnZone, refreshing |-> rf,
                     shown |-> wd.shown, flashes |-> fl],
         StripBecomes(RepaintStrip(y), {}), UNCHANGED <<canvas, panel>>
  PROVE  StripInv'
<1>1. IsWidgets(wd)
  BY DEF StripInv, StripTyped
<1>2. /\ IsWidgets(y) /\ SameWidgets(wd, y) /\ y.timer = wd.timer
      /\ \A d, e, U : Agree(wd, d, e, U) => Ready(y, d, e, U)
  BY <1>1, Touched
<1>3. CASE wd.active
  <2>1. y.active
    BY <1>2, <1>3 DEF SameWidgets
  <2>2. ASSUME NEW d, NEW e, NEW U, Agree(wd, d, e, U)
        PROVE  Result(wd, d, e, U, RepaintStrip(y))
    BY <1>2, <2>1, <2>2, RepaintLeads, ResultOfSame
  <2> QED BY <1>3, <2>2, ActiveFits
<1>4. CASE ~wd.active
  <2>1. ~y.active /\ ~y.timer
    BY <1>2, <1>4 DEF SameWidgets, StripInv, StripFits
  <2>2. RepaintStrip(y) = <<y, << >>>>
    BY <2>1 DEF RepaintStrip
  <2> QED BY <1>2, <1>4, <2>1, <2>2, InactiveFits
<1> QED BY <1>3, <1>4

(* The object's fields, with their types. *)
LEMMA WdFields ==
  ASSUME StripInv
  PROVE  /\ wd = [active |-> wd.active, timer |-> wd.timer, mode |-> wd.mode, conf |-> wd.conf,
                  always |-> wd.always, lastMask |-> wd.lastMask, lastPainted |-> wd.lastPainted,
                  hold |-> wd.hold, widgetOnZone |-> wd.widgetOnZone, refreshing |-> wd.refreshing,
                  shown |-> wd.shown, flashes |-> wd.flashes]
         /\ wd.conf \in [Ids -> [widget : Widgets, value : Nat]]
         /\ wd.refreshing \in SUBSET Ids /\ wd.flashes \in Nat
         /\ wd.hold \in [Zones -> {"none", "on", "over"}]
         /\ wd.mode \in Modes /\ wd.shown \in [Ids -> Int] /\ wd.always \in BOOLEAN
BY FieldsOfWidgets DEF StripInv, StripTyped, IsWidgets

(* One lemma per handler: an assignment, a placeholder's cap, the end of a flash, the timer. *)
LEMMA AssignFits ==
  ASSUME StripInv, NEW i \in Ids, NEW w \in Widgets, NEW v \in WidgetValues, AssignWidget(i, w, v)
  PROVE  StripInv'
<1>1. PICK c : c = [wd.conf EXCEPT ![i] = [widget |-> w, value |-> v]]
  OBVIOUS
<1>2. v \in Nat
  BY StripAssumption
<1>3. c \in [Ids -> [widget : Widgets, value : Nat]]
  BY <1>1, <1>2, WdFields
<1>4. PICK y : y = [wd EXCEPT !.conf[i] = [widget |-> w, value |-> v]]
  OBVIOUS
<1>5. y = [wd EXCEPT !.conf = c]
  BY <1>1, <1>4
<1>6. y = [active |-> wd.active, timer |-> wd.timer, mode |-> wd.mode, conf |-> c,
           always |-> wd.always, lastMask |-> wd.lastMask, lastPainted |-> wd.lastPainted,
           hold |-> wd.hold, widgetOnZone |-> wd.widgetOnZone, refreshing |-> wd.refreshing,
           shown |-> wd.shown, flashes |-> wd.flashes]
  BY <1>5, WdFields
<1>7. StripBecomes(RepaintStrip(y), {}) /\ UNCHANGED <<canvas, panel>>
  BY <1>4 DEF AssignWidget
<1> QED BY <1>3, <1>6, <1>7, WdFields, RepaintFits

LEMMA CapFits ==
  ASSUME StripInv, NEW i \in Ids, PlaceholderCap(i)
  PROVE  StripInv'
<1>1. PICK rf : rf = wd.refreshing \ {i}
  OBVIOUS
<1>2. rf \in SUBSET Ids
  BY <1>1, WdFields
<1>3. PICK y : y = [wd EXCEPT !.refreshing = rf]
  OBVIOUS
<1>4. y = [active |-> wd.active, timer |-> wd.timer, mode |-> wd.mode, conf |-> wd.conf,
           always |-> wd.always, lastMask |-> wd.lastMask, lastPainted |-> wd.lastPainted,
           hold |-> wd.hold, widgetOnZone |-> wd.widgetOnZone, refreshing |-> rf,
           shown |-> wd.shown, flashes |-> wd.flashes]
  BY <1>3, WdFields
<1>5. EndPlaceholder(wd, i) = RepaintStrip(y)
  BY <1>1, <1>3 DEF EndPlaceholder, PlaceholderCap
<1>6. StripBecomes(RepaintStrip(y), {}) /\ UNCHANGED <<canvas, panel>>
  BY <1>5 DEF PlaceholderCap
<1> QED BY <1>2, <1>4, <1>6, WdFields, RepaintFits

LEMMA FlashEndsFits ==
  ASSUME StripInv, FlashEnds
  PROVE  StripInv'
<1>1. PICK fl : fl = wd.flashes - 1
  OBVIOUS
<1>2. fl \in Nat
  BY <1>1, WdFields DEF FlashEnds
<1>3. PICK y : y = [wd EXCEPT !.flashes = fl]
  OBVIOUS
<1>4. y = [active |-> wd.active, timer |-> wd.timer, mode |-> wd.mode, conf |-> wd.conf,
           always |-> wd.always, lastMask |-> wd.lastMask, lastPainted |-> wd.lastPainted,
           hold |-> wd.hold, widgetOnZone |-> wd.widgetOnZone, refreshing |-> wd.refreshing,
           shown |-> wd.shown, flashes |-> fl]
  BY <1>3, WdFields
<1>5. StripBecomes(RepaintStrip(y), {}) /\ UNCHANGED <<canvas, panel>>
  BY <1>1, <1>3 DEF FlashEnds
<1> QED BY <1>2, <1>4, <1>5, WdFields, RepaintFits

LEMMA TimerTickFits ==
  ASSUME StripInv, TimerTick
  PROVE  StripInv'
<1>1. wd.active
  BY DEF TimerTick, StripInv, StripFits
<1>2. StripBecomes(StripTick(wd), {}) /\ UNCHANGED <<canvas, panel>>
  BY DEF TimerTick
<1> QED BY <1>1, <1>2, TickLeads, ActiveFits

(* A value changes: what a push does, and what a source does once it has settled. *)
LEMMA ValueConf ==
  ASSUME StripInv, NEW i \in Ids, NEW v \in WidgetValues
  PROVE  LET x == [wd EXCEPT !.conf[i].value = v]
         IN  /\ IsWidgets(x) /\ SameWidgets(wd, x) /\ x.timer = wd.timer
             /\ \A d, e, U : Agree(wd, d, e, U) => Ready(x, d, e, U) /\ Agree(x, d, e, U)
<1>1. PICK k : k = [wd.conf[i] EXCEPT !.value = v]
  OBVIOUS
<1>2. PICK c : c = [wd.conf EXCEPT ![i] = k]
  OBVIOUS
<1>3. v \in Nat /\ wd.conf[i] \in [widget : Widgets, value : Nat]
  BY WdFields, StripAssumption
<1>4. k \in [widget : Widgets, value : Nat]
  BY <1>1, <1>3
<1>5. c \in [Ids -> [widget : Widgets, value : Nat]]
  BY <1>2, <1>4, WdFields
<1>6. PICK x : x = [wd EXCEPT !.conf[i].value = v]
  OBVIOUS
<1>7. x = [wd EXCEPT !.conf = c]
  BY <1>1, <1>2, <1>6
<1>8. x = [active |-> wd.active, timer |-> wd.timer, mode |-> wd.mode, conf |-> c,
           always |-> wd.always, lastMask |-> wd.lastMask, lastPainted |-> wd.lastPainted,
           hold |-> wd.hold, widgetOnZone |-> wd.widgetOnZone, refreshing |-> wd.refreshing,
           shown |-> wd.shown, flashes |-> wd.flashes]
  BY <1>7, WdFields
<1>9. IsWidgets(wd)
  BY DEF StripInv, StripTyped
<1>10. /\ IsWidgets(x) /\ SameWidgets(wd, x) /\ x.timer = wd.timer
       /\ \A d, e, U : Agree(wd, d, e, U) => Ready(x, d, e, U) /\ Agree(x, d, e, U)
  <2>1. /\ IsWidgets(x) /\ SameWidgets(wd, x) /\ x.timer = wd.timer
        /\ (\A z \in Zones : wd.hold[z] = "on" => wd.hold[z] = "on") =>
             \A d, e, U : Agree(wd, d, e, U) =>
               Ready(x, d, e, U)
                 /\ ((wd.flashes = wd.flashes \/ wd.flashes # 0) => Agree(x, d, e, U))
    <3>1. /\ wd.refreshing \in SUBSET Ids /\ wd.flashes \in Nat
          /\ wd.hold \in [Zones -> {"none", "on", "over"}]
      BY WdFields
    <3> QED BY <1>5, <1>8, <1>9, <3>1, Touched
  <2> QED BY <2>1
<1> QED BY <1>6, <1>10

LEMMA ValueFits ==
  ASSUME StripInv, NEW i \in Ids, NEW v \in WidgetValues, NEW p \in BOOLEAN, ValueChanges(i, v, p)
  PROVE  StripInv'
<1>1. PICK x : x = [wd EXCEPT !.conf[i].value = v]
  OBVIOUS
<1>2. /\ IsWidgets(x) /\ SameWidgets(wd, x) /\ x.timer = wd.timer
      /\ \A d, e, U : Agree(wd, d, e, U) => Ready(x, d, e, U) /\ Agree(x, d, e, U)
  BY <1>1, ValueConf
<1>3. PICK r : r = IF p /\ x.timer THEN StripTick(x) ELSE <<x, << >>>>
  OBVIOUS
<1>4. StripBecomes(r, {}) /\ UNCHANGED <<canvas, panel>>
  BY <1>1, <1>3 DEF ValueChanges
<1>5. CASE wd.active
  <2>1. ASSUME NEW d, NEW e, NEW U, Agree(wd, d, e, U)
        PROVE  Result(wd, d, e, U, r)
    <3>1. x.active /\ Agree(x, d, e, U)
      BY <1>2, <1>5, <2>1 DEF SameWidgets
    <3>2. Result(x, d, e, U, r)
      BY <1>3, <3>1, TickLeads, ResultNothing
    <3> QED BY <1>2, <3>2, ResultOfSame
  <2> QED BY <1>4, <1>5, <2>1, ActiveFits
<1>6. CASE ~wd.active
  <2>1. ~x.active /\ ~x.timer
    BY <1>2, <1>6 DEF SameWidgets, StripInv, StripFits
  <2>2. r = <<x, << >>>>
    BY <1>3, <2>1
  <2> QED BY <1>2, <1>4, <1>6, <2>1, <2>2, InactiveFits
<1> QED BY <1>5, <1>6

LEMMA SettlesFits ==
  ASSUME StripInv, NEW i \in Ids, NEW v \in WidgetValues, SourceSettles(i, v)
  PROVE  StripInv'
<1>1. PICK x : x = [wd EXCEPT !.conf[i].value = v]
  OBVIOUS
<1>2. /\ IsWidgets(x) /\ SameWidgets(wd, x) /\ x.timer = wd.timer
      /\ \A d, e, U : Agree(wd, d, e, U) => Ready(x, d, e, U) /\ Agree(x, d, e, U)
  BY <1>1, ValueConf
<1>3. PICK u : u = RepaintStrip(x)
  OBVIOUS
<1>4. PICK r : r = FollowedBy(u, EndPlaceholder(u[1], i))
  OBVIOUS
<1>5. StripBecomes(r, {}) /\ UNCHANGED <<canvas, panel>>
  BY <1>1, <1>3, <1>4 DEF SourceSettles
<1>6. CASE wd.active
  <2>1. ASSUME NEW d, NEW e, NEW U, Agree(wd, d, e, U)
        PROVE  Result(wd, d, e, U, r)
    <3>1. x.active /\ Ready(x, d, e, U)
      BY <1>2, <1>6, <2>1 DEF SameWidgets
    <3>2. Result(x, d, e, U, u)
      BY <1>3, <3>1, RepaintLeads
    <3>3. u[1].active
      BY <3>1, <3>2 DEF Result, SameWidgets
    <3>4. \A f, V : Agree(u[1], d, f, V) => Result(u[1], d, f, V, EndPlaceholder(u[1], i))
      BY <3>3, EndLeads
    <3>5. Result(x, d, e, U, r)
      BY <1>4, <3>2, <3>4, ResultOn
    <3> QED BY <1>2, <3>5, ResultOfSame
  <2> QED BY <1>5, <1>6, <2>1, ActiveFits
<1>7. CASE ~wd.active
  <2>1. ~x.active /\ ~x.timer
    BY <1>2, <1>7 DEF SameWidgets, StripInv, StripFits
  <2>2. u = <<x, << >>>>
    BY <1>3, <2>1 DEF RepaintStrip
  <2>3. PICK y : y = IF i \in x.refreshing THEN [x EXCEPT !.refreshing = x.refreshing \ {i}] ELSE x
    OBVIOUS
  <2>4. IsWidgets(y) /\ ~y.active /\ ~y.timer
    <3>1. PICK rf \in SUBSET Ids : rf = IF i \in x.refreshing THEN x.refreshing \ {i} ELSE x.refreshing
      BY <1>2 DEF IsWidgets
    <3>2. y = [active |-> x.active, timer |-> x.timer, mode |-> x.mode, conf |-> x.conf,
               always |-> x.always, lastMask |-> x.lastMask, lastPainted |-> x.lastPainted,
               hold |-> x.hold, widgetOnZone |-> x.widgetOnZone, refreshing |-> rf,
               shown |-> x.shown, flashes |-> x.flashes]
      <4>1. x = [active |-> x.active, timer |-> x.timer, mode |-> x.mode, conf |-> x.conf,
                 always |-> x.always, lastMask |-> x.lastMask, lastPainted |-> x.lastPainted,
                 hold |-> x.hold, widgetOnZone |-> x.widgetOnZone, refreshing |-> x.refreshing,
                 shown |-> x.shown, flashes |-> x.flashes]
        BY <1>2, FieldsOfWidgets
      <4> QED BY ONLY <2>3, <3>1, <4>1
    <3>3. /\ x.conf \in [Ids -> [widget : Widgets, value : Nat]] /\ x.flashes \in Nat
          /\ x.hold \in [Zones -> {"none", "on", "over"}]
      BY <1>2 DEF IsWidgets
    <3> QED BY <1>2, <2>1, <3>2, <3>3, Touched DEF SameWidgets
  <2>5. r = <<y, << >>>>
    <3>1. EndPlaceholder(x, i) = <<y, << >>>>
      BY <2>1, <2>3, <2>4 DEF EndPlaceholder, RepaintStrip
    <3> QED BY <1>4, <2>2, <3>1 DEF FollowedBy
  <2> QED BY <1>5, <1>7, <2>4, <2>5, InactiveFits
<1> QED BY <1>6, <1>7

(* StripBecomes looks at the two parts of a result only. *)
LEMMA SameBecomes ==
  ASSUME NEW r, NEW s, r[1] = s[1], r[2] = s[2], NEW more, StripBecomes(r, more)
  PROVE  StripBecomes(s, more)
BY DEF StripBecomes

LEMMA EmptyJoins ==
  ASSUME NEW q \in Seq(Messages)
  PROVE  << >> \o q = q /\ q \o << >> = q
BY ConcatEmptySeq

(* A strip mode is set; a driver comes and goes; a hold-off passes. *)
LEMMA SetModeFits ==
  ASSUME StripInv, NEW m \in Modes, SetTouchStripMode(m)
  PROVE  StripInv'
<1>1. PICK y : y = [wd EXCEPT !.widgetOnZone = {}, !.mode = m]
  OBVIOUS
<1>2. PICK back : back = IF m = "elgato" THEN RestoreMessages(wd, wd.widgetOnZone) ELSE << >>
  OBVIOUS
<1>3. PICK r : r = <<EnsureTicking(RepaintStrip(y)[1])[1],
                     back \o RepaintStrip(y)[2] \o EnsureTicking(RepaintStrip(y)[1])[2]>>
  OBVIOUS
<1>4. m # wd.mode /\ StripBecomes(r, {}) /\ UNCHANGED <<canvas, panel>>
  BY <1>1, <1>2, <1>3 DEF SetTouchStripMode
<1>5. Device' = Device /\ IsDevice(Device) /\ IsCanvas(canvas')
  BY <1>4, DeviceKept DEF StripInv, StripTyped
<1>6. y = [active |-> wd.active, timer |-> wd.timer, mode |-> m, conf |-> wd.conf,
           always |-> wd.always, lastMask |-> wd.lastMask, lastPainted |-> wd.lastPainted,
           hold |-> wd.hold, widgetOnZone |-> {}, refreshing |-> wd.refreshing,
           shown |-> wd.shown, flashes |-> wd.flashes]
  BY <1>1, WdFields
<1>7. /\ y.active = wd.active /\ y.timer = wd.timer /\ y.mode = m /\ y.conf = wd.conf
      /\ y.always = wd.always /\ y.lastMask = wd.lastMask /\ y.lastPainted = wd.lastPainted
      /\ y.hold = wd.hold /\ y.widgetOnZone = {} /\ y.refreshing = wd.refreshing
      /\ y.shown = wd.shown /\ y.flashes = wd.flashes
  BY ONLY <1>6
<1>8. CASE wd.active
  <2>1. PICK e : Leads(Device, sq, e) /\ Agree(wd, hist.drawn, e, hist.unrecorded)
    BY <1>8 DEF StripInv, StripFits
  <2>2. Result(y, hist.drawn, e, hist.unrecorded, r) /\ (r[1].timer \/ WidgetIds(r[1]) = {})
    BY <1>1, <1>2, <1>3, <1>4, <1>8, <2>1, ModeLeads
  <2>3. PICK f : Leads(e, r[2], f) /\ Agree(r[1], hist.drawn, f, hist.unrecorded \cup Off(y, r[2]))
    BY <2>2 DEF Result
  <2>4. r[2] \in Seq(Messages) /\ r[1].active /\ r[1].mode = y.mode
    BY <1>7, <1>8, <2>2 DEF Result, SameWidgets
  <2>5. hist.unrecorded \cup Off(y, r[2]) \subseteq
          hist.unrecorded \cup (IF r[1].mode = "deckbridge-repaint" THEN ClearedZones(r[2]) \cup {} ELSE {})
    BY <2>4 DEF Off
  <2> QED BY <1>4, <1>5, <2>1, <2>2, <2>3, <2>4, <2>5, BecomesFits DEF StripInv
<1>9. CASE ~wd.active
  <2>1. ~y.active /\ ~y.timer
    BY <1>7, <1>9 DEF StripInv, StripFits
  <2>2. RepaintStrip(y) = <<y, << >>>> /\ EnsureTicking(y) = <<y, << >>>>
    BY <2>1 DEF RepaintStrip, EnsureTicking
  <2>3. back = << >>
    BY <1>2, <1>9 DEF RestoreMessages
  <2>4. << >> \in Seq(Messages)
    OBVIOUS
  <2>5. r[1] = y /\ r[2] = << >> \o << >> \o << >>
    BY ONLY <1>3, <2>2, <2>3
  <2>6. r[2] = << >>
    BY <2>4, <2>5, EmptyJoins
  <2>7. IsWidgets(y)
    <3>1. IsWidgets(wd)
      BY DEF StripInv, StripTyped
    <3> QED BY <1>6, <1>7, <3>1 DEF IsWidgets
  <2>8. StripBecomes(<<y, << >>>>, {})
    BY <1>4, <2>5, <2>6, SameBecomes
  <2> QED BY <1>4, <1>9, <2>1, <2>7, <2>8, InactiveFits
<1> QED BY <1>8, <1>9

LEMMA AttachFits ==
  ASSUME StripInv, NEW a \in BOOLEAN, Attach(a)
  PROVE  StripInv'
<1>1. PICK x : x = AttachedObject(wd.mode, wd.conf, a)
  OBVIOUS
<1>2. PICK masked : masked = AttachedMasked(x)
  OBVIOUS
<1>3. PICK run : run = EnsureTicking(masked[1])
  OBVIOUS
<1>4. PICK o : o = [t |-> "options", ids |-> {}, always |-> a]
  OBVIOUS
<1>5. PICK q : q = <<o>> \o masked[2] \o run[2]
  OBVIOUS
<1>6. /\ ~wd.active /\ sq = << >> /\ StripBecomes(<<run[1], q>>, {})
      /\ canvas' = EmptyCanvas /\ panel' = [i \in Ids |-> Black]
  BY <1>1, <1>2, <1>3, <1>4, <1>5 DEF Attach, AttachedObject, AttachedMasked
<1>7. Device' = FreshDevice /\ IsCanvas(canvas') /\ IsDevice(FreshDevice)
  BY <1>6 DEF Device, EmptyCanvas, IsCanvas, FreshDevice, IsDevice
<1>8. /\ wd.mode \in Modes /\ wd.conf \in [Ids -> [widget : Widgets, value : Nat]]
      /\ \A z \in Zones : hist.drawn[z] = Black
  BY <1>6, WdFields DEF StripInv, StripFits
<1>9. Attached(hist.drawn, run, q)
  BY <1>1, <1>2, <1>3, <1>4, <1>5, <1>8, AttachLeads, ZenonT(40)
<1>10. PICK f, V : /\ Leads(FreshDevice, q, f) /\ Agree(run[1], hist.drawn, f, V)
                   /\ V = IF run[1].mode = "deckbridge-repaint" THEN ClearedZones(q) ELSE {}
  BY <1>9 DEF Attached
<1>11. q \in Seq(Messages) /\ run[1].active /\ (run[1].timer \/ WidgetIds(run[1]) = {})
  BY <1>9 DEF Attached
<1>12. PICK r : r = <<run[1], q>>
  OBVIOUS
<1>13. r[1] = run[1] /\ r[2] = q /\ StripBecomes(r, {})
  BY <1>6, <1>12
<1>14. Leads(Device', sq, FreshDevice) /\ IsDevice(Device')
  BY <1>6, <1>7, LeadsNowhere
<1>15. V \subseteq
         hist.unrecorded \cup (IF r[1].mode = "deckbridge-repaint" THEN ClearedZones(r[2]) \cup {} ELSE {})
  BY <1>10, <1>13
<1> QED BY <1>7, <1>10, <1>11, <1>13, <1>14, <1>15, BecomesFits DEF StripInv

LEMMA DetachFits ==
  ASSUME StripInv, Detach
  PROVE  StripInv'
<1>1. PICK y : y = wd'
  OBVIOUS
<1>2. y = [wd EXCEPT !.active = FALSE, !.timer = FALSE, !.refreshing = {}, !.flashes = 0]
  BY <1>1 DEF Detach
<1>3. y = [active |-> FALSE, timer |-> FALSE, mode |-> wd.mode, conf |-> wd.conf,
           always |-> wd.always, lastMask |-> wd.lastMask, lastPainted |-> wd.lastPainted,
           hold |-> wd.hold, widgetOnZone |-> wd.widgetOnZone, refreshing |-> {},
           shown |-> wd.shown, flashes |-> 0]
  BY <1>2, WdFields
<1>4. /\ y.active = FALSE /\ y.timer = FALSE /\ y.mode = wd.mode /\ y.conf = wd.conf
      /\ y.always = wd.always /\ y.lastMask = wd.lastMask /\ y.lastPainted = wd.lastPainted
      /\ y.hold = wd.hold /\ y.widgetOnZone = wd.widgetOnZone /\ y.refreshing = {}
      /\ y.shown = wd.shown /\ y.flashes = 0
  BY ONLY <1>3
<1>5. IsWidgets(wd)
  BY DEF StripInv, StripTyped
<1>6. IsWidgets(y)
  BY <1>3, <1>4, <1>5 DEF IsWidgets
<1>7. PICK d : d = [z \in Zones |-> Black]
  OBVIOUS
<1>8. sq' = << >> /\ hist' = [hist EXCEPT !.drawn = d, !.unrecorded = {}] /\ UNCHANGED <<canvas, panel>>
  BY <1>7 DEF Detach
<1>9. hist = [drawn |-> hist.drawn, unrecorded |-> hist.unrecorded, frames |-> hist.frames, ops |-> hist.ops]
  BY DEF StripInv, StripTyped
<1>10. hist' = [drawn |-> d, unrecorded |-> {}, frames |-> hist.frames, ops |-> hist.ops]
  BY ONLY <1>8, <1>9
<1>11. hist'.drawn = d /\ hist'.unrecorded = {} /\ hist'.frames = hist.frames /\ hist'.ops = hist.ops
  BY ONLY <1>10
<1>12. Device' = Device /\ IsDevice(Device) /\ IsCanvas(canvas') /\ hist.frames \in Nat
  BY <1>8, DeviceKept DEF StripInv, StripTyped
<1>13. << >> \in Seq(Messages) /\ \A z \in Zones : d[z] = Black
  BY <1>7
<1> QED BY <1>1, <1>4, <1>6, <1>8, <1>10, <1>11, <1>12, <1>13 DEF StripInv, StripTyped, StripFits

LEMMA HoldOffFits ==
  ASSUME StripInv, NEW z \in Zones, HoldOffPasses(z)
  PROVE  StripInv'
<1>1. PICK h : h = [wd.hold EXCEPT ![z] = "over"]
  OBVIOUS
<1>2. h \in [Zones -> {"none", "on", "over"}] /\ \A k \in Zones : h[k] = "on" => wd.hold[k] = "on"
  BY <1>1, WdFields
<1>3. PICK y : y = wd'
  OBVIOUS
<1>4. y = [wd EXCEPT !.hold = h]
  BY <1>1, <1>3 DEF HoldOffPasses
<1>5. PICK c, rf, fl : c = wd.conf /\ rf = wd.refreshing /\ fl = wd.flashes
  OBVIOUS
<1>6. y = [active |-> wd.active, timer |-> wd.timer, mode |-> wd.mode, conf |-> c,
           always |-> wd.always, lastMask |-> wd.lastMask, lastPainted |-> wd.lastPainted,
           hold |-> h, widgetOnZone |-> wd.widgetOnZone, refreshing |-> rf,
           shown |-> wd.shown, flashes |-> fl]
  BY <1>4, <1>5, WdFields
<1>7. /\ IsWidgets(wd) /\ c \in [Ids -> [widget : Widgets, value : Nat]]
      /\ rf \in SUBSET Ids /\ fl \in Nat
  BY <1>5, WdFields DEF StripInv, StripTyped
<1>8. /\ IsWidgets(y) /\ SameWidgets(wd, y) /\ y.timer = wd.timer
      /\ \A d, e, U : Agree(wd, d, e, U) => Agree(y, d, e, U)
  <2>1. /\ IsWidgets(y) /\ SameWidgets(wd, y) /\ y.timer = wd.timer
        /\ \A d, e, U : Agree(wd, d, e, U) =>
             Ready(y, d, e, U) /\ ((fl = wd.flashes \/ fl # 0) => Agree(y, d, e, U))
    BY <1>2, <1>6, <1>7, Touched
  <2> QED BY <1>5, <2>1
<1>9. UNCHANGED <<sq, canvas, panel, hist>> /\ Device' = Device
  BY DeviceKept DEF HoldOffPasses
<1>10. StripTyped'
  BY <1>3, <1>8, <1>9 DEF StripInv, StripTyped
<1>11. StripFits'
  BY <1>3, <1>8, <1>9 DEF StripInv, StripFits, SameWidgets, WidgetIds
<1> QED BY <1>10, <1>11 DEF StripInv

(* A source is asked again; a frame of Elgato's app arrives. *)
LEMMA RefreshFits ==
  ASSUME StripInv, NEW i \in Ids, NEW fb, Refresh(i, fb)
  PROVE  StripInv'
<1> DEFINE visible == i \in Zones => OwnsZoneNow(wd, i)
           flash == visible /\ fb.flash
           holder == visible /\ fb.placeholder
           busy == wd.conf[i].widget = "source"
<1>1. PICK rf : rf = IF busy /\ holder THEN wd.refreshing \cup {i} ELSE wd.refreshing
  OBVIOUS
<1>2. PICK fl : fl = IF flash THEN wd.flashes + 1 ELSE wd.flashes
  OBVIOUS
<1>3. PICK h : h = [z \in Zones |-> IF z = i /\ wd.hold[z] = "over" THEN "none" ELSE wd.hold[z]]
  OBVIOUS
<1>4. PICK x : x = [wd EXCEPT !.refreshing = IF busy /\ holder THEN @ \cup {i} ELSE @,
                              !.flashes = IF flash THEN @ + 1 ELSE @,
                              !.hold = [z \in Zones |-> IF z = i /\ @[z] = "over" THEN "none" ELSE @[z]]]
  OBVIOUS
<1>5. x = [wd EXCEPT !.refreshing = rf, !.flashes = fl, !.hold = h]
  BY <1>1, <1>2, <1>3, <1>4
<1>6. PICK posted : posted = IF flash THEN <<[t |-> "paint", ids |-> {i}, pic |-> <<"flash", wd.shown[i]>>]>>
                             ELSE << >>
  OBVIOUS
<1>7. PICK after : after = IF ~flash /\ (~busy \/ holder) THEN RepaintStrip(x) ELSE <<x, << >>>>
  OBVIOUS
<1>8. PICK more : more = IF flash THEN {i} \cap Zones ELSE {}
  OBVIOUS
<1>9. PICK r : r = <<after[1], posted \o after[2]>>
  OBVIOUS
<1>10. /\ wd.active /\ i \in WidgetIds(wd) /\ UNCHANGED <<canvas, panel>>
       /\ StripBecomes(r, more)
  BY <1>4, <1>6, <1>7, <1>8, <1>9 DEF Refresh
<1>11. visible => (i \in Zones => wd.mode # "elgato")
  BY DEF OwnsZoneNow
<1>12. \/ flash
       \/ ~flash /\ after = RepaintStrip(x)
       \/ ~flash /\ after = <<x, << >>>>
  BY <1>7
<1>13. flash => /\ after = <<x, << >>>> /\ more = {i} \cap Zones /\ fl = wd.flashes + 1
                /\ posted = <<[t |-> "paint", ids |-> {i}, pic |-> <<"flash", wd.shown[i]>>]>>
                /\ (i \in Zones => wd.mode # "elgato")
  BY <1>2, <1>6, <1>7, <1>8, <1>11
<1>14. ~flash => posted = << >> /\ more = {} /\ fl = wd.flashes
  BY <1>2, <1>6, <1>8
<1>15. rf \in SUBSET Ids /\ fl \in Nat
  BY <1>1, <1>2, WdFields
<1> HIDE DEF visible, flash, holder, busy
<1>16. /\ h \in [Zones -> {"none", "on", "over"}] /\ \A z \in Zones : h[z] = "on" => wd.hold[z] = "on"
       /\ wd.conf \in [Ids -> [widget : Widgets, value : Nat]] /\ wd.flashes \in Nat
       /\ wd.shown[i] \in Int
  BY <1>3, WdFields
<1>17. x = [active |-> wd.active, timer |-> wd.timer, mode |-> wd.mode, conf |-> wd.conf,
            always |-> wd.always, lastMask |-> wd.lastMask, lastPainted |-> wd.lastPainted,
            hold |-> h, widgetOnZone |-> wd.widgetOnZone, refreshing |-> rf,
            shown |-> wd.shown, flashes |-> fl]
  BY <1>5, WdFields
<1>18. IsWidgets(wd) /\ IsDevice(Device) /\ Device' = Device /\ IsCanvas(canvas')
  BY <1>10, DeviceKept DEF StripInv, StripTyped
<1>19. /\ IsWidgets(x) /\ SameWidgets(wd, x) /\ x.timer = wd.timer
       /\ \A d, e, U : Agree(wd, d, e, U) =>
            Ready(x, d, e, U) /\ ((fl = wd.flashes \/ fl # 0) => Agree(x, d, e, U))
  BY <1>15, <1>16, <1>17, <1>18, Touched
<1>20. << >> \in Seq(Messages)
  OBVIOUS
<1>21. x.active /\ x.mode = wd.mode
  BY <1>10, <1>19 DEF SameWidgets
<1>22. CASE flash
  <2>1. PICK e : Leads(Device, sq, e) /\ Agree(wd, hist.drawn, e, hist.unrecorded)
    BY <1>10 DEF StripInv, StripFits
  <2>2. Agree(x, hist.drawn, e, hist.unrecorded) /\ x.flashes # 0
    <3>1. fl # 0
      BY <1>13, <1>16, <1>22
    <3>2. x.flashes = fl
      BY ONLY <1>17
    <3> QED BY <1>19, <2>1, <3>1, <3>2
  <2>3. /\ posted \in Seq(Messages) /\ ClearedZones(posted) = {}
        /\ \E f : Leads(e, posted, f)
                    /\ Agree(x, hist.drawn, f, hist.unrecorded \cup ({i} \cap Zones))
    BY <1>13, <1>16, <1>21, <1>22, <2>2, FlashLeads
  <2>4. PICK f : Leads(e, posted, f) /\ Agree(x, hist.drawn, f, hist.unrecorded \cup ({i} \cap Zones))
    BY <2>3
  <2>5. r[1] = x /\ r[2] = posted
    <3>1. after[1] = x /\ after[2] = << >>
      BY ONLY <1>13, <1>22
    <3>2. posted \o << >> = posted
      BY <2>3, EmptyJoins
    <3> QED BY ONLY <1>9, <3>1, <3>2
  <2>6. PICK V : V = IF wd.mode = "deckbridge-repaint" THEN hist.unrecorded \cup ({i} \cap Zones)
                     ELSE hist.unrecorded
    OBVIOUS
  <2>7. Agree(x, hist.drawn, f, V)
    <3>1. hist.unrecorded \subseteq Zones
      BY DEF StripInv, StripTyped
    <3>2. V \subseteq Zones
      BY <2>6, <3>1
    <3>3. wd.mode = "elgato" => {i} \cap Zones = {}
      BY <1>13, <1>22
    <3>4. wd.mode \in Modes
      BY WdFields
    <3>5. x.mode # "deckbridge-ignore" =>
            (hist.unrecorded \cup ({i} \cap Zones)) \ x.widgetOnZone \subseteq V
      BY <1>21, <2>6, <3>3, <3>4 DEF Modes
    <3> QED BY <2>4, <3>2, <3>5, Recorded
  <2>8. V \subseteq hist.unrecorded \cup
                      (IF r[1].mode = "deckbridge-repaint" THEN ClearedZones(r[2]) \cup more ELSE {})
    BY <1>13, <1>21, <1>22, <2>5, <2>6
  <2>9. r[1].active /\ (r[1].timer \/ WidgetIds(r[1]) = {})
    BY <1>10, <1>19, <1>21, <2>5 DEF StripInv, StripFits, WidgetIds
  <2>10. more \subseteq Zones
    BY <1>13, <1>22
  <2> QED BY <1>10, <1>18, <2>1, <2>3, <2>4, <2>5, <2>7, <2>8, <2>9, <2>10, BecomesFits DEF StripInv
<1>23. CASE ~flash /\ after = RepaintStrip(x)
  <2>1. PICK e : Leads(Device, sq, e) /\ Agree(wd, hist.drawn, e, hist.unrecorded)
    BY <1>10 DEF StripInv, StripFits
  <2>2. Result(x, hist.drawn, e, hist.unrecorded, RepaintStrip(x))
    BY <1>19, <1>21, <2>1, RepaintLeads
  <2>3. after[2] \in Seq(Messages)
    BY <1>23, <2>2 DEF Result
  <2>4. r[1] = after[1] /\ r[2] = after[2]
    BY <1>9, <1>14, <1>23, <2>3, EmptyJoins
  <2>5. StripBecomes(RepaintStrip(x), {})
    BY <1>10, <1>14, <1>23, <2>4, SameBecomes
  <2> QED BY <1>10, <1>15, <1>16, <1>17, <2>5, RepaintFits
<1>24. CASE ~flash /\ after = <<x, << >>>>
  <2>1. r[1] = x /\ r[2] = << >>
    BY <1>9, <1>14, <1>20, <1>24, EmptyJoins
  <2>2. PICK s : s = <<x, << >>>>
    OBVIOUS
  <2>3. s[1] = r[1] /\ s[2] = r[2] /\ StripBecomes(s, {})
    BY <1>10, <1>14, <1>24, <2>1, <2>2, SameBecomes
  <2>4. ASSUME NEW d, NEW e, NEW U, Agree(wd, d, e, U)
        PROVE  Result(wd, d, e, U, s)
    <3>1. Agree(x, d, e, U)
      BY <1>14, <1>19, <1>24, <2>4
    <3> QED BY <1>19, <2>2, <3>1, ResultNothing, ResultOfSame
  <2> QED BY <1>10, <2>3, <2>4, ActiveFits
<1> QED BY <1>12, <1>13, <1>22, <1>23, <1>24

LEMMA AppFrameFits ==
  ASSUME StripInv, NEW zs \in SUBSET Zones, NEW ok \in BOOLEAN, AppFrame(zs, ok)
  PROVE  StripInv'
<1>1. PICK pic : pic = <<"app", hist.frames + 1>>
  OBVIOUS
<1>2. PICK cover : cover = NotedZones(zs)
  OBVIOUS
<1>3. PICK noted : noted = IF wd.mode = "deckbridge-repaint" THEN cover ELSE {}
  OBVIOUS
<1>4. PICK m : m = [t |-> "frame", ids |-> zs, pic |-> pic, ok |-> ok]
  OBVIOUS
<1>5. PICK c : c = AppDrew(hist.drawn, m)
  OBVIOUS
<1>6. PICK W : W = IF m.ok THEN hist.unrecorded \ cover ELSE hist.unrecorded \cup noted
  OBVIOUS
<1>7. PICK y : y = wd'
  OBVIOUS
<1>8. PICK fr : fr = hist.frames + 1
  OBVIOUS
<1>9. /\ wd.active /\ zs # {} /\ sq' = Append(sq, m) /\ UNCHANGED <<canvas, panel>>
      /\ y = Covered(wd, noted)
      /\ hist' = [hist EXCEPT !.frames = fr, !.drawn = c, !.unrecorded = W]
  BY <1>1, <1>2, <1>3, <1>4, <1>5, <1>6, <1>7, <1>8 DEF AppFrame, Covered, AppDrew
<1>10. hist = [drawn |-> hist.drawn, unrecorded |-> hist.unrecorded, frames |-> hist.frames, ops |-> hist.ops]
  BY DEF StripInv, StripTyped
<1>11. hist' = [drawn |-> c, unrecorded |-> W, frames |-> fr, ops |-> hist.ops]
  BY ONLY <1>9, <1>10
<1>12. hist'.drawn = c /\ hist'.unrecorded = W /\ hist'.frames = fr /\ hist'.ops = hist.ops
  BY ONLY <1>11
<1>13. hist.frames \in Nat /\ fr \in Nat /\ pic \in Pictures
  BY <1>1, <1>8 DEF StripInv, StripTyped, Pictures
<1>14. cover = IF wd.always /\ StripSurface THEN Zones ELSE zs
  BY <1>2 DEF NotedZones
<1>16. PICK e : Leads(Device, sq, e) /\ Agree(wd, hist.drawn, e, hist.unrecorded)
  BY <1>9 DEF StripInv, StripFits
<1>17. PICK f : f = Worked(e, m)
  OBVIOUS
<1>15. m \in Messages /\ m.t = "frame" /\ m.ids = zs /\ m.ok = ok /\ m.pic = pic
  BY <1>4, <1>13 DEF Messages
<1>18. /\ Agree(y, c, f, W) /\ y.active = wd.active
       /\ y.timer = wd.timer /\ y.mode = wd.mode
  <2>1. m.ids # {} /\ cover = IF wd.always /\ StripSurface THEN Zones ELSE m.ids
    BY ONLY <1>9, <1>14, <1>15
  <2>2. m \in Messages /\ m.t = "frame" /\ y = Covered(wd, noted)
    BY ONLY <1>9, <1>15
  <2> QED BY ONLY <1>3, <1>5, <1>6, <1>16, <1>17, <2>1, <2>2, FrameLeads
<1>19. sq \in Seq(Messages) /\ IsDevice(Device) /\ Device' = Device /\ IsCanvas(canvas')
  BY <1>9, DeviceKept DEF StripInv, StripTyped
<1>20. sq' = sq \o <<m>> /\ <<m>> \in Seq(Messages) /\ sq' \in Seq(Messages)
  BY <1>9, <1>15, <1>19, AppendIsConcat
<1>21. Leads(Device', sq', f)
  BY <1>16, <1>17, <1>19, <1>20, LeadsOnce, LeadsOn
<1>22. IsWidgets(wd') /\ W \subseteq Zones
  BY <1>7, <1>18 DEF Agree
<1>23. StripTyped'
  BY <1>11, <1>12, <1>13, <1>19, <1>20, <1>22 DEF StripTyped
<1>24. StripFits'
  BY <1>7, <1>9, <1>12, <1>18, <1>21 DEF StripInv, StripFits, WidgetIds
<1> QED BY <1>23, <1>24 DEF StripInv

(* The worker handles the message posted first. *)
LEMMA WorkerFits ==
  ASSUME StripInv, StripWorker
  PROVE  StripInv'
<1>1. /\ sq # << >> /\ sq' = Tail(sq) /\ wd' = wd /\ hist' = hist
      /\ sq \in Seq(Messages) /\ IsDevice(Device) /\ IsCanvas(canvas)
  BY DEF StripWorker, StripInv, StripTyped
<1>2. wd.active
  BY <1>1 DEF StripInv, StripFits
<1>3. PICK m : m = Head(sq)
  OBVIOUS
<1>4. m \in Messages /\ sq' \in Seq(Messages)
  BY <1>1, <1>3
<1>5. canvas = [rgb |-> canvas.rgb, mask |-> canvas.mask, always |-> canvas.always]
  BY <1>1 DEF IsCanvas
<1>6. PICK e : e = Device
  OBVIOUS
<1>7. /\ e = [rgb |-> canvas.rgb, mask |-> canvas.mask, always |-> canvas.always, panel |-> panel]
      /\ e.rgb = canvas.rgb /\ e.mask = canvas.mask /\ e.always = canvas.always /\ e.panel = panel
  BY <1>6 DEF Device
<1>8. /\ canvas.rgb = [z \in Zones |-> canvas.rgb[z]] /\ panel = [i \in Ids |-> panel[i]]
  BY <1>1 DEF IsDevice, Device
<1>9. \A zs : PutOnPanel(e, zs) = ZonesDrawn(canvas, zs)
  BY <1>7 DEF PutOnPanel, ZonesDrawn
<1>10. \A c, zs : ZonesDrawn(c, zs) = [i \in Ids |-> ZonesDrawn(c, zs)[i]]
  BY DEF ZonesDrawn
<1> DEFINE Goal == /\ Device' = Worked(e, m) /\ IsCanvas(canvas')
                   /\ canvas'.rgb = [z \in Zones |-> canvas'.rgb[z]]
                   /\ panel' = [i \in Ids |-> panel'[i]]
<1>11. ASSUME m.t = "frame" /\ m.ok /\ Applied(m)
       PROVE  Goal
  <2>1. PICK g : g = [z \in Zones |-> IF z \in m.ids THEN m.pic ELSE canvas.rgb[z]]
    OBVIOUS
  <2>2. PICK c : c = [canvas EXCEPT !.rgb = g]
    OBVIOUS
  <2>3. /\ c = [rgb |-> g, mask |-> canvas.mask, always |-> canvas.always]
        /\ c.rgb = g /\ c.mask = canvas.mask /\ c.always = canvas.always
    BY ONLY <1>5, <2>2
  <2>4. PICK up : up = IF (c.always \/ m.ids = Zones) /\ StripSurface /\ c.mask = {} THEN Zones
                       ELSE m.ids \ c.mask
    OBVIOUS
  <2>5. canvas' = c /\ panel' = ZonesDrawn(c, up)
    BY <1>11, <2>1, <2>2, <2>4 DEF Applied
  <2>6. PICK k : k = [e EXCEPT !.rgb = g]
    OBVIOUS
  <2>7. /\ k = [rgb |-> g, mask |-> canvas.mask, always |-> canvas.always, panel |-> panel]
        /\ k.rgb = g /\ k.mask = canvas.mask /\ k.always = canvas.always /\ k.panel = panel
    BY ONLY <1>7, <2>6
  <2>8. Worked(e, m) = [k EXCEPT !.panel = PutOnPanel(k, up)]
    <3>1. Worked(e, m) = FrameUploaded(e, m)
      BY <1>11 DEF Worked
    <3>2. k = [e EXCEPT !.rgb = [z \in Zones |-> IF z \in m.ids THEN m.pic ELSE e.rgb[z]]]
      BY <1>7, <2>1, <2>6
    <3>3. FrameUploaded(e, m) = [k EXCEPT !.panel = PutOnPanel(k, IF (k.always \/ m.ids = Zones) /\ StripSurface
                                                          /\ k.mask = {} THEN Zones ELSE m.ids \ k.mask)]
      BY <3>2 DEF FrameUploaded
    <3>4. up = IF (k.always \/ m.ids = Zones) /\ StripSurface /\ k.mask = {} THEN Zones ELSE m.ids \ k.mask
      BY <2>3, <2>4, <2>7
    <3> QED BY <3>1, <3>3, <3>4
  <2>9. PutOnPanel(k, up) = ZonesDrawn(c, up)
    BY <2>3, <2>7 DEF PutOnPanel, ZonesDrawn
  <2>10. [k EXCEPT !.panel = PutOnPanel(k, up)] =
           [rgb |-> g, mask |-> canvas.mask, always |-> canvas.always, panel |-> PutOnPanel(k, up)]
    BY ONLY <2>7
  <2>11. Device' = [rgb |-> g, mask |-> canvas.mask, always |-> canvas.always, panel |-> PutOnPanel(k, up)]
    BY <2>3, <2>5, <2>9 DEF Device
  <2>12. Device' = Worked(e, m)
    BY <2>8, <2>10, <2>11
  <2>13. IsCanvas(canvas')
    BY <2>3, <2>5 DEF IsCanvas
  <2>14. canvas'.rgb = [z \in Zones |-> canvas'.rgb[z]] /\ panel' = [i \in Ids |-> panel'[i]]
    BY <1>10, <2>1, <2>3, <2>5
  <2> QED BY <2>12, <2>13, <2>14
<1>12. ASSUME m.t = "frame" /\ ~m.ok /\ UNCHANGED <<canvas, panel>>
       PROVE  Goal
  <2>1. Worked(e, m) = e
    BY <1>12 DEF Worked
  <2> QED BY <1>1, <1>6, <1>8, <1>12, <2>1 DEF Device
<1>13. ASSUME /\ m.t = "mask" /\ canvas' = [canvas EXCEPT !.mask = m.ids]
              /\ panel' = ZonesDrawn(canvas, canvas.mask \ m.ids)
       PROVE  Goal
  <2>1. PICK up : up = canvas.mask \ m.ids
    OBVIOUS
  <2>2. PICK ids : ids = m.ids
    OBVIOUS
  <2>3. Worked(e, m) = [e EXCEPT !.mask = ids, !.panel = PutOnPanel(e, up)]
    BY <1>7, <1>13, <2>1, <2>2 DEF Worked
  <2>4. Worked(e, m) = [rgb |-> canvas.rgb, mask |-> ids, always |-> canvas.always, panel |-> PutOnPanel(e, up)]
    BY ONLY <1>7, <2>3
  <2>5. /\ canvas' = [rgb |-> canvas.rgb, mask |-> ids, always |-> canvas.always]
        /\ canvas'.rgb = canvas.rgb /\ canvas'.mask = ids /\ canvas'.always = canvas.always
    <3>1. canvas' = [canvas EXCEPT !.mask = ids]
      BY <1>13, <2>2
    <3> QED BY ONLY <1>5, <3>1
  <2>6. panel' = PutOnPanel(e, up)
    BY <1>9, <1>13, <2>1
  <2>7. Device' = Worked(e, m)
    BY <2>4, <2>5, <2>6 DEF Device
  <2>8. IsCanvas(canvas')
    BY <2>5 DEF IsCanvas
  <2>9. panel' = [i \in Ids |-> panel'[i]]
    BY <1>10, <1>13
  <2>10. canvas'.rgb = [z \in Zones |-> canvas'.rgb[z]]
    BY ONLY <1>8, <2>5
  <2> QED BY ONLY <2>7, <2>8, <2>9, <2>10
<1>14. ASSUME m.t = "restore" /\ panel' = ZonesDrawn(canvas, m.ids) /\ UNCHANGED canvas
       PROVE  Goal
  <2>1. Worked(e, m) = [e EXCEPT !.panel = PutOnPanel(e, m.ids)]
    BY <1>14 DEF Worked
  <2>2. PICK p : p = PutOnPanel(e, m.ids)
    OBVIOUS
  <2>3. Worked(e, m) = [rgb |-> canvas.rgb, mask |-> canvas.mask, always |-> canvas.always, panel |-> p]
    BY ONLY <1>7, <2>1, <2>2
  <2>4. panel' = p
    BY <1>9, <1>14, <2>2
  <2>5. Device' = Worked(e, m)
    BY <1>14, <2>3, <2>4 DEF Device
  <2> QED BY <1>1, <1>8, <1>10, <1>14, <2>5
<1>15. ASSUME m.t = "options" /\ canvas' = [canvas EXCEPT !.always = m.always] /\ UNCHANGED panel
       PROVE  Goal
  <2>1. PICK a : a = m.always
    OBVIOUS
  <2>2. Worked(e, m) = [e EXCEPT !.always = a]
    BY <1>15, <2>1 DEF Worked
  <2>3. Worked(e, m) = [rgb |-> canvas.rgb, mask |-> canvas.mask, always |-> a, panel |-> panel]
    BY ONLY <1>7, <2>2
  <2>4. /\ canvas' = [rgb |-> canvas.rgb, mask |-> canvas.mask, always |-> a]
        /\ canvas'.rgb = canvas.rgb /\ canvas'.mask = canvas.mask /\ canvas'.always = a
    <3>1. canvas' = [canvas EXCEPT !.always = a]
      BY <1>15, <2>1
    <3> QED BY ONLY <1>5, <3>1
  <2>5. Device' = Worked(e, m)
    BY <1>15, <2>3, <2>4 DEF Device
  <2>6. IsCanvas(canvas')
    BY <2>4 DEF IsCanvas
  <2> QED BY <1>8, <1>15, <2>4, <2>5, <2>6
<1>16. ASSUME /\ m.t \in {"paint", "clear"} /\ UNCHANGED canvas
              /\ panel' = [i \in Ids |-> IF i \notin m.ids THEN panel[i]
                                         ELSE IF m.t = "clear" THEN Black ELSE m.pic]
       PROVE  Goal
  <2>1. PICK p : p = panel'
    OBVIOUS
  <2>2. Worked(e, m) = [e EXCEPT !.panel = p]
    BY <1>7, <1>16, <2>1 DEF Worked
  <2>3. Worked(e, m) = [rgb |-> canvas.rgb, mask |-> canvas.mask, always |-> canvas.always, panel |-> p]
    BY ONLY <1>7, <2>2
  <2>4. Device' = Worked(e, m)
    BY <1>16, <2>1, <2>3 DEF Device
  <2>5. panel' = [i \in Ids |-> panel'[i]]
    BY <1>16
  <2> QED BY <1>1, <1>8, <1>16, <2>4, <2>5
<1>17. Goal
  <2> HIDE DEF Goal
  <2> QED BY <1>3, <1>11, <1>12, <1>13, <1>14, <1>15, <1>16 DEF StripWorker
<1>18. IsDevice(Device')
  BY <1>17 DEF IsDevice, Device
<1>19. PICK f : Leads(e, sq, f) /\ Agree(wd, hist.drawn, f, hist.unrecorded)
  BY <1>2, <1>6 DEF StripInv, StripFits
<1>20. Leads(Device', sq', f)
  BY <1>1, <1>3, <1>17, <1>19, LeadsTail
<1>21. StripTyped'
  BY <1>1, <1>4, <1>17, <1>18 DEF StripInv, StripTyped
<1>22. StripFits'
  BY <1>1, <1>2, <1>19, <1>20 DEF StripInv, StripFits
<1> QED BY <1>21, <1>22 DEF StripInv

(* Every step of the strip keeps the invariant. *)
LEMMA StripInvHolds == StripSpec => []StripInv
<1>1. StripInit => StripInv
  <2> SUFFICES ASSUME StripInit PROVE StripInv
    OBVIOUS
  <2>1. PICK m \in Modes, w \in [Ids -> Widgets] :
          wd = FreshWidgets(m, [i \in Ids |-> [widget |-> w[i], value |-> 0]], FALSE)
    BY DEF StripInit
  <2>2. PICK conf : conf = [i \in Ids |-> [widget |-> w[i], value |-> 0]]
    OBVIOUS
  <2>3. conf \in [Ids -> [widget : Widgets, value : Nat]]
    BY <2>2
  <2>4. PICK lp, h, sh : /\ lp = [i \in Ids |-> NeverPainted] /\ h = [z \in Zones |-> "none"]
                         /\ sh = [i \in Ids |-> 0]
    OBVIOUS
  <2>5. lp \in [Ids -> Int] /\ sh \in [Ids -> Int] /\ h \in [Zones -> {"none", "on", "over"}]
    BY <2>4 DEF NeverPainted
  <2>6. wd = [active |-> FALSE, timer |-> FALSE, mode |-> m, conf |-> conf, always |-> FALSE,
              lastMask |-> {}, lastPainted |-> lp, hold |-> h, widgetOnZone |-> {}, refreshing |-> {},
              shown |-> sh, flashes |-> 0]
    BY <2>1, <2>2, <2>4 DEF FreshWidgets
  <2>7. /\ wd.active = FALSE /\ wd.timer = FALSE /\ wd.mode = m /\ wd.conf = conf /\ wd.always = FALSE
        /\ wd.lastMask = {} /\ wd.lastPainted = lp /\ wd.hold = h /\ wd.widgetOnZone = {}
        /\ wd.refreshing = {} /\ wd.shown = sh /\ wd.flashes = 0
    BY ONLY <2>6
  <2>8. IsWidgets(wd)
    BY ONLY m \in Modes, <2>3, <2>5, <2>6, <2>7 DEF IsWidgets
  <2>9. PICK d : d = [z \in Zones |-> Black]
    OBVIOUS
  <2>10. sq = << >> /\ hist = [drawn |-> d, unrecorded |-> {}, frames |-> 0, ops |-> 0]
    BY <2>9 DEF StripInit
  <2>11. hist.drawn = d /\ hist.unrecorded = {} /\ hist.frames = 0 /\ hist.ops = 0
    BY ONLY <2>10
  <2>12. IsCanvas(canvas) /\ IsDevice(Device)
    BY DEF StripInit, EmptyCanvas, IsCanvas, IsDevice, Device
  <2>13. << >> \in Seq(Messages) /\ \A z \in Zones : d[z] = Black
    BY <2>9
  <2> QED BY <2>7, <2>8, <2>10, <2>11, <2>12, <2>13 DEF StripInv, StripTyped, StripFits
<1>2. StripInv /\ [StripNext]_stripVars => StripInv'
  <2> SUFFICES ASSUME StripInv, [StripNext]_stripVars PROVE StripInv'
    OBVIOUS
  <2>1. CASE UNCHANGED stripVars
    <3>1. UNCHANGED <<wd, sq, canvas, panel, hist>>
      BY <2>1 DEF stripVars
    <3>2. Device' = Device
      BY <3>1 DEF Device
    <3>3. StripTyped'
      BY <3>1, <3>2 DEF StripInv, StripTyped
    <3>4. StripFits'
      BY <3>1, <3>2 DEF StripInv, StripFits
    <3> QED BY <3>3, <3>4 DEF StripInv
  <2>2. CASE \E a \in BOOLEAN : Attach(a)
    BY <2>2, AttachFits
  <2>3. CASE Detach
    BY <2>3, DetachFits
  <2>4. CASE TimerTick
    BY <2>4, TimerTickFits
  <2>5. CASE FlashEnds
    BY <2>5, FlashEndsFits
  <2>6. CASE StripWorker
    BY <2>6, WorkerFits
  <2>7. CASE \E m \in Modes : SetTouchStripMode(m)
    BY <2>7, SetModeFits
  <2>8. CASE \E i \in Ids, v \in WidgetValues, w \in Widgets : AssignWidget(i, w, v)
    BY <2>8, AssignFits
  <2>9. CASE \E i \in Ids, v \in WidgetValues, p \in BOOLEAN : ValueChanges(i, v, p)
    BY <2>9, ValueFits
  <2>10. CASE \E i \in Ids, v \in WidgetValues : SourceSettles(i, v)
    BY <2>10, SettlesFits
  <2>11. CASE \E i \in Ids : PlaceholderCap(i)
    BY <2>11, CapFits
  <2>12. CASE \E i \in Ids, f, p \in BOOLEAN : Refresh(i, [flash |-> f, placeholder |-> p])
    BY <2>12, RefreshFits
  <2>13. CASE \E z \in Zones : HoldOffPasses(z)
    BY <2>13, HoldOffFits
  <2>14. CASE \E zs \in SUBSET Zones, ok \in BOOLEAN : AppFrame(zs, ok)
    BY <2>14, AppFrameFits
  <2> QED BY <2>1, <2>2, <2>3, <2>4, <2>5, <2>6, <2>7, <2>8, <2>9, <2>10, <2>11, <2>12, <2>13, <2>14
          DEF StripNext
<1> QED BY <1>1, <1>2, PTL DEF StripSpec

(* With nothing posted the device is what the object records, so once no tick has anything to
   paint or put back, every zone and side key shows its rightful picture. *)
LEMMA QuietShowsOwner == StripInv => StripShowsOwner
<1> SUFFICES ASSUME StripInv, StripIsQuiet, NEW i \in Ids \ hist.unrecorded
             PROVE  panel[i] = Rightful(i)
  BY DEF StripShowsOwner
<1>1. /\ wd.active /\ sq = << >> /\ wd.flashes = 0 /\ (wd.timer => StripTick(wd)[2] = << >>)
  BY DEF StripIsQuiet
<1>2. PICK e : Leads(Device, sq, e) /\ Agree(wd, hist.drawn, e, hist.unrecorded)
  BY <1>1 DEF StripInv, StripFits
<1>3. e = Device
  <2>1. Len(sq) = 0
    BY <1>1
  <2> QED BY <1>2, <2>1 DEF Leads
<1>4. /\ e.panel = panel /\ Agree(wd, hist.drawn, e, hist.unrecorded) /\ wd.mode \in Modes
      /\ (wd.timer \/ WidgetIds(wd) = {})
  BY <1>1, <1>2, <1>3, WdFields DEF Device, StripInv, StripFits
<1>5. CASE i \in Zones /\ wd.mode = "elgato"
  BY <1>4, <1>5 DEF Rightful, Agree, Shows
<1>6. CASE ~(i \in Zones /\ wd.mode = "elgato")
  <2>1. i \in WidgetIds(wd) /\ wd.timer
    BY <1>4, <1>6 DEF WidgetIds, Ids
  <2> DEFINE ids == WidgetIds(wd)
             left == {j \in ids : LeftToApp(wd, j)}
             orphan == {j \in left : ~Owns(wd, j)}
             due == {j \in ids \ left : wd.lastPainted[j] # LinesFor(wd, j)}
             R == {[t |-> "restore", ids |-> {j}] : j \in orphan \cap wd.widgetOnZone}
             P == {PaintMessage(wd, j) : j \in due}
  <2>2. SetToSeq(R) \o SetToSeq(P) = << >>
    <3>1. StripMask(wd) = wd.lastMask
      BY <1>4 DEF Agree, Shows
    <3>2. PushMask(wd, FALSE) = <<wd, << >>>>
      BY <3>1 DEF PushMask
    <3>3. StripTick(wd)[2] = << >> \o PaintChanged(wd)[2]
      BY <3>1 DEF StripTick, PushMask, FollowedBy
    <3>4. PaintChanged(wd)[2] = SetToSeq(R) \o SetToSeq(P)
      BY DEF PaintChanged
    <3>5. PaintChanged(wd)[2] \in Seq(Messages)
      BY <1>1, <1>4, PaintLeads DEF Result
    <3>6. << >> \o PaintChanged(wd)[2] = PaintChanged(wd)[2]
      BY <3>5, EmptyJoins
    <3> QED BY <1>1, <2>1, <3>3, <3>4, <3>6
  <2>3. R = {} /\ P = {}
    <3>1. orphan \cap wd.widgetOnZone \in SUBSET Ids /\ due \in SUBSET Ids /\ IsWidgets(wd)
      BY <1>4 DEF Agree, IsWidgets, WidgetIds, Ids
    <3>2. R \subseteq Messages /\ IsFiniteSet(R) /\ P \subseteq Messages /\ IsFiniteSet(P)
      <4> HIDE DEF orphan, due
      <4> QED BY <3>1, BurstsTyped
    <3> HIDE DEF R, P
    <3>3. SetToSeq(R) \in Seq(Messages) /\ SetToSeq(P) \in Seq(Messages)
      BY <3>2, ListOf
    <3>4. SetToSeq(R) = << >> /\ SetToSeq(P) = << >>
      BY <2>2, <3>3, ConcatEqualIffEmpty
    <3>5. Len(SetToSeq(R)) = 0 /\ Len(SetToSeq(P)) = 0
      BY <3>4
    <3> QED BY <3>2, <3>5, ListOf
  <2>4. \A j \in orphan : j \notin wd.widgetOnZone
    BY <2>3
  <2>5. due = {}
    BY <2>3
  <2>6. CASE LeftToApp(wd, i)
    <3>1. wd.mode = "deckbridge-repaint" /\ i \in Zones /\ i \in left
      BY <2>1, <2>6 DEF LeftToApp
    <3>2. i \notin wd.widgetOnZone
      <4>1. CASE Owns(wd, i)
        BY <1>4, <2>6, <3>1, <4>1 DEF LeftToApp, InElgatoHoldOff, Agree
      <4>2. CASE ~Owns(wd, i)
        BY <2>4, <3>1, <4>2
      <4> QED BY <4>1, <4>2
    <3>3. Rightful(i) = hist.drawn[i]
      BY <2>6, <3>1 DEF Rightful
    <3> QED BY <1>4, <3>1, <3>2, <3>3 DEF Agree, Shows
  <2>7. CASE ~LeftToApp(wd, i)
    <3>1. i \in ids \ left /\ wd.lastPainted[i] = LinesFor(wd, i)
      BY <2>1, <2>5, <2>7
    <3>2. LinesFor(wd, i) # NeverPainted
      BY WdFields DEF LinesFor, Placeholder, NeverPainted
    <3>3. panel[i] = TextPic(LinesFor(wd, i))
      BY <1>1, <1>4, <2>1, <3>1, <3>2 DEF Agree, Shows
    <3> QED BY <1>6, <2>7, <3>3 DEF Rightful, TextPic
  <2> QED BY <2>6, <2>7
<1> QED BY <1>5, <1>6

(* Once nothing is posted, no flash is up and a tick would change nothing, every zone and side
   key of a touch strip shows the picture of its rightful owner: the widgets' scheduler of
   extra-keys.ts and the TouchStripCanvas the worker keeps agree on whose it is. For every set
   of zones, side keys and values, every number of frames and every length of the queue. *)
THEOREM StripStaysOwned == StripSpec => []StripShowsOwner
<1>1. StripInv => StripShowsOwner
  BY QuietShowsOwner
<1> QED BY <1>1, StripInvHolds, PTL

(***************************************************************************)
(* Part 5. BrowserDeck, for every number of pages, keys, layouts, sockets,  *)
(* pictures and presses, and every send window.                            *)
(***************************************************************************)

(* Messages, sessions, pages and the dock, by type. *)
UpMessages == [t : {"hello", "releaseAll"}] \cup [t : {"ack"}, n : Nat] \cup [t : {"down", "up"}, k : DeckKeys]
DownMessages ==
  [t : {"welcome"}] \cup [t : {"bye"}, terminal : BOOLEAN] \cup [t : {"key"}, k : DeckKeys, image : Nat]
Items == Nat \cup {NoItem}
SessionStates == {"awaiting-hello", "authenticating", "live", "closed"}
SessionRecs ==
  [state : SessionStates, open : BOOLEAN, up : Seq(UpMessages), down : Seq(DownMessages),
   pending : [DeckKeys -> Items], sent : Nat, acked : Nat]
PageRecs ==
  [sock : Nat, live : BOOLEAN, frames : Nat, images : [DeckKeys -> Nat], pressed : SUBSET DeckKeys,
   stopped : BOOLEAN]
Running == DeckProfiles \cup {Blank}
VdockRecs ==
  [enabled : BOOLEAN, profile : DeckProfiles, running : Running, phase : {"idle", "starting", "stopping"},
   target : Running, syncs : Nat, failed : BOOLEAN, screen : [DeckKeys -> Nat]]

(* Messages about a key. *)
IsDown(m, k) == m.t = "down" /\ m.k = k
IsUp(m, k) == m.t = "up" /\ m.k = k
IsPicture(m, k) == m.t = "key" /\ m.k = k
IsFrame(m) == m.t = "key" /\ m.image # Blank

(* What is under way to a page makes it show v in the end; nothing is under way. *)
IsLast(d, k, v) ==
  \E i \in DOMAIN d : /\ IsPicture(d[i], k) /\ d[i].image = v
                      /\ \A j \in DOMAIN d : j > i => ~IsPicture(d[j], k)
Says(q, k, v) == IF q.pending[k] # NoItem THEN v = q.pending[k] ELSE IsLast(q.down, k, v)
NothingComes(q, k) == q.pending[k] = NoItem /\ \A i \in DOMAIN q.down : ~IsPicture(q.down[i], k)

FrameCount(d) == Cardinality({i \in DOMAIN d : IsFrame(d[i])})

(* What waits in a send window waits for room. *)
WaitsForRoom(q, S) ==
  \A k \in S : q.pending[k] # NoItem => q.pending[k] # Blank /\ q.sent - q.acked >= MaxDeckWindow

(* A session: nothing was sent before it is live, and nothing is read once it is closed. *)
SessionOk(q) ==
  /\ q \in SessionRecs
  /\ WaitsForRoom(q, DeckKeys)
  /\ q.state \in {"awaiting-hello", "authenticating"} =>
       /\ q.down = << >> /\ q.sent = 0 /\ q.acked = 0
       /\ \A k \in DeckKeys : q.pending[k] = NoItem
  /\ q.state = "awaiting-hello" => q.up \in {<< >>, <<[t |-> "hello"]>>}
  /\ q.state = "authenticating" => q.up = << >>
  /\ q.state = "live" => \A i \in DOMAIN q.up : q.up[i].t # "hello"
  /\ q.state = "closed" => ~q.open /\ q.up = << >>

(* A page and its socket: the acknowledgements under way bring the window to what the page has
   received, the presses under way end with the keys that are pressed, and the pictures under way with
   the screen. *)
CountsFit(pg, q) ==
  /\ pg.frames + FrameCount(q.down) = q.sent
  /\ q.acked <= pg.frames
  /\ \A i \in DOMAIN q.up : q.up[i].t = "ack" => q.up[i].n <= pg.frames
  /\ q.acked < pg.frames => \E i \in DOMAIN q.up : q.up[i].t = "ack" /\ q.up[i].n = pg.frames

Accounted(u, k, held, pressed) ==
  /\ held /\ (\A j \in DOMAIN u : ~IsUp(u[j], k)) => k \in pressed
  /\ \A i \in DOMAIN u : IsDown(u[i], k) /\ (\A j \in DOMAIN u : j > i => ~IsUp(u[j], k)) => k \in pressed
Untouched(u, k, held) == ~held /\ \A i \in DOMAIN u : ~IsDown(u[i], k)

PressesAccounted(pg, q, s, H) ==
  \A k \in DeckKeys : IF pg.live THEN Accounted(q.up, k, s \in H[k], pg.pressed)
                      ELSE Untouched(q.up, k, s \in H[k])

ScreenArrives(pg, q, screen) ==
  \A k \in DeckKeys : /\ \A v \in Nat : Says(q, k, v) => v = screen[k]
                      /\ NothingComes(q, k) /\ screen[k] # Blank => pg.images[k] = screen[k]

PageFits(pg, q, s, H, screen) ==
  /\ pg.live => q.state \in {"live", "closed"}
  /\ q.open => CountsFit(pg, q) /\ PressesAccounted(pg, q, s, H)
  /\ q.open /\ q.state = "live" => ScreenArrives(pg, q, screen)

SessionsFit == deckSess \in Seq(SessionRecs) /\ \A s \in DOMAIN deckSess : SessionOk(deckSess[s])

HoldersFit ==
  /\ holders \in [DeckKeys -> SUBSET LiveSessions]
  /\ keyDown = {k \in DeckKeys : holders[k] # {}}

PagesFit ==
  /\ deckPage \in [DeckPages -> PageRecs]
  /\ \A p \in DeckPages : IF deckPage[p].sock = NoSock THEN ~deckPage[p].live
                          ELSE deckPage[p].sock \in DOMAIN deckSess
  /\ \A p \in DeckPages : deckPage[p].sock # NoSock =>
       PageFits(deckPage[p], deckSess[deckPage[p].sock], deckPage[p].sock, holders, vdock.screen)
  /\ \A p, o \in DeckPages : deckPage[p].sock # NoSock /\ deckPage[p].sock = deckPage[o].sock => p = o

(* The dock: no page is connected while nothing listens, and the last reconcile of the chain works
   towards the setting as it is. *)
VdockFits ==
  /\ vdock \in VdockRecs /\ deckSpent \in Nat
  /\ vdock.phase # "idle" => vdock.running = Blank /\ vdock.syncs > 0
  /\ ~Listening => \A s \in DOMAIN deckSess : ~deckSess[s].open
  /\ vdock.phase # "idle" /\ vdock.syncs = 1 => vdock.target = WantedNow
  /\ DeckFollowsSetting

DeckInv == SessionsFit /\ HoldersFit /\ PagesFit /\ VdockFits

-----------------------------------------------------------------------------
(* Frames under way. *)

LEMMA FrameCountNat ==
    ASSUME NEW d \in Seq(DownMessages)
    PROVE  /\ FrameCount(d) \in Nat
           /\ IsFiniteSet({i \in DOMAIN d : IsFrame(d[i])})
<1>1. Len(d) \in Nat /\ DOMAIN d = 1..Len(d)
  OBVIOUS
<1>2. IsFiniteSet(1..Len(d))
  BY <1>1, FS_Interval
<1>3. IsFiniteSet({i \in DOMAIN d : IsFrame(d[i])})
  BY <1>1, <1>2, FS_Subset
<1> QED BY <1>3, FS_CardinalityType DEF FrameCount

LEMMA FrameCountNone ==
    ASSUME NEW d \in Seq(DownMessages), \A i \in DOMAIN d : ~IsFrame(d[i])
    PROVE  FrameCount(d) = 0
<1>1. {i \in DOMAIN d : IsFrame(d[i])} = {}
  OBVIOUS
<1> QED BY <1>1, FS_EmptySet DEF FrameCount

LEMMA FrameCountAppend ==
    ASSUME NEW d \in Seq(DownMessages), NEW m \in DownMessages
    PROVE  FrameCount(Append(d, m)) = IF IsFrame(m) THEN FrameCount(d) + 1 ELSE FrameCount(d)
<1> DEFINE n == Len(d)
           S == {i \in DOMAIN d : IsFrame(d[i])}
           e == Append(d, m)
           T == {i \in DOMAIN e : IsFrame(e[i])}
<1>1. n \in Nat /\ DOMAIN d = 1..n /\ DOMAIN e = 1..(n + 1)
  OBVIOUS
<1>2. \A i \in 1..n : e[i] = d[i]
  OBVIOUS
<1>3. e[n + 1] = m
  OBVIOUS
<1> HIDE DEF n, e
<1>4. T = IF IsFrame(m) THEN S \cup {n + 1} ELSE S
  BY <1>1, <1>2, <1>3
<1>5. n + 1 \notin S
  BY <1>1
<1>6. IsFiniteSet(S) /\ FrameCount(d) = Cardinality(S)
  BY FrameCountNat DEF FrameCount
<1>7. FrameCount(e) = Cardinality(T)
  BY DEF FrameCount
<1> HIDE DEF S, T
<1>8. IsFrame(m) => Cardinality(T) = Cardinality(S) + 1
  BY <1>4, <1>5, <1>6, FS_AddElement
<1> QED BY <1>4, <1>6, <1>7, <1>8 DEF e

LEMMA FrameCountTail ==
    ASSUME NEW d \in Seq(DownMessages), d # << >>
    PROVE  FrameCount(d) = IF IsFrame(Head(d)) THEN FrameCount(Tail(d)) + 1 ELSE FrameCount(Tail(d))
<1> DEFINE n == Len(d)
           e == Tail(d)
           S == {i \in DOMAIN d : IsFrame(d[i])}
           T == {i \in DOMAIN e : IsFrame(e[i])}
           U == S \ {1}
           f == [i \in T |-> i + 1]
<1>1. n \in Nat /\ n > 0 /\ DOMAIN d = 1..n /\ Len(e) = n - 1 /\ DOMAIN e = 1..(n - 1)
  OBVIOUS
<1>2. \A i \in 1..(n - 1) : e[i] = d[i + 1]
  BY <1>1
<1>3. Head(d) = d[1] /\ e \in Seq(DownMessages)
  BY <1>1
<1> HIDE DEF n, e
<1>4. \A i \in T : i \in Nat /\ i + 1 \in U
  BY <1>1, <1>2
<1>5. f \in [T -> U]
  BY <1>4
<1>6. \A x \in U : x - 1 \in T /\ x - 1 + 1 = x
  <2> SUFFICES ASSUME NEW x \in U PROVE x - 1 \in T /\ x - 1 + 1 = x
    OBVIOUS
  <2>1. x \in 1..n /\ x # 1 /\ IsFrame(d[x])
    BY <1>1
  <2>2. x - 1 \in 1..(n - 1) /\ x - 1 + 1 = x
    BY <1>1, <2>1
  <2>3. e[x - 1] = d[x]
    BY <1>2, <2>2
  <2> QED BY <1>1, <2>1, <2>2, <2>3
<1>7. f \in Surjection(T, U)
  <2>1. \A x \in U : \E i \in T : f[i] = x
    BY <1>6
  <2> HIDE DEF f, T, U
  <2> QED BY <1>5, <2>1 DEF Surjection
<1>8. f \in Injection(T, U)
  <2>1. \A i, j \in T : f[i] = f[j] => i = j
    BY <1>4
  <2> HIDE DEF f, T, U
  <2> QED BY <1>5, <2>1 DEF Injection, IsInjective
<1>9. ExistsBijection(T, U)
  <2> HIDE DEF f, T, U
  <2> QED BY <1>7, <1>8 DEF ExistsBijection, Bijection
<1>10. IsFiniteSet(T) /\ FrameCount(e) = Cardinality(T)
  BY <1>3, FrameCountNat DEF FrameCount
<1>11. IsFiniteSet(U) /\ Cardinality(U) = Cardinality(T)
  <2> HIDE DEF f, T, U
  <2> QED BY <1>9, <1>10, FS_Bijection
<1>12. 1 \in S <=> IsFrame(Head(d))
  BY <1>1, <1>3
<1>13. S = IF IsFrame(Head(d)) THEN U \cup {1} ELSE U
  BY <1>12
<1>14. FrameCount(d) = Cardinality(S)
  BY DEF FrameCount
<1>15. 1 \notin U
  OBVIOUS
<1>16. IsFrame(Head(d)) => Cardinality(S) = Cardinality(U) + 1
  <2> HIDE DEF S, T, U
  <2> QED BY <1>11, <1>13, <1>15, FS_AddElement
<1> HIDE DEF S, T, U
<1> QED BY <1>10, <1>11, <1>13, <1>14, <1>16 DEF e

(* Pictures under way. *)

LEMMA LastOfAppend ==
    ASSUME NEW d \in Seq(DownMessages), NEW m \in DownMessages, NEW k, NEW v
    PROVE  IsLast(Append(d, m), k, v) => IF IsPicture(m, k) THEN v = m.image ELSE IsLast(d, k, v)
<1> DEFINE n == Len(d)
           e == Append(d, m)
<1>1. n \in Nat /\ DOMAIN d = 1..n /\ DOMAIN e = 1..(n + 1)
  OBVIOUS
<1>2. (\A i \in 1..n : e[i] = d[i]) /\ e[n + 1] = m
  OBVIOUS
<1> HIDE DEF n, e
<1> SUFFICES ASSUME IsLast(e, k, v) PROVE IF IsPicture(m, k) THEN v = m.image ELSE IsLast(d, k, v)
  BY DEF e
<1>3. PICK i \in DOMAIN e : /\ IsPicture(e[i], k) /\ e[i].image = v
                            /\ \A j \in DOMAIN e : j > i => ~IsPicture(e[j], k)
  BY DEF IsLast
<1>4. IsPicture(m, k) => i = n + 1
  BY <1>1, <1>2, <1>3
<1>5. ~IsPicture(m, k) => i \in 1..n
  BY <1>1, <1>2, <1>3
<1>6. ASSUME ~IsPicture(m, k) PROVE IsLast(d, k, v)
  <2>1. i \in DOMAIN d /\ d[i] = e[i]
    BY <1>1, <1>2, <1>5, <1>6
  <2>2. \A j \in DOMAIN d : j > i => ~IsPicture(d[j], k)
    BY <1>1, <1>2, <1>3
  <2> QED BY <1>3, <2>1, <2>2 DEF IsLast
<1> QED BY <1>2, <1>3, <1>4, <1>6

LEMMA LastOfTail ==
    ASSUME NEW d \in Seq(DownMessages), d # << >>, NEW k
    PROVE  /\ \A v : IsLast(Tail(d), k, v) => IsLast(d, k, v)
           /\ IsPicture(Head(d), k) /\ (\A i \in DOMAIN Tail(d) : ~IsPicture(Tail(d)[i], k))
                => IsLast(d, k, Head(d).image)
           /\ ~IsPicture(Head(d), k) /\ (\A i \in DOMAIN Tail(d) : ~IsPicture(Tail(d)[i], k))
                => \A i \in DOMAIN d : ~IsPicture(d[i], k)
<1> DEFINE n == Len(d)
           e == Tail(d)
<1>1. n \in Nat /\ n > 0 /\ DOMAIN d = 1..n /\ DOMAIN e = 1..(n - 1)
  OBVIOUS
<1>2. (\A i \in 1..(n - 1) : e[i] = d[i + 1]) /\ Head(d) = d[1]
  BY <1>1
<1> HIDE DEF n, e
<1>3. \A j \in 1..n : j # 1 => j - 1 \in 1..(n - 1) /\ e[j - 1] = d[j]
  <2> SUFFICES ASSUME NEW j \in 1..n, j # 1 PROVE j - 1 \in 1..(n - 1) /\ e[j - 1] = d[j]
    OBVIOUS
  <2>1. j - 1 \in 1..(n - 1) /\ j - 1 + 1 = j
    BY <1>1
  <2> QED BY <1>2, <2>1
<1>4. ASSUME NEW v, IsLast(e, k, v) PROVE IsLast(d, k, v)
  <2>1. PICK i \in DOMAIN e : /\ IsPicture(e[i], k) /\ e[i].image = v
                              /\ \A j \in DOMAIN e : j > i => ~IsPicture(e[j], k)
    BY <1>4 DEF IsLast
  <2>2. i + 1 \in DOMAIN d /\ d[i + 1] = e[i]
    BY <1>1, <1>2
  <2>3. ASSUME NEW j \in DOMAIN d, j > i + 1 PROVE ~IsPicture(d[j], k)
    <3>1. j - 1 \in DOMAIN e /\ e[j - 1] = d[j] /\ j - 1 > i
      BY <1>1, <1>3, <2>3
    <3> QED BY <2>1, <3>1
  <2> QED BY <2>1, <2>2, <2>3 DEF IsLast
<1>5. ASSUME \A i \in DOMAIN e : ~IsPicture(e[i], k)
      PROVE  \A j \in DOMAIN d : j > 1 => ~IsPicture(d[j], k)
  BY <1>1, <1>3, <1>5
<1>6. ASSUME IsPicture(Head(d), k), \A i \in DOMAIN e : ~IsPicture(e[i], k)
      PROVE  IsLast(d, k, Head(d).image)
  <2>1. 1 \in DOMAIN d
    BY <1>1
  <2> QED BY <1>2, <1>5, <1>6, <2>1 DEF IsLast
<1>7. ASSUME ~IsPicture(Head(d), k), \A i \in DOMAIN e : ~IsPicture(e[i], k)
      PROVE  \A i \in DOMAIN d : ~IsPicture(d[i], k)
  <2>1. \A j \in DOMAIN d : j = 1 \/ j > 1
    BY <1>1
  <2> QED BY <1>2, <1>5, <1>7, <2>1
<1> QED BY <1>4, <1>6, <1>7 DEF e

(* Presses under way. *)

LEMMA AccountedTail ==
    ASSUME NEW u \in Seq(UpMessages), u # << >>, NEW k, NEW held \in BOOLEAN, NEW next \in BOOLEAN,
           NEW pressed, Accounted(u, k, held, pressed),
           next => IsDown(Head(u), k) \/ (held /\ ~IsUp(Head(u), k))
    PROVE  Accounted(Tail(u), k, next, pressed)
<1> DEFINE n == Len(u)
           e == Tail(u)
<1>1. n \in Nat /\ n > 0 /\ DOMAIN u = 1..n /\ DOMAIN e = 1..(n - 1)
  OBVIOUS
<1>2. (\A i \in 1..(n - 1) : e[i] = u[i + 1]) /\ Head(u) = u[1]
  BY <1>1
<1> HIDE DEF n, e
<1>3. \A j \in 1..n : j # 1 => j - 1 \in 1..(n - 1) /\ e[j - 1] = u[j]
  <2> SUFFICES ASSUME NEW j \in 1..n, j # 1 PROVE j - 1 \in 1..(n - 1) /\ e[j - 1] = u[j]
    OBVIOUS
  <2>1. j - 1 \in 1..(n - 1) /\ j - 1 + 1 = j
    BY <1>1
  <2> QED BY <1>2, <2>1
<1>4. ASSUME next, \A j \in DOMAIN e : ~IsUp(e[j], k) PROVE k \in pressed
  <2>1. \A j \in DOMAIN u : j > 1 => ~IsUp(u[j], k)
    BY <1>1, <1>3, <1>4
  <2>2. CASE IsDown(Head(u), k)
    <3>1. 1 \in DOMAIN u /\ IsDown(u[1], k)
      BY <1>1, <1>2, <2>2
    <3> QED BY <2>1, <3>1 DEF Accounted
  <2>3. CASE held /\ ~IsUp(Head(u), k)
    <3>1. \A j \in DOMAIN u : j = 1 \/ j > 1
      BY <1>1
    <3>2. \A j \in DOMAIN u : ~IsUp(u[j], k)
      BY <2>1, <2>3, <1>2, <3>1
    <3> QED BY <3>2, <2>3 DEF Accounted
  <2> QED BY <1>4, <2>2, <2>3
<1>5. ASSUME NEW i \in DOMAIN e, IsDown(e[i], k), \A j \in DOMAIN e : j > i => ~IsUp(e[j], k)
      PROVE  k \in pressed
  <2>1. i + 1 \in DOMAIN u /\ u[i + 1] = e[i]
    BY <1>1, <1>2
  <2>2. ASSUME NEW j \in DOMAIN u, j > i + 1 PROVE ~IsUp(u[j], k)
    <3>1. j - 1 \in DOMAIN e /\ e[j - 1] = u[j] /\ j - 1 > i
      BY <1>1, <1>3, <2>2
    <3> QED BY <1>5, <3>1
  <2> QED BY <1>5, <2>1, <2>2 DEF Accounted
<1>6. Accounted(e, k, next, pressed)
  BY <1>4, <1>5 DEF Accounted
<1> QED BY <1>6 DEF e

LEMMA AccountedAppend ==
    ASSUME NEW u \in Seq(UpMessages), NEW m \in UpMessages, NEW k, NEW held \in BOOLEAN,
           NEW pressed, NEW after, Accounted(u, k, held, pressed),
           IsDown(m, k) => k \in after,
           k \in pressed => k \in after \/ IsUp(m, k)
    PROVE  Accounted(Append(u, m), k, held, after)
<1> DEFINE n == Len(u)
           e == Append(u, m)
<1>1. n \in Nat /\ DOMAIN u = 1..n /\ DOMAIN e = 1..(n + 1)
  OBVIOUS
<1>2. (\A i \in 1..n : e[i] = u[i]) /\ e[n + 1] = m
  OBVIOUS
<1> HIDE DEF n, e
<1>3. n + 1 \in DOMAIN e /\ \A i \in DOMAIN u : i \in DOMAIN e /\ e[i] = u[i] /\ n + 1 > i
  BY <1>1, <1>2
<1>4. ASSUME held, \A j \in DOMAIN e : ~IsUp(e[j], k) PROVE k \in after
  <2>1. ~IsUp(m, k) /\ \A j \in DOMAIN u : ~IsUp(u[j], k)
    BY <1>2, <1>3, <1>4
  <2> QED BY <2>1, <1>4 DEF Accounted
<1>5. ASSUME NEW i \in DOMAIN e, IsDown(e[i], k), \A j \in DOMAIN e : j > i => ~IsUp(e[j], k)
      PROVE  k \in after
  <2>1. CASE i = n + 1
    BY <2>1, <1>2, <1>5
  <2>2. CASE i # n + 1
    <3>1. i \in DOMAIN u /\ n + 1 > i
      BY <1>1, <2>2
    <3>2. ~IsUp(m, k)
      BY <1>2, <1>3, <1>5, <3>1
    <3>3. \A j \in DOMAIN u : j > i => ~IsUp(u[j], k)
      BY <1>3, <1>5
    <3>4. IsDown(u[i], k)
      BY <1>3, <1>5, <3>1
    <3> QED BY <3>1, <3>2, <3>3, <3>4 DEF Accounted
  <2> QED BY <2>1, <2>2
<1>6. Accounted(e, k, held, after)
  BY <1>4, <1>5 DEF Accounted
<1> QED BY <1>6 DEF e

LEMMA UntouchedTail ==
    ASSUME NEW u \in Seq(UpMessages), u # << >>, NEW k, NEW held \in BOOLEAN, Untouched(u, k, held)
    PROVE  Untouched(Tail(u), k, FALSE) /\ ~held /\ ~IsDown(Head(u), k)
<1>1. Len(u) \in Nat /\ Len(u) > 0 /\ DOMAIN u = 1..Len(u) /\ DOMAIN Tail(u) = 1..(Len(u) - 1)
  OBVIOUS
<1>2. (\A i \in DOMAIN Tail(u) : Tail(u)[i] = u[i + 1] /\ i + 1 \in DOMAIN u) /\ Head(u) = u[1]
  BY <1>1
<1>3. 1 \in DOMAIN u
  BY <1>1
<1> QED BY <1>2, <1>3 DEF Untouched

LEMMA UntouchedAppend ==
    ASSUME NEW u \in Seq(UpMessages), NEW m \in UpMessages, NEW k, NEW held \in BOOLEAN,
           Untouched(u, k, held), ~IsDown(m, k)
    PROVE  Untouched(Append(u, m), k, held)
<1>1. DOMAIN Append(u, m) = DOMAIN u \cup {Len(u) + 1}
  OBVIOUS
<1>2. (\A i \in DOMAIN u : Append(u, m)[i] = u[i]) /\ Append(u, m)[Len(u) + 1] = m
  OBVIOUS
<1> QED BY <1>1, <1>2 DEF Untouched

-----------------------------------------------------------------------------
(* Draining a send window. *)

(* r is q after part of what waited was sent: the rest of q stays, the window still counts what is
   under way, and the page is told nothing that q did not say. *)
Drained(q, r) ==
  /\ q \in SessionRecs /\ r \in SessionRecs
  /\ r.state = q.state /\ r.open = q.open /\ r.up = q.up /\ r.acked = q.acked /\ r.sent >= q.sent
  /\ r.sent + FrameCount(q.down) = q.sent + FrameCount(r.down)
  /\ \A k \in DeckKeys : \A v \in Nat : Says(r, k, v) => Says(q, k, v)
  /\ \A k \in DeckKeys : NothingComes(r, k) => NothingComes(q, k)

LEMMA DrainedSame ==
    ASSUME NEW q \in SessionRecs
    PROVE  Drained(q, q)
<1>1. q.sent \in Nat /\ q.down \in Seq(DownMessages)
  BY DEF SessionRecs
<1>2. FrameCount(q.down) \in Nat
  BY <1>1, FrameCountNat
<1> QED BY <1>1, <1>2 DEF Drained

LEMMA DrainedOn ==
    ASSUME NEW q, NEW r, NEW t, Drained(q, r), Drained(r, t)
    PROVE  Drained(q, t)
<1>1. q.sent \in Nat /\ q.down \in Seq(DownMessages) /\ r.sent \in Nat /\ r.down \in Seq(DownMessages)
        /\ t.sent \in Nat /\ t.down \in Seq(DownMessages)
  BY DEF Drained, SessionRecs
<1>2. FrameCount(q.down) \in Nat /\ FrameCount(r.down) \in Nat /\ FrameCount(t.down) \in Nat
  BY <1>1, FrameCountNat
<1>3. t.sent + FrameCount(q.down) = q.sent + FrameCount(t.down) /\ t.sent >= q.sent
  <2>1. /\ r.sent + FrameCount(q.down) = q.sent + FrameCount(r.down)
        /\ t.sent + FrameCount(r.down) = r.sent + FrameCount(t.down)
        /\ r.sent >= q.sent /\ t.sent >= r.sent
    BY DEF Drained
  <2>2. q.sent \in Nat /\ r.sent \in Nat /\ t.sent \in Nat
    BY <1>1
  <2> QED BY <1>2, <2>1, <2>2
<1>4. \A k \in DeckKeys : \A v \in Nat : Says(t, k, v) => Says(q, k, v)
  BY DEF Drained
<1>5. \A k \in DeckKeys : NothingComes(t, k) => NothingComes(q, k)
  BY DEF Drained
<1>6. q \in SessionRecs /\ t \in SessionRecs
  BY DEF Drained
<1>7. t.state = q.state /\ t.open = q.open /\ t.up = q.up /\ t.acked = q.acked
  BY DEF Drained
<1> QED BY <1>3, <1>4, <1>5, <1>6, <1>7 DEF Drained

LEMMA DrainOneEffect ==
    ASSUME NEW q \in SessionRecs, NEW k \in DeckKeys
    PROVE  LET r == DrainOne(q, k) IN
             /\ Drained(q, r)
             /\ \A j \in DeckKeys : j # k => r.pending[j] = q.pending[j]
             /\ WaitsForRoom(r, {k})
<1> DEFINE r == DrainOne(q, k)
           m == [t |-> "key", k |-> k, image |-> q.pending[k]]
           Full == q.pending[k] # Blank /\ q.sent - q.acked >= MaxDeckWindow
<1>0. /\ q.state \in SessionStates /\ q.open \in BOOLEAN /\ q.up \in Seq(UpMessages)
      /\ q.down \in Seq(DownMessages) /\ q.pending \in [DeckKeys -> Items]
      /\ q.sent \in Nat /\ q.acked \in Nat
  BY DEF SessionRecs
<1>1. CASE q.pending[k] = NoItem \/ Full
  <2>1. r = q
    BY <1>1 DEF DrainOne
  <2>2. WaitsForRoom(r, {k})
    BY <1>1, <2>1 DEF WaitsForRoom
  <2> QED BY <2>1, <2>2, DrainedSame
<1>2. CASE q.pending[k] # NoItem /\ ~Full
  <2> HIDE DEF Full
  <2>1. m \in DownMessages /\ IsPicture(m, k) /\ (IsFrame(m) <=> q.pending[k] # Blank)
          /\ m.image = q.pending[k]
    BY <1>0, <1>2 DEF DownMessages, IsPicture, IsFrame, Items
  <2> DEFINE more == IF q.pending[k] = Blank THEN q.sent ELSE q.sent + 1
             left == [q.pending EXCEPT ![k] = NoItem]
             d == Append(q.down, m)
  <2>2. r = [q EXCEPT !.down = d, !.sent = more, !.pending = left]
    BY <1>2 DEF DrainOne, Full
  <2>3. more \in Nat /\ left \in [DeckKeys -> Items] /\ d \in Seq(DownMessages)
    BY <1>0, <2>1 DEF Items, NoItem
  <2>4. FrameCount(d) = IF q.pending[k] # Blank THEN FrameCount(q.down) + 1 ELSE FrameCount(q.down)
    BY <1>0, <2>1, FrameCountAppend
  <2>5. left[k] = NoItem /\ \A j \in DeckKeys : j # k => left[j] = q.pending[j]
    BY <1>0
  <2>6. more + FrameCount(q.down) = q.sent + FrameCount(d) /\ more >= q.sent
    <3>1. FrameCount(q.down) \in Nat
      BY <1>0, FrameCountNat
    <3> HIDE DEF d, left
    <3> QED BY <1>0, <2>4, <3>1
  <2>7. \A j, v : IsLast(d, j, v) => IF IsPicture(m, j) THEN v = m.image ELSE IsLast(q.down, j, v)
    BY <1>0, <2>1, LastOfAppend
  <2>8. Len(q.down) + 1 \in DOMAIN d /\ d[Len(q.down) + 1] = m
        /\ \A i \in DOMAIN q.down : i \in DOMAIN d /\ d[i] = q.down[i]
    BY <1>0
  <2>9. \A j : IsPicture(m, j) <=> j = k
    BY DEF IsPicture
  <2> HIDE DEF m, d, more, left
  <2>10. r.down = d /\ r.sent = more /\ r.pending = left /\ r.state = q.state /\ r.open = q.open
           /\ r.up = q.up /\ r.acked = q.acked
    BY <2>2 DEF SessionRecs
  <2>11. r \in SessionRecs
    BY <2>2, <2>3 DEF SessionRecs
  <2> HIDE DEF r
  <2>12. ASSUME NEW j \in DeckKeys, NEW v \in Nat, Says(r, j, v) PROVE Says(q, j, v)
    <3>1. CASE j = k
      <4>1. IsLast(d, k, v)
        BY <2>5, <2>10, <2>12, <3>1 DEF Says
      <4>2. v = q.pending[k]
        BY <2>1, <2>7, <2>9, <4>1
      <4> QED BY <1>2, <3>1, <4>2 DEF Says
    <3>2. CASE j # k
      <4>1. left[j] = q.pending[j]
        BY <2>5, <3>2
      <4>2. IsLast(d, j, v) => IsLast(q.down, j, v)
        BY <2>7, <2>9, <3>2
      <4> QED BY <2>10, <2>12, <4>1, <4>2 DEF Says
    <3> QED BY <3>1, <3>2
  <2>13. ASSUME NEW j \in DeckKeys, NothingComes(r, j) PROVE NothingComes(q, j)
    <3>1. \A i \in DOMAIN d : ~IsPicture(d[i], j)
      BY <2>10, <2>13 DEF NothingComes
    <3>2. j # k
      BY <2>8, <2>9, <3>1
    <3>3. q.pending[j] = NoItem
      BY <2>5, <2>10, <2>13, <3>2 DEF NothingComes
    <3>4. \A i \in DOMAIN q.down : ~IsPicture(q.down[i], j)
      BY <2>8, <3>1
    <3> QED BY <3>3, <3>4 DEF NothingComes
  <2>14. Drained(q, r)
    BY <2>6, <2>10, <2>11, <2>12, <2>13 DEF Drained
  <2>15. WaitsForRoom(r, {k})
    BY <2>5, <2>10 DEF WaitsForRoom
  <2> QED BY <2>5, <2>10, <2>14, <2>15 DEF r
<1> QED BY <1>1, <1>2

-----------------------------------------------------------------------------
(* A drain takes the keys in ascending order: it is the last of a run of windows. *)

Below(n) == {k \in DeckKeys : k < n}

LEMMA CountingUp ==
    ASSUME NEW n \in Nat, NEW A, 0 \in A,
           \A i \in 0..n : i \in A /\ i < n => i + 1 \in A
    PROVE  \A i \in 0..n : i \in A
<1> DEFINE Missed == {i \in 0..n : i \notin A}
<1> SUFFICES ASSUME Missed # {} PROVE FALSE
  OBVIOUS
<1>1. IsWellFoundedOn(OpToRel(<, Nat), Nat)
  BY NatLessThanWellFounded
<1>2. Missed \subseteq Nat
  OBVIOUS
<1>3. PICK m \in Missed : \A j \in Missed : ~ (<<j, m>> \in OpToRel(<, Nat))
  <2> HIDE DEF Missed
  <2> QED BY <1>1, <1>2, WFMin
<1>4. m # 0 /\ m \in 0..n
  OBVIOUS
<1>5. m - 1 \in 0..n /\ m - 1 < n /\ m - 1 + 1 = m
  BY <1>4
<1>6. m - 1 \notin A
  BY <1>5
<1>7. <<m - 1, m>> \in OpToRel(<, Nat)
  BY <1>4, <1>5 DEF OpToRel
<1> QED BY <1>3, <1>5, <1>6, <1>7

LEMMA KeysAreBounded ==
    \E n \in Nat : DeckKeys = Below(n)
<1>1. PICK n \in Nat : ExistsSurjection(1..n, DeckKeys)
  BY DeckAssumption, FS_NatSurjection
<1>2. PICK f \in Surjection(1..n, DeckKeys) : TRUE
  BY <1>1 DEF ExistsSurjection
<1>3. f \in [1..n -> DeckKeys] /\ \A k \in DeckKeys : \E i \in 1..n : f[i] = k
  BY <1>2 DEF Surjection
<1> DEFINE A == {i \in 0..n : \E b \in Nat : \A j \in 1..i : f[j] < b}
<1>4. 0 \in A
  <2>1. 0 \in Nat /\ \A j \in 1..0 : f[j] < 0
    OBVIOUS
  <2> QED BY <1>1, <2>1
<1>5. ASSUME NEW i \in 0..n, i \in A, i < n PROVE i + 1 \in A
  <2>1. PICK b \in Nat : \A j \in 1..i : f[j] < b
    BY <1>5
  <2>2. f[i + 1] \in Nat
    <3>1. i + 1 \in 1..n
      BY <1>1, <1>5
    <3>2. f[i + 1] \in DeckKeys
      BY <1>3, <3>1
    <3> QED BY <3>2, DeckAssumption
  <2> DEFINE c == IF f[i + 1] < b THEN b ELSE f[i + 1] + 1
  <2>3. c \in Nat /\ f[i + 1] < c /\ b <= c
    BY <2>2
  <2>4. ASSUME NEW j \in 1..(i + 1) PROVE f[j] < c
    <3>1. j \in 1..n /\ (j \in 1..i \/ j = i + 1)
      BY <1>1, <1>5
    <3>2. f[j] \in Nat
      BY <1>3, <3>1, DeckAssumption
    <3> QED BY <2>1, <2>3, <3>1, <3>2
  <2>5. i + 1 \in 0..n
    BY <1>1, <1>5
  <2> HIDE DEF c
  <2> QED BY <2>3, <2>4, <2>5
<1>6. n \in A
  <2> HIDE DEF A
  <2>1. \A i \in 0..n : i \in A
    BY <1>1, <1>4, <1>5, CountingUp
  <2> QED BY <1>1, <2>1
<1>7. PICK b \in Nat : \A j \in 1..n : f[j] < b
  BY <1>6
<1>8. DeckKeys = Below(b)
  BY <1>3, <1>7 DEF Below
<1> QED BY <1>8

LEMMA MaxOfBelow ==
    ASSUME NEW n \in Nat, NEW S \in SUBSET Below(n + 1), n \in S
    PROVE  Max(S) = n
<1>1. \A y \in S : y \in Nat /\ n >= y
  BY DeckAssumption DEF Below
<1>2. \A x \in S : (\A y \in S : x >= y) => x = n
  BY <1>1
<1> QED BY <1>1, <1>2 DEF Max

LEMMA BelowNext ==
    ASSUME NEW n \in Nat
    PROVE  /\ Below(n) \subseteq Below(n + 1) /\ n \notin Below(n)
           /\ Below(n + 1) = IF n \in DeckKeys THEN Below(n) \cup {n} ELSE Below(n)
<1>1. \A k \in DeckKeys : k \in Nat
  BY DeckAssumption
<1>2. \A k \in DeckKeys : k < n + 1 <=> k < n \/ k = n
  BY <1>1
<1>3. ~(n < n)
  OBVIOUS
<1>4. Below(n) \subseteq Below(n + 1) /\ n \notin Below(n)
  BY <1>2, <1>3 DEF Below
<1>5. n \in DeckKeys => Below(n + 1) = Below(n) \cup {n}
  BY <1>2 DEF Below
<1>6. n \notin DeckKeys => Below(n + 1) = Below(n)
  BY <1>2 DEF Below
<1> QED BY <1>4, <1>5, <1>6

(* A table of the windows that draining the keys of a set leads to. *)
IsTable(t, q, n) ==
  /\ t \in [SUBSET Below(n) -> SessionRecs]
  /\ \A S \in SUBSET Below(n) : t[S] = IF S = {} THEN q ELSE DrainOne(t[S \ {Max(S)}], Max(S))

LEMMA TableExists ==
    ASSUME NEW q \in SessionRecs, NEW N \in Nat
    PROVE  \A n \in 0..N : \E t : IsTable(t, q, n)
<1> DEFINE A == {n \in 0..N : \E t : IsTable(t, q, n)}
<1>1. 0 \in A
  <2> DEFINE t == [S \in SUBSET Below(0) |-> q]
  <2>1. \A S \in SUBSET Below(0) : S = {}
    BY DeckAssumption DEF Below
  <2>2. t \in [SUBSET Below(0) -> SessionRecs]
    OBVIOUS
  <2>3. \A S \in SUBSET Below(0) : t[S] = q
    OBVIOUS
  <2> HIDE DEF t
  <2>4. IsTable(t, q, 0)
    BY <2>1, <2>2, <2>3 DEF IsTable
  <2> QED BY <2>4
<1>2. ASSUME NEW n \in 0..N, n \in A, n < N PROVE n + 1 \in A
  <2>1. PICK t : IsTable(t, q, n)
    BY <1>2
  <2> DEFINE B == Below(n)
             C == Below(n + 1)
             u == [S \in SUBSET C |-> IF n \in S THEN DrainOne(t[S \ {n}], n) ELSE t[S]]
  <2>2. n \in Nat /\ n + 1 \in 0..N
    BY <1>2
  <2>3. C = IF n \in DeckKeys THEN B \cup {n} ELSE B
    BY <2>2, BelowNext
  <2>4. \A S \in SUBSET B : t[S] \in SessionRecs
    BY <2>1 DEF IsTable
  <2>5. ASSUME NEW S \in SUBSET C, n \notin S PROVE S \in SUBSET B
    BY <2>3, <2>5
  <2>6. ASSUME NEW S \in SUBSET C, n \in S PROVE n \in DeckKeys /\ S \ {n} \in SUBSET B
    BY <2>3, <2>6, <2>2, BelowNext
  <2> HIDE DEF B, C
  <2>7. \A x \in SessionRecs : \A k \in DeckKeys : DrainOne(x, k) \in SessionRecs
    BY DrainOneEffect DEF Drained
  <2>8. ASSUME NEW S \in SUBSET C
        PROVE  (IF n \in S THEN DrainOne(t[S \ {n}], n) ELSE t[S]) \in SessionRecs
    BY <2>4, <2>5, <2>6, <2>7
  <2>9. u \in [SUBSET C -> SessionRecs]
    BY <2>8
  <2>10. ASSUME NEW S \in SUBSET C
         PROVE  u[S] = IF S = {} THEN q ELSE DrainOne(u[S \ {Max(S)}], Max(S))
    <3>1. CASE n \in S
      <4>1. Max(S) = n
        BY <3>1, <2>2, MaxOfBelow DEF C
      <4>2. S \ {n} \in SUBSET C /\ n \notin S \ {n}
        OBVIOUS
      <4>3. u[S \ {n}] = t[S \ {n}]
        BY <4>2
      <4>4. u[S] = DrainOne(t[S \ {n}], n)
        BY <3>1
      <4>5. S # {}
        BY <3>1
      <4> HIDE DEF u
      <4> QED BY <4>1, <4>3, <4>4, <4>5
    <3>2. CASE n \notin S
      <4>1. S \in SUBSET B /\ S \ {Max(S)} \in SUBSET B
        BY <2>5, <3>2
      <4>2. u[S] = t[S]
        BY <3>2
      <4>3. S \ {Max(S)} \in SUBSET C /\ n \notin S \ {Max(S)}
        BY <3>2
      <4>4. u[S \ {Max(S)}] = t[S \ {Max(S)}]
        BY <4>3
      <4> HIDE DEF u
      <4>5. t[S] = IF S = {} THEN q ELSE DrainOne(t[S \ {Max(S)}], Max(S))
        BY <4>1, <2>1 DEF IsTable, B
      <4> QED BY <4>2, <4>4, <4>5
    <3> QED BY <3>1, <3>2
  <2> HIDE DEF u
  <2>11. IsTable(u, q, n + 1)
    BY <2>9, <2>10 DEF IsTable, C
  <2> QED BY <2>2, <2>11
<1> HIDE DEF A
<1>3. \A n \in 0..N : n \in A
  BY <1>1, <1>2, CountingUp
<1> QED BY <1>3 DEF A

DrainTable(q) ==
  CHOOSE iter : iter = [S \in SUBSET DeckKeys |->
                          IF S = {} THEN q ELSE DrainOne(iter[S \ {Max(S)}], Max(S))]

(* What a drain leaves: a drained window in which everything that still waits waits for room. *)
LEMMA DrainEffect ==
    ASSUME NEW q \in SessionRecs
    PROVE  Drained(q, Drain(q)) /\ WaitsForRoom(Drain(q), DeckKeys)
<1>1. PICK N \in Nat : DeckKeys = Below(N)
  BY KeysAreBounded
<1> DEFINE F(t) == [S \in SUBSET DeckKeys |-> IF S = {} THEN q ELSE DrainOne(t[S \ {Max(S)}], Max(S))]
           T == DrainTable(q)
<1>2. PICK t : IsTable(t, q, N)
  BY <1>1, TableExists
<1>3. t = F(t)
  BY <1>1, <1>2 DEF IsTable
<1>4. T = F(T)
  BY <1>3 DEF DrainTable
<1>5. Drain(q) = T[DeckKeys]
  BY DEF Drain, MapThenFoldSet, DrainTable
<1> HIDE DEF T
<1>6. T = [S \in SUBSET DeckKeys |-> IF S = {} THEN q ELSE DrainOne(T[S \ {Max(S)}], Max(S))]
  BY <1>4
<1>7. \A S \in SUBSET DeckKeys : T[S] = IF S = {} THEN q ELSE DrainOne(T[S \ {Max(S)}], Max(S))
  BY <1>6
<1> DEFINE A == {i \in 0..N : Drained(q, T[Below(i)]) /\ WaitsForRoom(T[Below(i)], Below(i))}
<1>8. 0 \in A
  <2>1. Below(0) = {} /\ Below(0) \in SUBSET DeckKeys
    <3>1. \A k \in DeckKeys : ~(k < 0)
      BY DeckAssumption
    <3> QED BY <3>1 DEF Below
  <2>2. T[Below(0)] = q
    BY <1>7, <2>1
  <2>3. Drained(q, q)
    BY DrainedSame
  <2> QED BY <1>1, <2>1, <2>2, <2>3 DEF WaitsForRoom
<1>9. ASSUME NEW i \in 0..N, i \in A, i < N PROVE i + 1 \in A
  <2>1. i \in Nat /\ i + 1 \in 0..N
    BY <1>1, <1>9
  <2>2. Drained(q, T[Below(i)]) /\ WaitsForRoom(T[Below(i)], Below(i))
    BY <1>9
  <2>3. CASE i \notin DeckKeys
    <3>1. Below(i + 1) = Below(i)
      BY <2>1, <2>3, BelowNext
    <3> QED BY <2>1, <2>2, <3>1
  <2>4. CASE i \in DeckKeys
    <3> DEFINE B == Below(i)
               C == Below(i + 1)
               x == T[B]
               y == T[C]
    <3>1. C = B \cup {i} /\ i \notin B
      BY <2>1, <2>4, BelowNext
    <3>2. C \in SUBSET DeckKeys /\ B \in SUBSET DeckKeys
      BY DEF Below
    <3>3. Max(C) = i
      BY <2>1, <3>1, MaxOfBelow
    <3>4. C \ {Max(C)} = B /\ C # {}
      BY <3>1, <3>3
    <3> HIDE DEF B, C
    <3>5. y = DrainOne(x, i)
      BY <1>7, <3>2, <3>3, <3>4
    <3> HIDE DEF y
    <3>6. Drained(q, x) /\ WaitsForRoom(x, B) /\ x \in SessionRecs
      BY <2>2 DEF B, Drained
    <3> HIDE DEF x
    <3>7. /\ Drained(x, y)
          /\ \A j \in DeckKeys : j # i => y.pending[j] = x.pending[j]
          /\ WaitsForRoom(y, {i})
      BY <2>4, <3>5, <3>6, DrainOneEffect
    <3>8. Drained(q, y)
      BY <3>6, <3>7, DrainedOn
    <3>9. y.sent >= x.sent /\ y.acked = x.acked /\ x.sent \in Nat /\ y.sent \in Nat /\ x.acked \in Nat
      BY <3>7 DEF Drained, SessionRecs
    <3>10. ASSUME NEW j \in B, y.pending[j] # NoItem
           PROVE  y.pending[j] # Blank /\ y.sent - y.acked >= MaxDeckWindow
      <4>1. j \in DeckKeys /\ j # i
        BY <3>1, <3>2
      <4>2. x.pending[j] = y.pending[j]
        BY <3>7, <4>1
      <4>3. x.pending[j] # Blank /\ x.sent - x.acked >= MaxDeckWindow
        BY <3>6, <3>10, <4>2 DEF WaitsForRoom
      <4>4. MaxDeckWindow \in Nat
        BY DeckAssumption
      <4> QED BY <3>9, <4>2, <4>3, <4>4
    <3>11. WaitsForRoom(y, C)
      BY <3>1, <3>7, <3>10 DEF WaitsForRoom
    <3> QED BY <2>1, <3>8, <3>11 DEF y, C
  <2> QED BY <2>3, <2>4
<1>10. N \in A
  <2> HIDE DEF A
  <2>1. \A i \in 0..N : i \in A
    BY <1>1, <1>8, <1>9, CountingUp
  <2> QED BY <1>1, <2>1
<1>11. Drained(q, T[DeckKeys]) /\ WaitsForRoom(T[DeckKeys], DeckKeys)
  BY <1>1, <1>10
<1> QED BY <1>5, <1>11

-----------------------------------------------------------------------------
(* What the hub does to one session, and what it means for its page. *)

LEMMA SessionFields ==
    ASSUME NEW q \in SessionRecs
    PROVE  /\ q.state \in SessionStates /\ q.open \in BOOLEAN /\ q.up \in Seq(UpMessages)
           /\ q.down \in Seq(DownMessages) /\ q.pending \in [DeckKeys -> Items]
           /\ q.sent \in Nat /\ q.acked \in Nat
BY DEF SessionRecs

LEMMA LiveSessionOk ==
    ASSUME NEW q \in SessionRecs, q.state = "live", WaitsForRoom(q, DeckKeys),
           \A i \in DOMAIN q.up : q.up[i].t # "hello"
    PROVE  SessionOk(q)
BY DEF SessionOk

LEMMA DrainedPage ==
    ASSUME NEW q, NEW r, Drained(q, r), NEW pg \in PageRecs, NEW s, NEW H, NEW screen,
           PageFits(pg, q, s, H, screen)
    PROVE  PageFits(pg, r, s, H, screen)
<1>0. q \in SessionRecs /\ r \in SessionRecs
  BY DEF Drained
<1>1. r.state = q.state /\ r.open = q.open /\ r.up = q.up /\ r.acked = q.acked
  BY DEF Drained
<1>2. /\ q.sent \in Nat /\ r.sent \in Nat /\ FrameCount(q.down) \in Nat /\ FrameCount(r.down) \in Nat
      /\ pg.frames \in Nat
  BY <1>0, SessionFields, FrameCountNat DEF PageRecs
<1>3. ASSUME CountsFit(pg, q) PROVE CountsFit(pg, r)
  <2>1. pg.frames + FrameCount(q.down) = q.sent
    BY <1>3 DEF CountsFit
  <2>2. r.sent + FrameCount(q.down) = q.sent + FrameCount(r.down)
    BY DEF Drained
  <2>3. pg.frames + FrameCount(r.down) = r.sent
    BY <1>2, <2>1, <2>2
  <2> QED BY <1>1, <1>3, <2>3 DEF CountsFit
<1>4. ASSUME PressesAccounted(pg, q, s, H) PROVE PressesAccounted(pg, r, s, H)
  BY <1>1, <1>4 DEF PressesAccounted
<1>5. ASSUME ScreenArrives(pg, q, screen) PROVE ScreenArrives(pg, r, screen)
  BY <1>5 DEF ScreenArrives, Drained
<1> QED BY <1>1, <1>3, <1>4, <1>5 DEF PageFits

(* A picture or a clear. *)
LEMMA PushedSession ==
    ASSUME NEW q, SessionOk(q), q.state = "live", NEW k \in DeckKeys, NEW image \in Nat
    PROVE  LET r == PushItem(q, k, image) IN
             /\ SessionOk(r) /\ r.state = "live" /\ r.open = q.open
             /\ \A pg \in PageRecs, screen \in [DeckKeys -> Nat] : \A s, H :
                  PageFits(pg, q, s, H, screen) => PageFits(pg, r, s, H, [screen EXCEPT ![k] = image])
<1> DEFINE put == [q.pending EXCEPT ![k] = image]
           w == [q EXCEPT !.pending = put]
           r == Drain(w)
<1>1. q \in SessionRecs
  BY DEF SessionOk
<1>2. put \in [DeckKeys -> Items] /\ put[k] = image /\ \A j \in DeckKeys : j # k => put[j] = q.pending[j]
  BY <1>1, SessionFields DEF Items
<1>3. PushItem(q, k, image) = r
  BY <1>1, SessionFields DEF PushItem
<1> HIDE DEF put
<1>4. w \in SessionRecs /\ w.pending = put /\ w.state = q.state /\ w.open = q.open /\ w.up = q.up
        /\ w.down = q.down /\ w.sent = q.sent /\ w.acked = q.acked
  BY <1>1, <1>2 DEF SessionRecs
<1> HIDE DEF w
<1>5. Drained(w, r) /\ WaitsForRoom(r, DeckKeys)
  BY <1>4, DrainEffect
<1> HIDE DEF r
<1>6. r \in SessionRecs /\ r.state = q.state /\ r.open = q.open /\ r.up = q.up
  BY <1>4, <1>5 DEF Drained
<1>7. \A i \in DOMAIN q.up : q.up[i].t # "hello"
  BY DEF SessionOk
<1>8. SessionOk(r)
  BY <1>5, <1>6, <1>7, LiveSessionOk
<1>9. ASSUME NEW pg \in PageRecs, NEW screen \in [DeckKeys -> Nat], NEW s, NEW H,
             PageFits(pg, q, s, H, screen)
      PROVE  PageFits(pg, r, s, H, [screen EXCEPT ![k] = image])
  <2> DEFINE after == [screen EXCEPT ![k] = image]
  <2>1. after[k] = image /\ \A j \in DeckKeys : j # k => after[j] = screen[j]
    BY <1>9
  <2> HIDE DEF after
  <2>2. CountsFit(pg, q) => CountsFit(pg, w)
    BY <1>4 DEF CountsFit
  <2>3. PressesAccounted(pg, q, s, H) => PressesAccounted(pg, w, s, H)
    BY <1>4 DEF PressesAccounted
  <2>4. ASSUME ScreenArrives(pg, q, screen) PROVE ScreenArrives(pg, w, after)
    <3>1. ASSUME NEW j \in DeckKeys, j = k
          PROVE  /\ \A v \in Nat : Says(w, j, v) => v = after[j]
                 /\ NothingComes(w, j) /\ after[j] # Blank => pg.images[j] = after[j]
      <4>1. put[j] = image /\ image # NoItem
        BY <1>2, <3>1 DEF NoItem
      <4> QED BY <1>4, <2>1, <3>1, <4>1 DEF Says, NothingComes
    <3>2. ASSUME NEW j \in DeckKeys, j # k
          PROVE  /\ \A v \in Nat : Says(w, j, v) => v = after[j]
                 /\ NothingComes(w, j) /\ after[j] # Blank => pg.images[j] = after[j]
      <4>1. put[j] = q.pending[j] /\ after[j] = screen[j]
        BY <1>2, <2>1, <3>2
      <4>2. \A v \in Nat : Says(w, j, v) => Says(q, j, v)
        BY <1>4, <4>1 DEF Says
      <4>3. NothingComes(w, j) => NothingComes(q, j)
        BY <1>4, <4>1 DEF NothingComes
      <4> QED BY <2>4, <4>1, <4>2, <4>3 DEF ScreenArrives
    <3> QED BY <3>1, <3>2 DEF ScreenArrives
  <2>5. PageFits(pg, w, s, H, after)
    BY <1>4, <1>9, <2>2, <2>3, <2>4 DEF PageFits
  <2>6. PageFits(pg, r, s, H, after)
    BY <1>5, <2>5, DrainedPage
  <2> QED BY <2>6 DEF after
<1> QED BY <1>3, <1>6, <1>8, <1>9

(* The picture of every key that has one, to a page that is let in. *)
LEMMA LetInSession ==
    ASSUME NEW q, SessionOk(q), q.state = "authenticating", NEW screen \in [DeckKeys -> Nat]
    PROVE  LET r == LetIn(q, screen) IN
             /\ SessionOk(r) /\ r.state = "live" /\ r.open = q.open
             /\ \A pg \in PageRecs : \A s, H :
                  PageFits(pg, q, s, H, screen) => PageFits(pg, r, s, H, screen)
<1> DEFINE all == [k \in DeckKeys |-> IF screen[k] = Blank THEN NoItem ELSE screen[k]]
           m == [t |-> "welcome"]
           d == Append(q.down, m)
           live == "live"
           w == [q EXCEPT !.state = live, !.down = d, !.pending = all]
           r == Drain(w)
<1>1. q \in SessionRecs /\ q.down = << >> /\ q.up = << >> /\ q.sent = 0 /\ q.acked = 0
  BY DEF SessionOk
<1>2. LetIn(q, screen) = r
  BY <1>1 DEF LetIn
<1>3. all \in [DeckKeys -> Items] /\ \A k \in DeckKeys : all[k] = IF screen[k] = Blank THEN NoItem ELSE screen[k]
  BY DEF Items
<1>4. m \in DownMessages /\ m.t = "welcome"
  BY DEF DownMessages
<1>5. d \in Seq(DownMessages) /\ DOMAIN d = {1} /\ d[1] = m
  <2>1. d = <<m>>
    BY <1>1
  <2>2. <<m>> \in Seq(DownMessages) /\ DOMAIN <<m>> = {1} /\ <<m>>[1] = m
    BY <1>4
  <2> HIDE DEF m, d
  <2> QED BY <2>1, <2>2
<1>6. live \in SessionStates /\ live = "live"
  BY DEF SessionStates
<1> HIDE DEF all, m, d, live
<1>7. w \in SessionRecs /\ w.pending = all /\ w.state = live /\ w.open = q.open /\ w.up = << >>
        /\ w.down = d /\ w.sent = 0 /\ w.acked = 0
  BY <1>1, <1>3, <1>5, <1>6 DEF SessionRecs
<1> HIDE DEF w
<1>8. Drained(w, r) /\ WaitsForRoom(r, DeckKeys)
  BY <1>7, DrainEffect
<1> HIDE DEF r
<1>9. r \in SessionRecs /\ r.state = "live" /\ r.open = q.open /\ r.up = << >>
  BY <1>6, <1>7, <1>8 DEF Drained
<1>10. SessionOk(r)
  BY <1>8, <1>9, LiveSessionOk
<1>11. ASSUME NEW pg \in PageRecs, NEW s, NEW H, PageFits(pg, q, s, H, screen)
       PROVE  PageFits(pg, r, s, H, screen)
  <2>1. FrameCount(w.down) = 0 /\ FrameCount(q.down) = 0
    <3>1. ~IsFrame(m)
      BY <1>4 DEF IsFrame
    <3>2. q.down \in Seq(DownMessages) /\ \A i \in DOMAIN q.down : ~IsFrame(q.down[i])
      BY <1>1
    <3>3. w.down \in Seq(DownMessages) /\ \A i \in DOMAIN w.down : ~IsFrame(w.down[i])
      BY <1>5, <1>7, <3>1
    <3> QED BY <3>2, <3>3, FrameCountNone
  <2>2. CountsFit(pg, q) => CountsFit(pg, w)
    BY <1>1, <1>7, <2>1 DEF CountsFit
  <2>3. PressesAccounted(pg, q, s, H) => PressesAccounted(pg, w, s, H)
    BY <1>1, <1>7 DEF PressesAccounted
  <2>4. ScreenArrives(pg, w, screen)
    <3> SUFFICES ASSUME NEW j \in DeckKeys
                 PROVE  /\ \A v \in Nat : Says(w, j, v) => v = screen[j]
                        /\ NothingComes(w, j) /\ screen[j] # Blank => pg.images[j] = screen[j]
      BY DEF ScreenArrives
    <3>1. all[j] = IF screen[j] = Blank THEN NoItem ELSE screen[j]
      BY <1>3
    <3>2. screen[j] # NoItem
      BY DEF NoItem
    <3>3. \A i \in DOMAIN d : ~IsPicture(d[i], j)
      BY <1>4, <1>5 DEF IsPicture
    <3>4. \A v : ~IsLast(d, j, v)
      BY <3>3 DEF IsLast
    <3> QED BY <1>7, <3>1, <3>2, <3>4 DEF Says, NothingComes
  <2>5. PageFits(pg, w, s, H, screen)
    BY <1>1, <1>6, <1>7, <1>11, <2>2, <2>3, <2>4 DEF PageFits
  <2> QED BY <1>8, <2>5, DrainedPage
<1> QED BY <1>2, <1>9, <1>10, <1>11

(* A session that goes. *)
LEMMA GoneFields ==
    /\ ForgottenSession \in SessionRecs
    /\ ForgottenSession.state = "closed" /\ ForgottenSession.open = FALSE
    /\ ForgottenSession.up = << >> /\ ForgottenSession.down = << >>
    /\ \A k \in DeckKeys : ForgottenSession.pending[k] = NoItem
<1> DEFINE none == [k \in DeckKeys |-> NoItem]
<1>1. none \in [DeckKeys -> Items] /\ \A k \in DeckKeys : none[k] = NoItem
  BY DEF Items
<1> HIDE DEF none
<1>2. PICK m : m = <<[t |-> "hello"]>>
  OBVIOUS
<1>3. NewSession = [state |-> "awaiting-hello", open |-> TRUE, up |-> m, down |-> << >>,
                    pending |-> none, sent |-> 0, acked |-> 0]
  BY <1>2 DEF NewSession, none
<1>4. PICK state, open, none2 : state = "closed" /\ open = FALSE /\ none2 = << >>
  OBVIOUS
<1>5. ForgottenSession = [NewSession EXCEPT !.state = state, !.open = open, !.up = none2]
  BY <1>4 DEF ForgottenSession
<1>6. ForgottenSession = [state |-> state, open |-> open, up |-> none2, down |-> << >>,
                          pending |-> none, sent |-> 0, acked |-> 0]
  BY <1>3, <1>5
<1>7. << >> \in Seq(UpMessages) /\ << >> \in Seq(DownMessages)
  OBVIOUS
<1> QED BY <1>1, <1>4, <1>6, <1>7 DEF SessionRecs, SessionStates

LEMMA ClosedPage ==
    ASSUME NEW r, r.state = "closed", r.open = FALSE, NEW pg, NEW s, NEW H, NEW screen
    PROVE  PageFits(pg, r, s, H, screen)
BY DEF PageFits

LEMMA ForgottenOk ==
    SessionOk(ForgottenSession)
BY GoneFields DEF SessionOk, WaitsForRoom

LEMMA DroppedOk ==
    ASSUME NEW q, SessionOk(q), NEW terminal \in BOOLEAN
    PROVE  LET r == DroppedSession(q, terminal) IN SessionOk(r) /\ r.state = "closed" /\ r.open = FALSE
<1> DEFINE r == DroppedSession(q, terminal)
           m == [t |-> "bye", terminal |-> terminal]
           d == IF q.open THEN Append(q.down, m) ELSE << >>
<1>1. q.down \in Seq(DownMessages)
  BY SessionFields DEF SessionOk
<1>2. m \in DownMessages
  BY DEF DownMessages
<1>3. d \in Seq(DownMessages)
  BY <1>1, <1>2
<1>4. r = [ForgottenSession EXCEPT !.down = d]
  BY DEF DroppedSession
<1> HIDE DEF d
<1>5. r \in SessionRecs /\ r.state = "closed" /\ r.open = FALSE /\ r.up = << >>
  BY <1>3, <1>4, GoneFields DEF SessionRecs
<1>6. r.pending = ForgottenSession.pending
  BY <1>4, GoneFields DEF SessionRecs
<1>7. \A k \in DeckKeys : r.pending[k] = NoItem
  BY <1>6, GoneFields
<1> HIDE DEF r
<1>8. SessionOk(r)
  BY <1>5, <1>7 DEF SessionOk, WaitsForRoom
<1> QED BY <1>5, <1>8 DEF r

-----------------------------------------------------------------------------
(* The hub reads what a page sent. *)

LEMMA TailPlaces ==
    ASSUME NEW R, NEW u \in Seq(R), u # << >>
    PROVE  /\ Tail(u) \in Seq(R) /\ Head(u) \in R /\ Head(u) = u[1] /\ 1 \in DOMAIN u
           /\ \A i \in DOMAIN Tail(u) : i + 1 \in DOMAIN u /\ Tail(u)[i] = u[i + 1]
           /\ \A j \in DOMAIN u : j # 1 => j - 1 \in DOMAIN Tail(u) /\ Tail(u)[j - 1] = u[j]
<1> DEFINE n == Len(u)
           e == Tail(u)
<1>1. n \in Nat /\ n > 0 /\ DOMAIN u = 1..n /\ DOMAIN e = 1..(n - 1) /\ e \in Seq(R)
  OBVIOUS
<1>2. (\A i \in 1..(n - 1) : e[i] = u[i + 1]) /\ Head(u) = u[1] /\ Head(u) \in R
  BY <1>1
<1> HIDE DEF n, e
<1>3. \A j \in 1..n : j # 1 => j - 1 \in 1..(n - 1) /\ j - 1 + 1 = j
  BY <1>1
<1>4. \A i \in 1..(n - 1) : i + 1 \in 1..n
  BY <1>1
<1> QED BY <1>1, <1>2, <1>3, <1>4 DEF e

ReadSession(q) == [q EXCEPT !.up = Tail(@)]

LEMMA ReadFields ==
    ASSUME NEW q, SessionOk(q), q.state # "closed", q.up # << >>
    PROVE  LET r == ReadSession(q) IN
             /\ q \in SessionRecs /\ Head(q.up) \in UpMessages
             /\ r \in SessionRecs /\ r.state = q.state /\ r.open = q.open /\ r.up = Tail(q.up)
             /\ r.down = q.down /\ r.pending = q.pending /\ r.sent = q.sent /\ r.acked = q.acked
             /\ \/ q.state = "live" /\ Head(q.up).t # "hello"
                \/ q.state = "awaiting-hello" /\ Head(q.up).t = "hello" /\ r.up = << >>
<1>1. q \in SessionRecs
  BY DEF SessionOk
<1>2. q.up \in Seq(UpMessages) /\ q.state \in SessionStates
  BY <1>1, SessionFields
<1>3. Tail(q.up) \in Seq(UpMessages) /\ Head(q.up) \in UpMessages /\ Head(q.up) = q.up[1] /\ 1 \in DOMAIN q.up
  BY <1>2, TailPlaces
<1> DEFINE e == Tail(q.up)
<1>4. ReadSession(q) = [q EXCEPT !.up = e]
  BY <1>1 DEF ReadSession, SessionRecs
<1> HIDE DEF e
<1>5. LET r == ReadSession(q) IN
        /\ r \in SessionRecs /\ r.state = q.state /\ r.open = q.open /\ r.up = e
        /\ r.down = q.down /\ r.pending = q.pending /\ r.sent = q.sent /\ r.acked = q.acked
  BY <1>1, <1>3, <1>4 DEF SessionRecs, e
<1>6. q.state \in {"awaiting-hello", "live"}
  BY <1>2 DEF SessionOk, SessionStates
<1>7. CASE q.state = "live"
  <2>1. Head(q.up).t # "hello"
    BY <1>3, <1>7 DEF SessionOk
  <2> QED BY <1>1, <1>3, <1>5, <1>7, <2>1 DEF e
<1>8. CASE q.state = "awaiting-hello"
  <2>1. PICK m : m = [t |-> "hello"]
    OBVIOUS
  <2>2. q.up = <<m>>
    BY <1>8, <2>1 DEF SessionOk
  <2>3. Head(q.up) = m /\ Tail(q.up) = << >>
    BY <2>2
  <2>4. m.t = "hello"
    BY <2>1
  <2> QED BY <1>1, <1>3, <1>5, <1>8, <2>3, <2>4 DEF e
<1> QED BY <1>6, <1>7, <1>8

(* hello: the session waits for verify. *)
LEMMA GreetedSession ==
    ASSUME NEW q, SessionOk(q), q.state # "closed", q.up # << >>, Head(q.up).t = "hello"
    PROVE  LET r == [ReadSession(q) EXCEPT !.state = "authenticating"] IN
             /\ q.state # "live" /\ SessionOk(r) /\ r.state # "live" /\ r.open = q.open
             /\ \A pg \in PageRecs : \A s, H, screen :
                  PageFits(pg, q, s, H, screen) => PageFits(pg, r, s, H, screen)
<1> DEFINE e == ReadSession(q)
           r == [e EXCEPT !.state = "authenticating"]
<1>1. /\ q \in SessionRecs /\ e \in SessionRecs /\ e.state = q.state /\ e.open = q.open /\ e.up = << >>
      /\ e.down = q.down /\ e.pending = q.pending /\ e.sent = q.sent /\ e.acked = q.acked
      /\ q.state = "awaiting-hello"
  BY ReadFields
<1>2. q.down = << >> /\ q.sent = 0 /\ q.acked = 0 /\ \A k \in DeckKeys : q.pending[k] = NoItem
  BY <1>1 DEF SessionOk
<1> HIDE DEF e
<1>3. r \in SessionRecs /\ r.state = "authenticating" /\ r.open = q.open /\ r.up = << >>
        /\ r.down = << >> /\ r.pending = q.pending /\ r.sent = 0 /\ r.acked = 0
  BY <1>1, <1>2 DEF SessionRecs, SessionStates
<1> HIDE DEF r
<1>4. SessionOk(r)
  BY <1>2, <1>3 DEF SessionOk, WaitsForRoom
<1>5. ASSUME NEW pg \in PageRecs, NEW s, NEW H, NEW screen, PageFits(pg, q, s, H, screen)
      PROVE  PageFits(pg, r, s, H, screen)
  <2>1. ~pg.live
    BY <1>1, <1>5 DEF PageFits
  <2>2. ASSUME CountsFit(pg, q) PROVE CountsFit(pg, r)
    <3>0. << >> \in Seq(DownMessages) /\ DOMAIN << >> = {}
      OBVIOUS
    <3>1. FrameCount(<< >>) = 0 /\ pg.frames \in Nat
      BY <3>0, FrameCountNone DEF PageRecs
    <3>2. pg.frames = 0
      BY <1>2, <2>2, <3>1 DEF CountsFit
    <3> QED BY <1>3, <3>1, <3>2 DEF CountsFit
  <2>3. ASSUME PressesAccounted(pg, q, s, H) PROVE PressesAccounted(pg, r, s, H)
    BY <1>3, <2>1, <2>3 DEF PressesAccounted, Untouched
  <2> QED BY <1>3, <1>5, <2>1, <2>2, <2>3 DEF PageFits
<1> QED BY <1>1, <1>3, <1>4, <1>5 DEF r, e

(* A message of a live page is read: what it said of the keys is now what the hub holds. *)
LEMMA HeardSession ==
    ASSUME NEW q, SessionOk(q), q.state # "closed", q.up # << >>, Head(q.up).t \notin {"hello", "ack"}
    PROVE  LET r == ReadSession(q) IN
             /\ q.state = "live" /\ SessionOk(r) /\ r.state = "live" /\ r.open = q.open
             /\ \A pg \in PageRecs : \A s, H, G, screen :
                  /\ PageFits(pg, q, s, H, screen)
                  /\ \A k \in DeckKeys : s \in G[k] =>
                       IsDown(Head(q.up), k) \/ (s \in H[k] /\ ~IsUp(Head(q.up), k))
                  => PageFits(pg, r, s, G, screen)
<1> DEFINE r == ReadSession(q)
<1>1. /\ q \in SessionRecs /\ r \in SessionRecs /\ r.state = q.state /\ r.open = q.open /\ r.up = Tail(q.up)
      /\ r.down = q.down /\ r.pending = q.pending /\ r.sent = q.sent /\ r.acked = q.acked
      /\ q.state = "live"
  BY ReadFields
<1> HIDE DEF r
<1>2. q.up \in Seq(UpMessages)
  BY <1>1, SessionFields
<1>3. /\ Head(q.up) = q.up[1]
      /\ \A i \in DOMAIN Tail(q.up) : i + 1 \in DOMAIN q.up /\ Tail(q.up)[i] = q.up[i + 1]
      /\ \A j \in DOMAIN q.up : j # 1 => j - 1 \in DOMAIN Tail(q.up) /\ Tail(q.up)[j - 1] = q.up[j]
  BY <1>2, TailPlaces
<1>4. SessionOk(r)
  <2>1. \A i \in DOMAIN r.up : r.up[i].t # "hello"
    BY <1>1, <1>3 DEF SessionOk
  <2>2. WaitsForRoom(r, DeckKeys)
    BY <1>1 DEF SessionOk, WaitsForRoom
  <2> QED BY <1>1, <2>1, <2>2, LiveSessionOk
<1>5. ASSUME NEW pg \in PageRecs, NEW s, NEW H, NEW G, NEW screen, PageFits(pg, q, s, H, screen),
             \A k \in DeckKeys : s \in G[k] =>
                       IsDown(Head(q.up), k) \/ (s \in H[k] /\ ~IsUp(Head(q.up), k))
      PROVE  PageFits(pg, r, s, G, screen)
  <2>1. ASSUME CountsFit(pg, q) PROVE CountsFit(pg, r)
    <3>1. \A i \in DOMAIN r.up : r.up[i].t = "ack" => r.up[i].n <= pg.frames
      BY <1>1, <1>3, <2>1 DEF CountsFit
    <3>2. ASSUME q.acked < pg.frames
          PROVE  \E i \in DOMAIN r.up : r.up[i].t = "ack" /\ r.up[i].n = pg.frames
      <4>1. PICK i \in DOMAIN q.up : q.up[i].t = "ack" /\ q.up[i].n = pg.frames
        BY <2>1, <3>2 DEF CountsFit
      <4>2. i # 1
        BY <1>3, <4>1
      <4> QED BY <1>1, <1>3, <4>1, <4>2
    <3> QED BY <1>1, <2>1, <3>1, <3>2 DEF CountsFit
  <2>2. ASSUME PressesAccounted(pg, q, s, H) PROVE PressesAccounted(pg, r, s, G)
    <3> SUFFICES ASSUME NEW k \in DeckKeys
                 PROVE  IF pg.live THEN Accounted(r.up, k, s \in G[k], pg.pressed)
                        ELSE Untouched(r.up, k, s \in G[k])
      BY DEF PressesAccounted
    <3>0. (s \in H[k]) \in BOOLEAN /\ (s \in G[k]) \in BOOLEAN
      OBVIOUS
    <3>1. CASE pg.live
      <4>1. Accounted(q.up, k, s \in H[k], pg.pressed)
        BY <2>2, <3>1 DEF PressesAccounted
      <4>2. Accounted(Tail(q.up), k, s \in G[k], pg.pressed)
        BY <1>2, <1>5, <3>0, <4>1, AccountedTail
      <4> QED BY <1>1, <3>1, <4>2
    <3>2. CASE ~pg.live
      <4>1. Untouched(q.up, k, s \in H[k])
        BY <2>2, <3>2 DEF PressesAccounted
      <4>2. Untouched(Tail(q.up), k, FALSE) /\ ~(s \in H[k]) /\ ~IsDown(Head(q.up), k)
        BY <1>2, <3>0, <4>1, UntouchedTail
      <4>3. ~(s \in G[k])
        BY <1>5, <4>2
      <4>4. Untouched(Tail(q.up), k, s \in G[k])
        BY <4>2, <4>3 DEF Untouched
      <4> QED BY <1>1, <3>2, <4>4
    <3> QED BY <3>1, <3>2
  <2>3. ASSUME ScreenArrives(pg, q, screen) PROVE ScreenArrives(pg, r, screen)
    BY <1>1, <2>3 DEF ScreenArrives, Says, NothingComes
  <2> QED BY <1>1, <1>5, <2>1, <2>2, <2>3 DEF PageFits
<1> QED BY <1>1, <1>4, <1>5 DEF r

(* An acknowledgement makes room, and what waited goes out. *)
LEMMA AckedSession ==
    ASSUME NEW q, SessionOk(q), q.state # "closed", q.up # << >>, Head(q.up).t = "ack"
    PROVE  LET r == AckFrames(ReadSession(q), Head(q.up).n) IN
             /\ q.state = "live" /\ SessionOk(r) /\ r.state = "live" /\ r.open = q.open
             /\ \A pg \in PageRecs : \A s, H, screen :
                  PageFits(pg, q, s, H, screen) => PageFits(pg, r, s, H, screen)
<1> DEFINE e == ReadSession(q)
           n == Head(q.up).n
           m == IF n < e.sent THEN n ELSE e.sent
           a == IF m > e.acked THEN m ELSE e.acked
           w == [e EXCEPT !.acked = a]
           r == Drain(w)
<1>1. /\ q \in SessionRecs /\ e \in SessionRecs /\ e.state = q.state /\ e.open = q.open /\ e.up = Tail(q.up)
      /\ e.down = q.down /\ e.pending = q.pending /\ e.sent = q.sent /\ e.acked = q.acked
      /\ q.state = "live" /\ Head(q.up) \in UpMessages
  BY ReadFields
<1>2. n \in Nat
  BY <1>1 DEF UpMessages
<1>3. AckFrames(e, n) = r
  BY <1>1 DEF AckFrames, SessionRecs
<1> HIDE DEF e, n
<1>4. q.up \in Seq(UpMessages) /\ q.sent \in Nat /\ q.acked \in Nat /\ q.down \in Seq(DownMessages)
  BY <1>1, SessionFields
<1>5. a = (IF m > q.acked THEN m ELSE q.acked) /\ m = (IF n < q.sent THEN n ELSE q.sent)
  BY <1>1
<1>6. m \in Nat /\ a \in Nat
  BY <1>1, <1>2, <1>4
<1> HIDE DEF m, a
<1>7. /\ w \in SessionRecs /\ w.state = "live" /\ w.open = q.open /\ w.up = Tail(q.up)
      /\ w.down = q.down /\ w.pending = q.pending /\ w.sent = q.sent /\ w.acked = a
  BY <1>1, <1>6 DEF SessionRecs
<1> HIDE DEF w
<1>8. Drained(w, r) /\ WaitsForRoom(r, DeckKeys)
  BY <1>7, DrainEffect
<1> HIDE DEF r
<1>9. r \in SessionRecs /\ r.state = "live" /\ r.open = q.open /\ r.up = Tail(q.up)
  BY <1>7, <1>8 DEF Drained
<1>10. /\ Head(q.up) = q.up[1] /\ 1 \in DOMAIN q.up
       /\ \A i \in DOMAIN Tail(q.up) : i + 1 \in DOMAIN q.up /\ Tail(q.up)[i] = q.up[i + 1]
       /\ \A j \in DOMAIN q.up : j # 1 => j - 1 \in DOMAIN Tail(q.up) /\ Tail(q.up)[j - 1] = q.up[j]
  BY <1>4, TailPlaces
<1>11. \A i \in DOMAIN r.up : r.up[i].t # "hello"
  BY <1>1, <1>9, <1>10 DEF SessionOk
<1>12. SessionOk(r)
  BY <1>8, <1>9, <1>11, LiveSessionOk
<1>13. ASSUME NEW pg \in PageRecs, NEW s, NEW H, NEW screen, PageFits(pg, q, s, H, screen)
       PROVE  PageFits(pg, r, s, H, screen)
  <2>1. ASSUME CountsFit(pg, q) PROVE CountsFit(pg, w)
    <3>1. pg.frames \in Nat /\ FrameCount(q.down) \in Nat
      BY <1>4, FrameCountNat DEF PageRecs
    <3>2. pg.frames + FrameCount(q.down) = q.sent /\ q.acked <= pg.frames /\ n <= pg.frames
      BY <1>10, <2>1 DEF CountsFit, n
    <3>3. m = n /\ a <= pg.frames
      BY <1>2, <1>4, <1>5, <3>1, <3>2
    <3>4. \A i \in DOMAIN w.up : w.up[i].t = "ack" => w.up[i].n <= pg.frames
      BY <1>7, <1>10, <2>1 DEF CountsFit
    <3>5. ASSUME a < pg.frames
          PROVE  \E i \in DOMAIN w.up : w.up[i].t = "ack" /\ w.up[i].n = pg.frames
      <4>1. q.acked < pg.frames /\ n < pg.frames
        BY <1>2, <1>4, <1>5, <3>1, <3>2, <3>3, <3>5
      <4>2. PICK i \in DOMAIN q.up : q.up[i].t = "ack" /\ q.up[i].n = pg.frames
        BY <2>1, <4>1 DEF CountsFit
      <4>3. i # 1
        BY <1>2, <1>10, <3>1, <4>1, <4>2 DEF n
      <4> QED BY <1>7, <1>10, <4>2, <4>3
    <3> QED BY <1>7, <2>1, <3>3, <3>4, <3>5 DEF CountsFit
  <2>2. ASSUME PressesAccounted(pg, q, s, H) PROVE PressesAccounted(pg, w, s, H)
    <3> SUFFICES ASSUME NEW k \in DeckKeys
                 PROVE  IF pg.live THEN Accounted(w.up, k, s \in H[k], pg.pressed)
                        ELSE Untouched(w.up, k, s \in H[k])
      BY DEF PressesAccounted
    <3>0. (s \in H[k]) \in BOOLEAN
      OBVIOUS
    <3>1. CASE pg.live
      <4>1. Accounted(q.up, k, s \in H[k], pg.pressed)
        BY <2>2, <3>1 DEF PressesAccounted
      <4>2. ~IsUp(Head(q.up), k)
        BY DEF IsUp
      <4>3. Accounted(Tail(q.up), k, s \in H[k], pg.pressed)
        BY <1>4, <3>0, <4>1, <4>2, AccountedTail
      <4> QED BY <1>7, <3>1, <4>3
    <3>2. CASE ~pg.live
      <4>1. Untouched(q.up, k, s \in H[k])
        BY <2>2, <3>2 DEF PressesAccounted
      <4>2. Untouched(Tail(q.up), k, FALSE) /\ ~(s \in H[k])
        BY <1>4, <3>0, <4>1, UntouchedTail
      <4>4. Untouched(Tail(q.up), k, s \in H[k])
        BY <4>2 DEF Untouched
      <4> QED BY <1>7, <3>2, <4>4
    <3> QED BY <3>1, <3>2
  <2>3. ASSUME ScreenArrives(pg, q, screen) PROVE ScreenArrives(pg, w, screen)
    BY <1>7, <2>3 DEF ScreenArrives, Says, NothingComes
  <2>4. PageFits(pg, w, s, H, screen)
    BY <1>1, <1>7, <1>13, <2>1, <2>2, <2>3 DEF PageFits
  <2> QED BY <1>8, <2>4, DrainedPage
<1> QED BY <1>1, <1>3, <1>9, <1>12, <1>13 DEF e, n

-----------------------------------------------------------------------------
(* What a page does on its socket. *)

LEMMA PageFields ==
    ASSUME NEW pg \in PageRecs
    PROVE  /\ pg.sock \in Nat /\ pg.live \in BOOLEAN /\ pg.frames \in Nat
           /\ pg.images \in [DeckKeys -> Nat] /\ pg.pressed \in SUBSET DeckKeys /\ pg.stopped \in BOOLEAN
BY DEF PageRecs

(* A message of a page. *)
SentSession(q, m) == IF q.open /\ q.state # "closed" THEN [q EXCEPT !.up = Append(@, m)] ELSE q

LEMMA SentFields ==
    ASSUME NEW q, SessionOk(q), NEW m \in UpMessages, m.t # "hello", q.state \in {"live", "closed"}
    PROVE  LET r == SentSession(q, m) IN
             /\ SessionOk(r) /\ r \in SessionRecs /\ r.state = q.state /\ r.open = q.open
             /\ r.up = (IF q.open /\ q.state # "closed" THEN Append(q.up, m) ELSE q.up)
             /\ r.down = q.down /\ r.pending = q.pending /\ r.sent = q.sent /\ r.acked = q.acked
<1> DEFINE r == SentSession(q, m)
           u == Append(q.up, m)
<1>1. q \in SessionRecs
  BY DEF SessionOk
<1>2. q.up \in Seq(UpMessages)
  BY <1>1, SessionFields
<1>3. CASE ~(q.open /\ q.state # "closed")
  BY <1>1, <1>3 DEF SentSession
<1>4. CASE q.open /\ q.state # "closed"
  <2>1. u \in Seq(UpMessages) /\ DOMAIN u = DOMAIN q.up \cup {Len(q.up) + 1}
    BY <1>2
  <2>2. (\A i \in DOMAIN q.up : u[i] = q.up[i]) /\ u[Len(q.up) + 1] = m
    BY <1>2
  <2>3. r = [q EXCEPT !.up = u]
    BY <1>4 DEF SentSession
  <2> HIDE DEF u
  <2>4. /\ r \in SessionRecs /\ r.state = q.state /\ r.open = q.open /\ r.up = u
        /\ r.down = q.down /\ r.pending = q.pending /\ r.sent = q.sent /\ r.acked = q.acked
    BY <1>1, <2>1, <2>3 DEF SessionRecs
  <2> HIDE DEF r
  <2>5. q.state = "live"
    BY <1>4
  <2>6. \A i \in DOMAIN r.up : r.up[i].t # "hello"
    BY <2>1, <2>2, <2>4, <2>5 DEF SessionOk
  <2>7. WaitsForRoom(r, DeckKeys)
    BY <2>4 DEF SessionOk, WaitsForRoom
  <2>8. SessionOk(r)
    BY <2>4, <2>5, <2>6, <2>7, LiveSessionOk
  <2> QED BY <1>4, <2>4, <2>8 DEF r, u
<1> QED BY <1>3, <1>4

(* A press or a lift of a connected page. *)
LEMMA InputSession ==
    ASSUME NEW q, SessionOk(q), NEW m \in UpMessages, m.t \in {"down", "up"},
           NEW pg \in PageRecs, pg.live, NEW s, NEW H, NEW screen, PageFits(pg, q, s, H, screen),
           NEW after \in SUBSET DeckKeys,
           \A k \in DeckKeys : (IsDown(m, k) => k \in after) /\ (k \in pg.pressed => k \in after \/ IsUp(m, k))
    PROVE  LET r == SentSession(q, m)
               o == [pg EXCEPT !.pressed = after]
           IN  /\ SessionOk(r) /\ r.state = q.state /\ r.open = q.open
               /\ o \in PageRecs /\ o.sock = pg.sock /\ o.live = pg.live /\ PageFits(o, r, s, H, screen)
<1> DEFINE r == SentSession(q, m)
           o == [pg EXCEPT !.pressed = after]
<1>1. q.state \in {"live", "closed"}
  BY DEF PageFits
<1>2. /\ SessionOk(r) /\ r \in SessionRecs /\ r.state = q.state /\ r.open = q.open
      /\ r.up = (IF q.open /\ q.state # "closed" THEN Append(q.up, m) ELSE q.up)
      /\ r.down = q.down /\ r.pending = q.pending /\ r.sent = q.sent /\ r.acked = q.acked
  BY <1>1, SentFields
<1> HIDE DEF r
<1>3. /\ o \in PageRecs /\ o.sock = pg.sock /\ o.live = pg.live /\ o.frames = pg.frames
      /\ o.images = pg.images /\ o.pressed = after
  BY DEF PageRecs
<1> HIDE DEF o
<1>4. q.up \in Seq(UpMessages)
  BY SessionFields DEF SessionOk
<1>5. ASSUME q.open PROVE CountsFit(o, r) /\ PressesAccounted(o, r, s, H)
  <2> DEFINE u == Append(q.up, m)
  <2>0. q.state # "closed"
    BY <1>5 DEF SessionOk
  <2>1. r.up = u
    BY <1>2, <1>5, <2>0
  <2>2. DOMAIN u = DOMAIN q.up \cup {Len(q.up) + 1} /\ u[Len(q.up) + 1] = m
          /\ \A i \in DOMAIN q.up : u[i] = q.up[i]
    BY <1>4
  <2>3. CountsFit(pg, q) /\ PressesAccounted(pg, q, s, H)
    BY <1>5 DEF PageFits
  <2> HIDE DEF u
  <2>4. \A i \in DOMAIN r.up : r.up[i].t = "ack" => r.up[i].n <= o.frames
    BY <1>3, <2>1, <2>2, <2>3 DEF CountsFit
  <2>5. q.acked < pg.frames => \E i \in DOMAIN r.up : r.up[i].t = "ack" /\ r.up[i].n = o.frames
    BY <1>3, <2>1, <2>2, <2>3 DEF CountsFit
  <2>6. CountsFit(o, r)
    BY <1>2, <1>3, <2>3, <2>4, <2>5 DEF CountsFit
  <2>7. ASSUME NEW k \in DeckKeys PROVE Accounted(r.up, k, s \in H[k], o.pressed)
    <3>1. Accounted(q.up, k, s \in H[k], pg.pressed) /\ (s \in H[k]) \in BOOLEAN
      BY <2>3 DEF PressesAccounted
    <3>2. Accounted(Append(q.up, m), k, s \in H[k], after)
      BY <1>4, <3>1, AccountedAppend
    <3> QED BY <1>3, <2>1, <3>2 DEF u
  <2>8. PressesAccounted(o, r, s, H)
    BY <1>3, <2>7 DEF PressesAccounted
  <2> QED BY <2>6, <2>8
<1>6. ASSUME ScreenArrives(pg, q, screen) PROVE ScreenArrives(o, r, screen)
  BY <1>2, <1>3, <1>6 DEF ScreenArrives, Says, NothingComes
<1>7. PageFits(o, r, s, H, screen)
  BY <1>1, <1>2, <1>5, <1>6 DEF PageFits
<1> QED BY <1>2, <1>3, <1>7 DEF r, o

(* What a page makes of a message. *)
GotSession(q, n) ==
  [q EXCEPT !.down = Tail(@), !.up = IF IsFrame(Head(q.down)) /\ q.open THEN Append(@, [t |-> "ack", n |-> n])
                                     ELSE @]

LEMMA GotPageFields ==
    ASSUME NEW pg \in PageRecs, NEW m \in DownMessages
    PROVE  LET o == GotPage(pg, m) IN
             /\ o \in PageRecs /\ o.sock = pg.sock /\ o.pressed = pg.pressed
             /\ o.live = (pg.live \/ m.t = "welcome")
             /\ o.frames = (IF IsFrame(m) THEN pg.frames + 1 ELSE pg.frames)
             /\ \A k \in DeckKeys : o.images[k] = IF IsPicture(m, k) THEN m.image ELSE pg.images[k]
<1> DEFINE o == GotPage(pg, m)
<1>0. /\ pg.sock \in Nat /\ pg.live \in BOOLEAN /\ pg.frames \in Nat
      /\ pg.images \in [DeckKeys -> Nat] /\ pg.pressed \in SUBSET DeckKeys /\ pg.stopped \in BOOLEAN
  BY PageFields
<1>1. CASE m.t = "welcome"
  <2>1. PICK yes : yes = TRUE
    OBVIOUS
  <2>2. o = [pg EXCEPT !.live = yes]
    BY <1>1, <2>1 DEF GotPage
  <2>3. o \in PageRecs /\ o.sock = pg.sock /\ o.pressed = pg.pressed /\ o.frames = pg.frames
          /\ o.images = pg.images /\ o.live = yes
    BY <2>1, <2>2 DEF PageRecs
  <2> QED BY <1>1, <2>1, <2>3 DEF IsFrame, IsPicture
<1>2. CASE m.t = "bye"
  <2> DEFINE x == pg.stopped \/ m.terminal
  <2>1. x \in BOOLEAN
    OBVIOUS
  <2>2. o = [pg EXCEPT !.stopped = x]
    BY <1>2 DEF GotPage
  <2> HIDE DEF x
  <2>3. o \in PageRecs /\ o.sock = pg.sock /\ o.pressed = pg.pressed /\ o.frames = pg.frames
          /\ o.images = pg.images /\ o.live = pg.live
    BY <2>1, <2>2 DEF PageRecs
  <2> QED BY <1>2, <2>3, <1>0 DEF IsFrame, IsPicture
<1>3. CASE m.t = "key"
  <2>0. m.k \in DeckKeys /\ m.image \in Nat
    BY <1>3 DEF DownMessages
  <2> DEFINE x == [pg.images EXCEPT ![m.k] = m.image]
             f == IF IsFrame(m) THEN pg.frames + 1 ELSE pg.frames
  <2>1. x \in [DeckKeys -> Nat] /\ f \in Nat
          /\ \A k \in DeckKeys : x[k] = IF k = m.k THEN m.image ELSE pg.images[k]
    BY <1>0, <2>0
  <2>2. o = [pg EXCEPT !.images = x, !.frames = f]
    BY <1>3 DEF GotPage, IsFrame
  <2> HIDE DEF x, f
  <2>3. o \in PageRecs /\ o.sock = pg.sock /\ o.pressed = pg.pressed /\ o.frames = f
          /\ o.images = x /\ o.live = pg.live
    BY <2>1, <2>2 DEF PageRecs
  <2>4. o.live = (pg.live \/ m.t = "welcome")
    BY <1>0, <1>3, <2>3
  <2>5. \A k \in DeckKeys : o.images[k] = IF IsPicture(m, k) THEN m.image ELSE pg.images[k]
    BY <1>3, <2>1, <2>3 DEF IsPicture
  <2> QED BY <2>3, <2>4, <2>5 DEF f
<1>4. m.t \in {"welcome", "bye", "key"}
  BY DEF DownMessages
<1> QED BY <1>1, <1>2, <1>3, <1>4

LEMMA ReceivedSession ==
    ASSUME NEW q, SessionOk(q), q.down # << >>, NEW pg \in PageRecs, NEW s, NEW H,
           NEW screen \in [DeckKeys -> Nat], PageFits(pg, q, s, H, screen)
    PROVE  LET r == GotSession(q, pg.frames + 1)
               o == GotPage(pg, Head(q.down))
           IN  /\ SessionOk(r) /\ r.state = q.state /\ r.open = q.open
               /\ o \in PageRecs /\ o.sock = pg.sock /\ PageFits(o, r, s, H, screen)
<1> DEFINE r == GotSession(q, pg.frames + 1)
           m == Head(q.down)
           o == GotPage(pg, m)
           ack == [t |-> "ack", n |-> pg.frames + 1]
           d == Tail(q.down)
           u == IF IsFrame(m) /\ q.open THEN Append(q.up, ack) ELSE q.up
<1>0. /\ q \in SessionRecs /\ q.down \in Seq(DownMessages) /\ q.up \in Seq(UpMessages)
      /\ q.sent \in Nat /\ q.acked \in Nat /\ q.pending \in [DeckKeys -> Items] /\ q.state \in SessionStates
  BY SessionFields DEF SessionOk
<1>1. pg.frames \in Nat /\ pg.live \in BOOLEAN
  BY PageFields
<1>2. m \in DownMessages /\ d \in Seq(DownMessages)
  BY <1>0, TailPlaces
<1>3. ack \in UpMessages /\ ack.t = "ack" /\ ack.n = pg.frames + 1
  BY <1>1 DEF UpMessages
<1>4. u \in Seq(UpMessages)
  BY <1>0, <1>3
<1>5. r = [q EXCEPT !.down = d, !.up = u]
  BY <1>0 DEF GotSession, SessionRecs
<1>6. /\ o \in PageRecs /\ o.sock = pg.sock /\ o.pressed = pg.pressed
      /\ o.live = (pg.live \/ m.t = "welcome")
      /\ o.frames = (IF IsFrame(m) THEN pg.frames + 1 ELSE pg.frames)
      /\ \A k \in DeckKeys : o.images[k] = IF IsPicture(m, k) THEN m.image ELSE pg.images[k]
  BY <1>2, GotPageFields
<1> HIDE DEF o
<1>7. q.state \in {"live", "closed"}
  BY <1>0 DEF SessionOk, SessionStates
<1>8. FrameCount(q.down) = (IF IsFrame(m) THEN FrameCount(d) + 1 ELSE FrameCount(d))
        /\ FrameCount(q.down) \in Nat /\ FrameCount(d) \in Nat
  BY <1>0, <1>2, FrameCountTail, FrameCountNat
<1>9. \A k : /\ \A v : IsLast(d, k, v) => IsLast(q.down, k, v)
             /\ IsPicture(m, k) /\ (\A i \in DOMAIN d : ~IsPicture(d[i], k)) => IsLast(q.down, k, m.image)
             /\ ~IsPicture(m, k) /\ (\A i \in DOMAIN d : ~IsPicture(d[i], k))
                  => \A i \in DOMAIN q.down : ~IsPicture(q.down[i], k)
  BY <1>0, LastOfTail
<1>10. IsFrame(m) /\ q.open =>
         /\ DOMAIN u = DOMAIN q.up \cup {Len(q.up) + 1} /\ u[Len(q.up) + 1] = ack
         /\ \A i \in DOMAIN q.up : u[i] = q.up[i]
  BY <1>0
<1>11. ~(IsFrame(m) /\ q.open) => u = q.up
  OBVIOUS
<1>12. u = (IF IsFrame(m) /\ q.open THEN Append(q.up, ack) ELSE q.up)
  OBVIOUS
<1> HIDE DEF m, d, u, ack
<1>13. /\ r \in SessionRecs /\ r.state = q.state /\ r.open = q.open /\ r.up = u /\ r.down = d
       /\ r.pending = q.pending /\ r.sent = q.sent /\ r.acked = q.acked
  BY <1>0, <1>2, <1>4, <1>5 DEF SessionRecs
<1> HIDE DEF r
<1>14. WaitsForRoom(r, DeckKeys)
  BY <1>13 DEF SessionOk, WaitsForRoom
<1>15. SessionOk(r)
  <2>1. CASE q.state = "live"
    <3>1. \A i \in DOMAIN q.up : q.up[i].t # "hello"
      BY <2>1 DEF SessionOk
    <3>2. \A i \in DOMAIN u : u[i].t # "hello"
      BY <1>3, <1>10, <1>11, <3>1
    <3> QED BY <1>13, <1>14, <2>1, <3>2, LiveSessionOk
  <2>2. CASE q.state = "closed"
    <3>1. ~q.open /\ q.up = << >>
      BY <2>2 DEF SessionOk
    <3>2. r.up = << >>
      BY <1>11, <1>13, <3>1
    <3> QED BY <1>13, <1>14, <2>2, <3>1, <3>2 DEF SessionOk
  <2> QED BY <1>7, <2>1, <2>2
<1>16. ASSUME q.open PROVE CountsFit(o, r)
  <2>1. CountsFit(pg, q)
    BY <1>16 DEF PageFits
  <2>2. pg.frames + FrameCount(q.down) = q.sent /\ q.acked <= pg.frames
    BY <2>1 DEF CountsFit
  <2>3. o.frames + FrameCount(d) = q.sent /\ q.acked <= o.frames /\ pg.frames <= o.frames
    BY <1>0, <1>1, <1>6, <1>8, <2>2
  <2>4. CASE IsFrame(m)
    <3>1. o.frames = ack.n
      BY <1>3, <1>6, <2>4
    <3>2. Len(q.up) + 1 \in DOMAIN u /\ u[Len(q.up) + 1] = ack
      BY <1>10, <1>16, <2>4
    <3>3. ASSUME NEW i \in DOMAIN u, u[i].t = "ack" PROVE u[i].n <= o.frames
      <4>1. CASE i \in DOMAIN q.up
        <5>1. u[i] = q.up[i]
          BY <1>10, <1>16, <2>4, <4>1
        <5>2. u[i].n <= pg.frames
          BY <2>1, <3>3, <4>1, <5>1 DEF CountsFit
        <5>3. o.frames = pg.frames + 1
          BY <1>6, <2>4
        <5>4. u[i] \in UpMessages
          BY <1>4
        <5>5. u[i].n \in Nat
          BY <3>3, <5>4 DEF UpMessages
        <5> QED BY <1>1, <5>2, <5>3, <5>5
      <4>2. CASE i \notin DOMAIN q.up
        <5>1. u[i] = ack
          BY <1>10, <1>16, <2>4, <4>2
        <5> QED BY <1>1, <1>3, <3>1, <5>1
      <4> QED BY <4>1, <4>2
    <3> QED BY <1>3, <1>13, <2>3, <3>1, <3>2, <3>3 DEF CountsFit
  <2>5. CASE ~IsFrame(m)
    <3>1. u = q.up /\ o.frames = pg.frames
      BY <1>6, <1>11, <2>5
    <3> QED BY <1>13, <2>1, <2>3, <3>1 DEF CountsFit
  <2> QED BY <2>4, <2>5
<1>17. ASSUME q.open, NEW k \in DeckKeys
       PROVE  IF o.live THEN Accounted(r.up, k, s \in H[k], o.pressed)
              ELSE Untouched(r.up, k, s \in H[k])
  <2>0. PressesAccounted(pg, q, s, H) /\ (s \in H[k]) \in BOOLEAN
    BY <1>17 DEF PageFits
  <2>1. ~IsDown(ack, k) /\ ~IsUp(ack, k)
    BY <1>3 DEF IsDown, IsUp
  <2>2. ASSUME Accounted(q.up, k, s \in H[k], pg.pressed) PROVE Accounted(u, k, s \in H[k], pg.pressed)
    BY <1>0, <1>3, <1>12, <2>0, <2>1, <2>2, AccountedAppend, ZenonT(40)
  <2>3. ASSUME Untouched(q.up, k, s \in H[k]) PROVE Untouched(u, k, s \in H[k])
    BY <1>0, <1>3, <1>12, <2>0, <2>1, <2>3, UntouchedAppend, ZenonT(40)
  <2>4. CASE pg.live
    <3>1. Accounted(q.up, k, s \in H[k], pg.pressed)
      BY <2>0, <2>4 DEF PressesAccounted
    <3> QED BY <1>6, <1>13, <2>2, <2>4, <3>1
  <2>5. CASE ~pg.live
    <3>1. Untouched(q.up, k, s \in H[k])
      BY <2>0, <2>5 DEF PressesAccounted
    <3>2. Untouched(u, k, s \in H[k])
      BY <2>3, <3>1
    <3>3. Accounted(u, k, s \in H[k], pg.pressed)
      BY <3>2 DEF Untouched, Accounted
    <3> QED BY <1>6, <1>13, <3>2, <3>3
  <2> QED BY <2>4, <2>5
<1>18. ASSUME q.open, q.state = "live" PROVE ScreenArrives(o, r, screen)
  <2>0. ScreenArrives(pg, q, screen)
    BY <1>18 DEF PageFits
  <2> SUFFICES ASSUME NEW k \in DeckKeys
               PROVE  /\ \A v \in Nat : Says(r, k, v) => v = screen[k]
                      /\ NothingComes(r, k) /\ screen[k] # Blank => o.images[k] = screen[k]
    BY DEF ScreenArrives
  <2>1. \A v \in Nat : Says(q, k, v) => v = screen[k]
    BY <2>0 DEF ScreenArrives
  <2>2. NothingComes(q, k) /\ screen[k] # Blank => pg.images[k] = screen[k]
    BY <2>0 DEF ScreenArrives
  <2>3. \A v \in Nat : Says(r, k, v) => Says(q, k, v)
    BY <1>9, <1>13 DEF Says
  <2>4. ASSUME NothingComes(r, k), screen[k] # Blank PROVE o.images[k] = screen[k]
    <3>1. q.pending[k] = NoItem /\ \A i \in DOMAIN d : ~IsPicture(d[i], k)
      BY <1>13, <2>4 DEF NothingComes
    <3>2. CASE IsPicture(m, k)
      <4>1. IsLast(q.down, k, m.image)
        BY <1>9, <3>1, <3>2
      <4>2. Says(q, k, m.image)
        BY <3>1, <4>1 DEF Says
      <4>3. m.image \in Nat
        BY <1>2, <3>2 DEF DownMessages, IsPicture
      <4>4. m.image = screen[k]
        BY <2>1, <4>2, <4>3
      <4> QED BY <1>6, <3>2, <4>4
    <3>3. CASE ~IsPicture(m, k)
      <4>1. NothingComes(q, k)
        BY <1>9, <3>1, <3>3 DEF NothingComes
      <4> QED BY <1>6, <2>2, <2>4, <3>3, <4>1
    <3> QED BY <3>2, <3>3
  <2> QED BY <2>1, <2>3, <2>4
<1>19. PageFits(o, r, s, H, screen)
  BY <1>7, <1>13, <1>16, <1>17, <1>18 DEF PageFits, PressesAccounted
<1> QED BY <1>6, <1>13, <1>15, <1>19 DEF r, o, m

(* A page leaves its socket. *)
LEMMA LeftSession ==
    ASSUME NEW q, SessionOk(q), q.state # "closed", NEW u \in Seq(UpMessages),
           u = << >> \/ u = q.up \/ (q.state = "live" /\ u = Append(q.up, [t |-> "releaseAll"]))
    PROVE  LET r == [q EXCEPT !.open = FALSE, !.up = u, !.down = << >>] IN
             SessionOk(r) /\ r.state = q.state /\ r.open = FALSE
<1> DEFINE m == [t |-> "releaseAll"]
<1>0. m.t = "releaseAll"
  OBVIOUS
<1>1. q \in SessionRecs
  BY DEF SessionOk
<1>2. q.up \in Seq(UpMessages) /\ q.state \in SessionStates
  BY <1>1, SessionFields
<1>3. PICK no, none : no = FALSE /\ none = << >>
  OBVIOUS
<1>4. no \in BOOLEAN /\ none \in Seq(DownMessages)
  <2>1. << >> \in Seq(DownMessages)
    OBVIOUS
  <2> QED BY <1>3, <2>1
<1> DEFINE r == [q EXCEPT !.open = no, !.up = u, !.down = none]
<1>5. /\ r \in SessionRecs /\ r.state = q.state /\ r.open = no /\ r.up = u
      /\ r.down = none /\ r.pending = q.pending /\ r.sent = q.sent /\ r.acked = q.acked
  BY <1>1, <1>4 DEF SessionRecs
<1> HIDE DEF r
<1>6. WaitsForRoom(r, DeckKeys)
  BY <1>5 DEF SessionOk, WaitsForRoom
<1>7. SessionOk(r)
  <2>1. CASE q.state = "live"
    <3>0. \A i \in DOMAIN q.up : q.up[i].t # "hello"
      BY <2>1 DEF SessionOk
    <3> DEFINE e == Append(q.up, m)
    <3>1. DOMAIN e = DOMAIN q.up \cup {Len(q.up) + 1} /\ e[Len(q.up) + 1] = m
            /\ \A i \in DOMAIN q.up : e[i] = q.up[i]
      BY <1>2
    <3> HIDE DEF m, e
    <3>2. \A i \in DOMAIN e : e[i].t # "hello"
      BY <1>0, <3>0, <3>1
    <3>3. \A i \in DOMAIN << >> : << >>[i].t # "hello"
      OBVIOUS
    <3>4. \A i \in DOMAIN u : u[i].t # "hello"
      BY <3>0, <3>2, <3>3 DEF e, m
    <3> QED BY <1>5, <1>6, <2>1, <3>4, LiveSessionOk
  <2>2. CASE q.state = "awaiting-hello"
    BY <1>3, <1>5, <1>6, <2>2 DEF SessionOk
  <2>3. CASE q.state = "authenticating"
    BY <1>3, <1>5, <1>6, <2>3 DEF SessionOk
  <2> QED BY <1>2, <2>1, <2>2, <2>3 DEF SessionStates
<1> QED BY <1>3, <1>5, <1>7 DEF r

LEMMA ShutPage ==
    ASSUME NEW r, r.open = FALSE, NEW pg, pg.live => r.state \in {"live", "closed"}, NEW s, NEW H, NEW screen
    PROVE  PageFits(pg, r, s, H, screen)
BY DEF PageFits

-----------------------------------------------------------------------------
(* From one session and one page to all of them. *)

LEMMA SessionAt ==
    ASSUME SessionsFit, NEW s \in DOMAIN deckSess
    PROVE  SessionOk(deckSess[s]) /\ deckSess[s] \in SessionRecs
BY DEF SessionsFit, SessionOk

LEMMA AllSessions ==
    ASSUME SessionsFit, NEW F, F = [s \in DOMAIN deckSess |-> F[s]], deckSess' = F,
           \A s \in DOMAIN deckSess : SessionOk(F[s])
    PROVE  SessionsFit' /\ DOMAIN deckSess' = DOMAIN deckSess
<1>1. deckSess \in Seq(SessionRecs)
  BY DEF SessionsFit
<1>2. Len(deckSess) \in Nat /\ DOMAIN deckSess = 1..Len(deckSess)
  BY <1>1
<1>3. \A s \in DOMAIN deckSess : F[s] \in SessionRecs
  BY DEF SessionOk
<1>4. F \in [1..Len(deckSess) -> SessionRecs]
  BY <1>2, <1>3
<1>5. F \in Seq(SessionRecs)
  BY <1>2, <1>4, SeqDef
<1>6. DOMAIN F = DOMAIN deckSess
  BY <1>2, <1>4
<1> QED BY <1>5, <1>6 DEF SessionsFit

LEMMA OneSession ==
    ASSUME SessionsFit, NEW s \in DOMAIN deckSess, NEW r, SessionOk(r),
           deckSess' = [deckSess EXCEPT ![s] = r]
    PROVE  /\ SessionsFit' /\ DOMAIN deckSess' = DOMAIN deckSess /\ deckSess'[s] = r
           /\ \A o \in DOMAIN deckSess : o # s => deckSess'[o] = deckSess[o]
<1> DEFINE F == [deckSess EXCEPT ![s] = r]
<1>1. F = [o \in DOMAIN deckSess |-> F[o]]
  BY DEF SessionsFit
<1>2. \A o \in DOMAIN deckSess : F[o] = IF o = s THEN r ELSE deckSess[o]
  BY DEF SessionsFit
<1>3. deckSess' = F
  OBVIOUS
<1> HIDE DEF F
<1>4. \A o \in DOMAIN deckSess : SessionOk(F[o])
  BY <1>2, SessionAt
<1>5. SessionsFit' /\ DOMAIN deckSess' = DOMAIN deckSess
  BY <1>1, <1>3, <1>4, AllSessions
<1> QED BY <1>2, <1>3, <1>5

LEMMA SamePage ==
    ASSUME NEW pg, NEW q, NEW s, NEW H, NEW G, NEW screen, PageFits(pg, q, s, H, screen),
           \A k \in DeckKeys : s \in G[k] <=> s \in H[k]
    PROVE  PageFits(pg, q, s, G, screen)
<1>1. ASSUME NEW k \in DeckKeys PROVE (s \in G[k]) = (s \in H[k])
  BY <1>1
<1>2. PressesAccounted(pg, q, s, H) => PressesAccounted(pg, q, s, G)
  BY <1>1 DEF PressesAccounted
<1> QED BY <1>2 DEF PageFits

LEMMA PagesKept ==
    ASSUME PagesFit, deckPage' = deckPage, DOMAIN deckSess \subseteq DOMAIN deckSess',
           \A pg \in PageRecs, s \in DOMAIN deckSess :
             PageFits(pg, deckSess[s], s, holders, vdock.screen)
               => PageFits(pg, deckSess'[s], s, holders', vdock'.screen)
    PROVE  PagesFit'
<1>1. deckPage \in [DeckPages -> PageRecs]
  BY DEF PagesFit
<1>2. \A p \in DeckPages : deckPage[p] \in PageRecs
  BY <1>1
<1>3. ASSUME NEW p \in DeckPages, deckPage[p].sock # NoSock
      PROVE  PageFits(deckPage[p], deckSess'[deckPage[p].sock], deckPage[p].sock, holders', vdock'.screen)
  <2>1. deckPage[p].sock \in DOMAIN deckSess
          /\ PageFits(deckPage[p], deckSess[deckPage[p].sock], deckPage[p].sock, holders, vdock.screen)
    BY <1>3 DEF PagesFit
  <2> QED BY <1>2, <2>1
<1>4. \A p \in DeckPages : IF deckPage[p].sock = NoSock THEN ~deckPage[p].live
                           ELSE deckPage[p].sock \in DOMAIN deckSess'
  BY DEF PagesFit
<1>5. \A p, o \in DeckPages : deckPage[p].sock # NoSock /\ deckPage[p].sock = deckPage[o].sock => p = o
  BY DEF PagesFit
<1> QED BY <1>1, <1>3, <1>4, <1>5 DEF PagesFit

LEMMA OnePage ==
    ASSUME PagesFit, NEW p \in DeckPages, NEW o \in PageRecs, deckPage' = [deckPage EXCEPT ![p] = o],
           DOMAIN deckSess \subseteq DOMAIN deckSess',
           o.sock = NoSock => ~o.live,
           o.sock # NoSock => /\ o.sock \in DOMAIN deckSess'
                              /\ PageFits(o, deckSess'[o.sock], o.sock, holders', vdock'.screen)
                              /\ o.sock = deckPage[p].sock \/ o.sock \notin DOMAIN deckSess,
           \A pg \in PageRecs, s \in DOMAIN deckSess :
             s # deckPage[p].sock /\ PageFits(pg, deckSess[s], s, holders, vdock.screen)
               => PageFits(pg, deckSess'[s], s, holders', vdock'.screen)
    PROVE  PagesFit'
<1>1. deckPage \in [DeckPages -> PageRecs]
  BY DEF PagesFit
<1>2. deckPage' \in [DeckPages -> PageRecs] /\ deckPage'[p] = o
        /\ \A x \in DeckPages : x # p => deckPage'[x] = deckPage[x]
  BY <1>1
<1>3. ASSUME NEW x \in DeckPages, x # p, deckPage[x].sock # NoSock
      PROVE  /\ deckPage[x].sock \in DOMAIN deckSess
             /\ deckPage[x].sock # deckPage[p].sock
             /\ PageFits(deckPage[x], deckSess'[deckPage[x].sock], deckPage[x].sock, holders', vdock'.screen)
  <2>1. deckPage[x].sock \in DOMAIN deckSess
          /\ PageFits(deckPage[x], deckSess[deckPage[x].sock], deckPage[x].sock, holders, vdock.screen)
    BY <1>3 DEF PagesFit
  <2>2. deckPage[x].sock # deckPage[p].sock
    BY <1>3 DEF PagesFit
  <2>3. deckPage[x] \in PageRecs
    BY <1>1
  <2> QED BY <2>1, <2>2, <2>3
<1>4. ASSUME NEW x \in DeckPages
      PROVE  IF deckPage'[x].sock = NoSock THEN ~deckPage'[x].live
             ELSE deckPage'[x].sock \in DOMAIN deckSess'
  <2>1. CASE x = p
    BY <1>2, <2>1
  <2>2. CASE x # p
    BY <1>2, <2>2 DEF PagesFit
  <2> QED BY <2>1, <2>2
<1>5. ASSUME NEW x \in DeckPages, deckPage'[x].sock # NoSock
      PROVE  PageFits(deckPage'[x], deckSess'[deckPage'[x].sock], deckPage'[x].sock, holders', vdock'.screen)
  <2>1. CASE x = p
    BY <1>2, <1>5, <2>1
  <2>2. CASE x # p
    BY <1>2, <1>3, <1>5, <2>2
  <2> QED BY <2>1, <2>2
<1>6. ASSUME NEW x \in DeckPages, NEW y \in DeckPages, deckPage'[x].sock # NoSock,
             deckPage'[x].sock = deckPage'[y].sock
      PROVE  x = y
  <2>1. CASE x # p /\ y # p
    BY <1>2, <1>6, <2>1 DEF PagesFit
  <2>2. CASE x = p /\ y # p
    <3>1. deckPage[y].sock = o.sock /\ o.sock # NoSock
      BY <1>2, <1>6, <2>2
    <3> QED BY <1>3, <2>2, <3>1
  <2>3. CASE x # p /\ y = p
    <3>1. deckPage[x].sock = o.sock /\ o.sock # NoSock
      BY <1>2, <1>6, <2>3
    <3> QED BY <1>3, <2>3, <3>1
  <2> QED BY <2>1, <2>2, <2>3
<1> QED BY <1>2, <1>4, <1>5, <1>6 DEF PagesFit

LEMMA DockKept ==
    ASSUME VdockFits, vdock' = vdock, deckSpent' \in Nat,
           \A s \in DOMAIN deckSess' : deckSess'[s].open =>
             Listening \/ (s \in DOMAIN deckSess /\ deckSess[s].open)
    PROVE  VdockFits'
<1>1. Listening' = Listening /\ WantedNow' = WantedNow /\ DeckFollowsSetting' = DeckFollowsSetting
  BY DEF Listening, WantedNow, DeckFollowsSetting
<1>2. ASSUME ~Listening' PROVE \A s \in DOMAIN deckSess' : ~deckSess'[s].open
  BY <1>1, <1>2 DEF VdockFits
<1> QED BY <1>1, <1>2 DEF VdockFits

LEMMA HoldersKept ==
    ASSUME HoldersFit, holders' = holders, keyDown' = keyDown, LiveSessions \subseteq LiveSessions'
    PROVE  HoldersFit'
<1>1. holders \in [DeckKeys -> SUBSET LiveSessions']
  BY DEF HoldersFit
<1> QED BY <1>1 DEF HoldersFit

LEMMA HolderFacts ==
    ASSUME HoldersFit, NEW k \in DeckKeys
    PROVE  holders[k] \subseteq LiveSessions /\ (k \in keyDown <=> holders[k] # {})
BY DEF HoldersFit

(* Sessions that are told bye and dropped, and the keys they held. *)
LEMMA ByeEffect ==
    ASSUME SessionsFit, HoldersFit, PagesFit, NEW S \in SUBSET DOMAIN deckSess, NEW terminal \in BOOLEAN,
           Bye(S, terminal), deckPage' = deckPage, vdock'.screen = vdock.screen
    PROVE  /\ SessionsFit' /\ HoldersFit' /\ PagesFit' /\ DOMAIN deckSess' = DOMAIN deckSess
           /\ \A s \in DOMAIN deckSess : deckSess'[s].open => deckSess[s].open /\ s \notin S
<1> DEFINE F == [s \in DOMAIN deckSess |-> IF s \in S /\ deckSess[s].state # "closed"
                                             THEN DroppedSession(deckSess[s], terminal) ELSE deckSess[s]]
<1>1. F = [s \in DOMAIN deckSess |-> F[s]]
  OBVIOUS
<1>2. \A s \in DOMAIN deckSess : F[s] = IF s \in S /\ deckSess[s].state # "closed"
                                          THEN DroppedSession(deckSess[s], terminal) ELSE deckSess[s]
  OBVIOUS
<1>3. deckSess' = F
  BY DEF Bye
<1>4. holders' = [k \in DeckKeys |-> holders[k] \ S] /\ keyDown' = keyDown \ FreedBy(S)
  BY DEF Bye, Release, ReleasedBy
<1> HIDE DEF F
<1>5. ASSUME NEW s \in DOMAIN deckSess
      PROVE  /\ SessionOk(F[s])
             /\ s \in S => F[s].state = "closed" /\ F[s].open = FALSE
             /\ s \notin S => F[s] = deckSess[s]
  <2>1. SessionOk(deckSess[s]) /\ deckSess[s] \in SessionRecs
    BY SessionAt
  <2>2. CASE s \in S /\ deckSess[s].state # "closed"
    <3> DEFINE r == DroppedSession(deckSess[s], terminal)
    <3>1. SessionOk(r) /\ r.state = "closed" /\ r.open = FALSE
      BY <2>1, DroppedOk
    <3>2. F[s] = r
      BY <1>2, <2>2
    <3> HIDE DEF r
    <3> QED BY <2>2, <3>1, <3>2
  <2>3. CASE s \in S /\ deckSess[s].state = "closed"
    <3>1. F[s] = deckSess[s]
      BY <1>2, <2>3
    <3>2. ~deckSess[s].open /\ deckSess[s].open \in BOOLEAN
      BY <2>1, <2>3, SessionFields DEF SessionOk
    <3> QED BY <2>1, <2>3, <3>1, <3>2
  <2>4. CASE s \notin S
    BY <1>2, <2>1, <2>4
  <2> QED BY <2>2, <2>3, <2>4
<1>6. SessionsFit' /\ DOMAIN deckSess' = DOMAIN deckSess
  BY <1>1, <1>3, <1>5, AllSessions
<1>7. LiveSessions' = LiveSessions \ S
  BY <1>3, <1>5, <1>6 DEF LiveSessions
<1>8. HoldersFit'
  <2>1. \A k \in DeckKeys : holders[k] \subseteq LiveSessions /\ (k \in keyDown <=> holders[k] # {})
    BY HolderFacts
  <2>2. holders' \in [DeckKeys -> SUBSET LiveSessions']
    BY <1>4, <1>7, <2>1
  <2>3. \A k \in DeckKeys : holders'[k] = holders[k] \ S
    BY <1>4
  <2>4. ASSUME NEW k \in DeckKeys PROVE k \in keyDown' <=> holders'[k] # {}
    <3>1. k \in FreedBy(S) <=> holders[k] # {} /\ holders[k] \subseteq S
      BY DEF FreedBy
    <3>2. holders[k] \ S = {} <=> holders[k] \subseteq S
      OBVIOUS
    <3> QED BY <1>4, <2>1, <2>3, <3>1, <3>2
  <2>5. keyDown' \subseteq DeckKeys
    BY <1>4 DEF HoldersFit
  <2>6. keyDown' = {k \in DeckKeys : holders'[k] # {}}
    BY <2>4, <2>5
  <2> QED BY <2>2, <2>6 DEF HoldersFit
<1>9. ASSUME NEW pg \in PageRecs, NEW s \in DOMAIN deckSess,
             PageFits(pg, deckSess[s], s, holders, vdock.screen)
      PROVE  PageFits(pg, deckSess'[s], s, holders', vdock'.screen)
  <2>1. CASE s \in S
    BY <1>3, <1>5, <2>1, ClosedPage
  <2>2. CASE s \notin S
    <3>1. \A k \in DeckKeys : s \in holders'[k] <=> s \in holders[k]
      BY <1>4, <2>2
    <3>2. deckSess'[s] = deckSess[s]
      BY <1>3, <1>5, <2>2
    <3>3. PageFits(pg, deckSess[s], s, holders', vdock.screen)
      BY <1>9, <3>1, SamePage
    <3> QED BY <3>2, <3>3
  <2> QED BY <2>1, <2>2
<1>10. PagesFit'
  BY <1>6, <1>9, PagesKept
<1> QED BY <1>3, <1>5, <1>6, <1>8, <1>10

-----------------------------------------------------------------------------
(* Every action keeps the invariant. *)

LEMMA DockFields ==
    ASSUME VdockFits
    PROVE  /\ vdock.enabled \in BOOLEAN /\ vdock.profile \in DeckProfiles /\ vdock.running \in Running
           /\ vdock.phase \in {"idle", "starting", "stopping"} /\ vdock.target \in Running
           /\ vdock.syncs \in Nat /\ vdock.failed \in BOOLEAN /\ vdock.screen \in [DeckKeys -> Nat]
           /\ WantedNow \in Running
BY DEF VdockFits, VdockRecs, WantedNow, Running

(* A picture or a clear reaches every live session. *)
LEMMA PaintKeeps ==
    ASSUME DeckInv, NEW k \in DeckKeys, NEW image \in Nat, Paint(k, image)
    PROVE  DeckInv'
<1> DEFINE F == [s \in DOMAIN deckSess |-> IF s \in LiveSessions THEN PushItem(deckSess[s], k, image)
                                             ELSE deckSess[s]]
           screen == [vdock.screen EXCEPT ![k] = image]
<1>0. SessionsFit /\ HoldersFit /\ PagesFit /\ VdockFits
  BY DEF DeckInv
<1>1. F = [s \in DOMAIN deckSess |-> F[s]]
        /\ \A s \in DOMAIN deckSess : F[s] = IF s \in LiveSessions THEN PushItem(deckSess[s], k, image)
                                               ELSE deckSess[s]
  OBVIOUS
<1>2. deckSess' = F /\ holders' = holders /\ keyDown' = keyDown /\ deckPage' = deckPage
        /\ deckSpent' = deckSpent + 1
  BY DEF Paint
<1>3. vdock' = [vdock EXCEPT !.screen = screen]
  BY <1>0 DEF Paint, VdockFits, VdockRecs
<1>4. screen \in [DeckKeys -> Nat]
  BY <1>0, DockFields
<1> HIDE DEF F
<1>5. ASSUME NEW s \in DOMAIN deckSess
      PROVE  /\ SessionOk(F[s]) /\ F[s].state = deckSess[s].state /\ F[s].open = deckSess[s].open
             /\ \A pg \in PageRecs : PageFits(pg, deckSess[s], s, holders, vdock.screen)
                                       => PageFits(pg, F[s], s, holders, screen)
  <2>0. SessionOk(deckSess[s])
    BY <1>0, SessionAt
  <2>1. CASE s \in LiveSessions
    <3> DEFINE r == PushItem(deckSess[s], k, image)
    <3>1. deckSess[s].state = "live"
      BY <2>1 DEF LiveSessions
    <3>2. vdock.screen \in [DeckKeys -> Nat]
      BY <1>0, DockFields
    <3>3. /\ SessionOk(r) /\ r.state = "live" /\ r.open = deckSess[s].open
          /\ \A pg \in PageRecs : PageFits(pg, deckSess[s], s, holders, vdock.screen)
                                    => PageFits(pg, r, s, holders, screen)
      BY <2>0, <3>1, <3>2, PushedSession
    <3>4. F[s] = r
      BY <1>1, <2>1
    <3> HIDE DEF r
    <3> QED BY <3>1, <3>3, <3>4
  <2>2. CASE s \notin LiveSessions
    <3>1. F[s] = deckSess[s] /\ deckSess[s].state # "live"
      BY <1>1, <2>2 DEF LiveSessions
    <3>2. \A pg \in PageRecs : PageFits(pg, deckSess[s], s, holders, vdock.screen)
                                 => PageFits(pg, deckSess[s], s, holders, screen)
      BY <3>1 DEF PageFits
    <3> QED BY <2>0, <3>1, <3>2
  <2> QED BY <2>1, <2>2
<1> HIDE DEF screen
<1>6. vdock' \in VdockRecs /\ vdock'.screen = screen /\ vdock'.enabled = vdock.enabled
        /\ vdock'.profile = vdock.profile /\ vdock'.running = vdock.running /\ vdock'.phase = vdock.phase
        /\ vdock'.target = vdock.target /\ vdock'.syncs = vdock.syncs /\ vdock'.failed = vdock.failed
  BY <1>0, <1>3, <1>4 DEF VdockFits, VdockRecs
<1>7. SessionsFit' /\ DOMAIN deckSess' = DOMAIN deckSess
  BY <1>0, <1>1, <1>2, <1>5, AllSessions
<1>8. LiveSessions' = LiveSessions
  BY <1>2, <1>5, <1>7 DEF LiveSessions
<1>9. HoldersFit'
  BY <1>0, <1>2, <1>8, HoldersKept
<1>10. PagesFit'
  BY <1>0, <1>2, <1>5, <1>6, <1>7, PagesKept
<1>11. VdockFits'
  <2>1. Listening' = Listening /\ WantedNow' = WantedNow /\ (DeckFollowsSetting' <=> DeckFollowsSetting)
    BY <1>6 DEF Listening, WantedNow, DeckFollowsSetting
  <2>2. ~Listening' => \A s \in DOMAIN deckSess' : ~deckSess'[s].open
    BY <1>0, <1>2, <1>5, <1>7, <2>1 DEF VdockFits
  <2>3. deckSpent' \in Nat
    BY <1>0, <1>2 DEF VdockFits
  <2> QED BY <1>0, <1>6, <2>1, <2>2, <2>3 DEF VdockFits
<1> QED BY <1>7, <1>9, <1>10, <1>11 DEF DeckInv

LEMMA ByeKeeps ==
    ASSUME DeckInv, NEW S \in SUBSET DOMAIN deckSess, NEW terminal \in BOOLEAN, Bye(S, terminal),
           UNCHANGED <<vdock, deckPage, deckSpent>>
    PROVE  DeckInv'
<1>0. SessionsFit /\ HoldersFit /\ PagesFit /\ VdockFits
  BY DEF DeckInv
<1>1. /\ SessionsFit' /\ HoldersFit' /\ PagesFit' /\ DOMAIN deckSess' = DOMAIN deckSess
      /\ \A s \in DOMAIN deckSess : deckSess'[s].open => deckSess[s].open /\ s \notin S
  BY <1>0, ByeEffect
<1>2. vdock' = vdock /\ deckSpent' \in Nat
  BY <1>0 DEF VdockFits
<1>3. VdockFits'
  BY <1>0, <1>1, <1>2, DockKept
<1> QED BY <1>1, <1>3 DEF DeckInv

(* One session changes and the keys stay held as they were. *)
LEMMA SessionKeeps ==
    ASSUME DeckInv, NEW s \in DOMAIN deckSess, NEW r, SessionOk(r), deckSess' = [deckSess EXCEPT ![s] = r],
           deckSess[s].state = "live" => r.state = "live",
           r.open => deckSess[s].open,
           \A pg \in PageRecs : PageFits(pg, deckSess[s], s, holders, vdock.screen)
                                  => PageFits(pg, r, s, holders, vdock.screen),
           UNCHANGED <<vdock, holders, keyDown, deckPage, deckSpent>>
    PROVE  DeckInv'
<1>0. SessionsFit /\ HoldersFit /\ PagesFit /\ VdockFits
  BY DEF DeckInv
<1>1. /\ SessionsFit' /\ DOMAIN deckSess' = DOMAIN deckSess /\ deckSess'[s] = r
      /\ \A o \in DOMAIN deckSess : o # s => deckSess'[o] = deckSess[o]
  BY <1>0, OneSession
<1>2. LiveSessions \subseteq LiveSessions'
  BY <1>1 DEF LiveSessions
<1>3. HoldersFit'
  BY <1>0, <1>2, HoldersKept
<1>4. PagesFit'
  <2>1. \A pg \in PageRecs, o \in DOMAIN deckSess :
             PageFits(pg, deckSess[o], o, holders, vdock.screen)
               => PageFits(pg, deckSess'[o], o, holders', vdock'.screen)
    BY <1>1
  <2> QED BY <1>0, <1>1, <2>1, PagesKept
<1>5. VdockFits'
  <2>1. deckSpent' \in Nat /\ vdock' = vdock
    BY <1>0 DEF VdockFits
  <2>2. \A o \in DOMAIN deckSess' : deckSess'[o].open => o \in DOMAIN deckSess /\ deckSess[o].open
    BY <1>1
  <2> QED BY <1>0, <2>1, <2>2, DockKept
<1> QED BY <1>1, <1>3, <1>4, <1>5 DEF DeckInv

LEMMA HelloKeeps ==
    ASSUME DeckInv, NEW s \in DOMAIN deckSess, HelloVerified(s)
    PROVE  DeckInv'
<1>0. SessionsFit /\ HoldersFit /\ PagesFit /\ VdockFits
  BY DEF DeckInv
<1>1. {s} \in SUBSET DOMAIN deckSess
  OBVIOUS
<1>2. UNCHANGED <<vdock, deckPage, deckSpent>> /\ deckSess[s].state = "authenticating"
  BY DEF HelloVerified
<1>3. CASE Bye({s}, TRUE)
  <2>1. TRUE \in BOOLEAN
    OBVIOUS
  <2> QED BY <1>1, <1>2, <1>3, <2>1, ByeKeeps
<1>4. CASE Bye({s}, FALSE)
  <2>1. FALSE \in BOOLEAN
    OBVIOUS
  <2> QED BY <1>1, <1>2, <1>4, <2>1, ByeKeeps
<1> DEFINE r == LetIn(deckSess[s], vdock.screen)
<1>5. CASE deckSess' = [deckSess EXCEPT ![s] = r] /\ UNCHANGED <<holders, keyDown>>
  <2>1. SessionOk(deckSess[s]) /\ vdock.screen \in [DeckKeys -> Nat]
    BY <1>0, SessionAt, DockFields
  <2>2. /\ SessionOk(r) /\ r.state = "live" /\ r.open = deckSess[s].open
        /\ \A pg \in PageRecs : PageFits(pg, deckSess[s], s, holders, vdock.screen)
                                  => PageFits(pg, r, s, holders, vdock.screen)
    BY <1>2, <2>1, LetInSession
  <2> HIDE DEF r
  <2> QED BY <1>2, <1>5, <2>2, SessionKeeps
<1>6. \/ Bye({s}, TRUE) \/ Bye({s}, FALSE)
      \/ deckSess' = [deckSess EXCEPT ![s] = r] /\ UNCHANGED <<holders, keyDown>>
  BY DEF HelloVerified
<1> QED BY <1>3, <1>4, <1>5, <1>6

(* A message about keys: what the session holds afterwards is what the page said. *)
LEMMA HeardKeeps ==
    ASSUME DeckInv, NEW s \in DOMAIN deckSess, deckSess[s].state # "closed", deckSess[s].up # << >>,
           Head(deckSess[s].up).t \notin {"hello", "ack"},
           deckSess' = [deckSess EXCEPT ![s] = ReadSession(deckSess[s])],
           UNCHANGED <<vdock, deckPage, deckSpent>>,
           holders' \in [DeckKeys -> SUBSET LiveSessions],
           keyDown' = {k \in DeckKeys : holders'[k] # {}},
           \A k \in DeckKeys : \A o : o # s => (o \in holders'[k] <=> o \in holders[k]),
           \A k \in DeckKeys : s \in holders'[k] =>
             \/ IsDown(Head(deckSess[s].up), k)
             \/ s \in holders[k] /\ ~IsUp(Head(deckSess[s].up), k)
    PROVE  DeckInv'
<1> DEFINE q == deckSess[s]
           r == ReadSession(q)
<1>0. SessionsFit /\ HoldersFit /\ PagesFit /\ VdockFits /\ SessionOk(q)
  BY SessionAt DEF DeckInv
<1>1. /\ q.state = "live" /\ SessionOk(r) /\ r.state = "live" /\ r.open = q.open
      /\ \A pg \in PageRecs : \A H, G, screen :
           /\ PageFits(pg, q, s, H, screen)
           /\ \A k \in DeckKeys : s \in G[k] =>
                IsDown(Head(q.up), k) \/ (s \in H[k] /\ ~IsUp(Head(q.up), k))
           => PageFits(pg, r, s, G, screen)
  BY <1>0, HeardSession
<1> HIDE DEF r
<1>2. /\ SessionsFit' /\ DOMAIN deckSess' = DOMAIN deckSess /\ deckSess'[s] = r
      /\ \A o \in DOMAIN deckSess : o # s => deckSess'[o] = deckSess[o]
  BY <1>0, <1>1, OneSession DEF r
<1>3. LiveSessions' = LiveSessions
  BY <1>1, <1>2 DEF LiveSessions
<1>4. HoldersFit'
  BY <1>3 DEF HoldersFit
<1>5. ASSUME NEW pg \in PageRecs, NEW o \in DOMAIN deckSess,
             PageFits(pg, deckSess[o], o, holders, vdock.screen)
      PROVE  PageFits(pg, deckSess'[o], o, holders', vdock'.screen)
  <2>1. CASE o = s
    <3>1. PageFits(pg, q, s, holders, vdock.screen)
      BY <1>5, <2>1
    <3>2. PageFits(pg, r, s, holders', vdock.screen)
      BY <1>1, <3>1
    <3> QED BY <1>2, <2>1, <3>2
  <2>2. CASE o # s
    <3>1. \A k \in DeckKeys : o \in holders'[k] <=> o \in holders[k]
      BY <2>2
    <3>2. PageFits(pg, deckSess[o], o, holders', vdock.screen)
      BY <1>5, <3>1, SamePage
    <3> QED BY <1>2, <2>2, <3>2
  <2> QED BY <2>1, <2>2
<1>6. PagesFit'
  BY <1>0, <1>2, <1>5, PagesKept
<1>7. VdockFits'
  <2>1. deckSpent' \in Nat /\ vdock' = vdock
    BY <1>0 DEF VdockFits
  <2>2. \A o \in DOMAIN deckSess' : deckSess'[o].open => o \in DOMAIN deckSess /\ deckSess[o].open
    BY <1>1, <1>2
  <2> QED BY <1>0, <2>1, <2>2, DockKept
<1> QED BY <1>2, <1>4, <1>6, <1>7 DEF DeckInv

LEMMA MessageKeeps ==
    ASSUME DeckInv, NEW s \in DOMAIN deckSess, HubMessage(s)
    PROVE  DeckInv'
<1> DEFINE q == deckSess[s]
           m == Head(q.up)
           e == ReadSession(q)
<1>0. SessionsFit /\ HoldersFit /\ PagesFit /\ VdockFits /\ SessionOk(q)
  BY SessionAt DEF DeckInv
<1>1. q.state # "closed" /\ q.up # << >> /\ UNCHANGED <<vdock, deckPage, deckSpent>>
  BY DEF HubMessage
<1>2. m \in UpMessages /\ (q.state = "live" \/ m.t = "hello")
  BY <1>0, <1>1, ReadFields
<1>3. /\ m.t = "hello" => /\ deckSess' = [deckSess EXCEPT ![s] = [e EXCEPT !.state = "authenticating"]]
                          /\ UNCHANGED <<holders, keyDown>>
      /\ m.t = "ack" => /\ deckSess' = [deckSess EXCEPT ![s] = AckFrames(e, m.n)]
                        /\ UNCHANGED <<holders, keyDown>>
      /\ m.t = "releaseAll" => deckSess' = [deckSess EXCEPT ![s] = e] /\ Release({s})
      /\ m.t = "down" => deckSess' = [deckSess EXCEPT ![s] = e] /\ KeyDown(s, m.k)
      /\ m.t = "up" => deckSess' = [deckSess EXCEPT ![s] = e] /\ KeyUp(s, m.k)
  BY DEF HubMessage, ReadSession
<1>4. m.t \in {"hello", "ack", "releaseAll", "down", "up"} /\ (m.t \in {"down", "up"} => m.k \in DeckKeys)
  BY <1>2 DEF UpMessages
<1>5. \A k \in DeckKeys : holders[k] \subseteq LiveSessions /\ (k \in keyDown <=> holders[k] # {})
  BY <1>0, HolderFacts
<1>6. holders \in [DeckKeys -> SUBSET LiveSessions] /\ keyDown \subseteq DeckKeys
  BY <1>0 DEF HoldersFit
<1>7. CASE m.t = "hello"
  <2> DEFINE r == [e EXCEPT !.state = "authenticating"]
  <2>1. /\ q.state # "live" /\ SessionOk(r) /\ r.state # "live" /\ r.open = q.open
        /\ \A pg \in PageRecs : PageFits(pg, q, s, holders, vdock.screen)
                                  => PageFits(pg, r, s, holders, vdock.screen)
    BY <1>0, <1>1, <1>7, GreetedSession
  <2>2. deckSess' = [deckSess EXCEPT ![s] = r] /\ UNCHANGED <<holders, keyDown>>
    BY <1>3, <1>7
  <2> HIDE DEF r
  <2> QED BY <1>1, <2>1, <2>2, SessionKeeps
<1>8. CASE m.t = "ack"
  <2> DEFINE r == AckFrames(e, m.n)
  <2>1. /\ SessionOk(r) /\ r.state = "live" /\ r.open = q.open
        /\ \A pg \in PageRecs : PageFits(pg, q, s, holders, vdock.screen)
                                  => PageFits(pg, r, s, holders, vdock.screen)
    BY <1>0, <1>1, <1>8, AckedSession
  <2>2. deckSess' = [deckSess EXCEPT ![s] = r] /\ UNCHANGED <<holders, keyDown>>
    BY <1>3, <1>8
  <2> HIDE DEF r
  <2> QED BY <1>1, <2>1, <2>2, SessionKeeps
<1> HIDE DEF e
<1>9. CASE m.t = "releaseAll"
  <2>1. deckSess' = [deckSess EXCEPT ![s] = e]
    BY <1>3, <1>9
  <2>2. holders' = [k \in DeckKeys |-> holders[k] \ {s}] /\ keyDown' = keyDown \ FreedBy({s})
    BY <1>3, <1>9 DEF Release, ReleasedBy
  <2>3. holders' \in [DeckKeys -> SUBSET LiveSessions]
    BY <1>5, <2>2
  <2>4. \A k \in DeckKeys : holders'[k] = holders[k] \ {s}
    BY <2>2
  <2>5. keyDown' = {k \in DeckKeys : holders'[k] # {}}
    <3>1. \A k \in DeckKeys : k \in FreedBy({s}) <=> holders[k] # {} /\ holders[k] \ {s} = {}
      BY DEF FreedBy
    <3> QED BY <1>5, <1>6, <2>2, <2>4, <3>1
  <2> QED BY <1>1, <1>9, <2>1, <2>3, <2>4, <2>5, HeardKeeps DEF e
<1>10. CASE m.t = "down"
  <2>1. deckSess' = [deckSess EXCEPT ![s] = e] /\ KeyDown(s, m.k) /\ m.k \in DeckKeys
    BY <1>3, <1>4, <1>10
  <2>2. q.state = "live" /\ s \in LiveSessions
    BY <1>2, <1>10 DEF LiveSessions
  <2>3. CASE UNCHANGED <<holders, keyDown>>
    <3>1. keyDown' = {k \in DeckKeys : holders'[k] # {}}
      BY <1>0, <2>3 DEF HoldersFit
    <3>2. \A k \in DeckKeys : ~IsUp(m, k)
      BY <1>10 DEF IsUp
    <3> QED BY <1>1, <1>6, <1>10, <2>1, <2>3, <3>1, <3>2, HeardKeeps DEF e
  <2>4. CASE /\ holders' = [holders EXCEPT ![m.k] = @ \cup {s}]
             /\ keyDown' = IF holders[m.k] = {} THEN keyDown \cup {m.k} ELSE keyDown
    <3>1. \A k \in DeckKeys : holders'[k] = IF k = m.k THEN holders[k] \cup {s} ELSE holders[k]
      BY <1>6, <2>1, <2>4
    <3>2. holders' \in [DeckKeys -> SUBSET LiveSessions]
      BY <1>6, <2>1, <2>2, <2>4
    <3>3. keyDown' = {k \in DeckKeys : holders'[k] # {}}
      BY <1>5, <1>6, <2>1, <2>4, <3>1
    <3>4. \A k \in DeckKeys : s \in holders'[k] =>
             \/ IsDown(m, k)
             \/ s \in holders[k] /\ ~IsUp(m, k)
      BY <1>10, <3>1 DEF IsDown, IsUp
    <3> QED BY <1>1, <1>10, <2>1, <3>1, <3>2, <3>3, <3>4, HeardKeeps DEF e
  <2> QED BY <2>1, <2>3, <2>4 DEF KeyDown
<1>11. CASE m.t = "up"
  <2>1. deckSess' = [deckSess EXCEPT ![s] = e] /\ KeyUp(s, m.k) /\ m.k \in DeckKeys
    BY <1>3, <1>4, <1>11
  <2>2. /\ holders' = [holders EXCEPT ![m.k] = @ \ {s}]
        /\ keyDown' = IF holders[m.k] = {s} THEN keyDown \ {m.k} ELSE keyDown
    BY <2>1 DEF KeyUp
  <2>3. \A k \in DeckKeys : holders'[k] = IF k = m.k THEN holders[k] \ {s} ELSE holders[k]
    BY <1>6, <2>1, <2>2
  <2>4. holders' \in [DeckKeys -> SUBSET LiveSessions]
    BY <1>6, <2>1, <2>2
  <2>5. keyDown' = {k \in DeckKeys : holders'[k] # {}}
    <3>1. holders[m.k] \ {s} = {} <=> holders[m.k] = {} \/ holders[m.k] = {s}
      OBVIOUS
    <3> QED BY <1>5, <1>6, <2>1, <2>2, <2>3, <3>1
  <2>6. \A k \in DeckKeys : s \in holders'[k] => s \in holders[k] /\ ~IsUp(m, k)
    BY <2>3 DEF IsUp
  <2> QED BY <1>1, <1>11, <2>1, <2>3, <2>4, <2>5, <2>6, HeardKeeps DEF e
<1> QED BY <1>4, <1>7, <1>8, <1>9, <1>10, <1>11

LEMMA CloseKeeps ==
    ASSUME DeckInv, NEW s \in DOMAIN deckSess, HubClose(s)
    PROVE  DeckInv'
<1>1. {s} \in SUBSET DOMAIN deckSess /\ FALSE \in BOOLEAN
  OBVIOUS
<1>2. Bye({s}, FALSE) /\ UNCHANGED <<vdock, deckPage, deckSpent>>
  BY DEF HubClose
<1> QED BY <1>1, <1>2, ByeKeeps

LEMMA CutKeeps ==
    ASSUME DeckInv, NEW s \in DOMAIN deckSess, NetworkCut(s)
    PROVE  DeckInv'
<1> DEFINE q == deckSess[s]
           r == [q EXCEPT !.open = FALSE, !.up = << >>, !.down = << >>]
<1>0. SessionOk(q) /\ q \in SessionRecs
  BY SessionAt DEF DeckInv
<1>1. q.open /\ q.state # "closed"
  BY <1>0 DEF NetworkCut, SessionOk
<1>2. << >> \in Seq(UpMessages)
  OBVIOUS
<1>3. SessionOk(r) /\ r.state = q.state /\ r.open = FALSE
  BY <1>0, <1>1, <1>2, LeftSession
<1>4. deckSess' = [deckSess EXCEPT ![s] = r] /\ UNCHANGED <<vdock, holders, keyDown, deckPage, deckSpent>>
  BY <1>0 DEF NetworkCut, SessionRecs
<1> HIDE DEF r
<1>5. \A pg \in PageRecs : PageFits(pg, q, s, holders, vdock.screen)
                             => PageFits(pg, r, s, holders, vdock.screen)
  BY <1>3 DEF PageFits
<1> QED BY <1>3, <1>4, <1>5, SessionKeeps

-----------------------------------------------------------------------------
(* What the pages do. *)

LEMMA PageAt ==
    ASSUME PagesFit, NEW p \in DeckPages
    PROVE  /\ deckPage[p] \in PageRecs
           /\ deckPage[p].sock = NoSock => ~deckPage[p].live
           /\ deckPage[p].sock # NoSock =>
                /\ deckPage[p].sock \in DOMAIN deckSess
                /\ PageFits(deckPage[p], deckSess[deckPage[p].sock], deckPage[p].sock, holders, vdock.screen)
BY DEF PagesFit

LEMMA NewSessionOk ==
    /\ SessionOk(NewSession) /\ NewSession \in SessionRecs
    /\ NewSession.state = "awaiting-hello" /\ NewSession.open = TRUE
    /\ NewSession.up = <<[t |-> "hello"]>> /\ NewSession.down = << >>
    /\ NewSession.sent = 0 /\ NewSession.acked = 0
<1> DEFINE none == [k \in DeckKeys |-> NoItem]
           h == [t |-> "hello"]
<1>1. none \in [DeckKeys -> Items] /\ \A k \in DeckKeys : none[k] = NoItem
  BY DEF Items
<1>2. h \in UpMessages
  BY DEF UpMessages
<1>3. PICK m : m = <<h>>
  OBVIOUS
<1>4. m \in Seq(UpMessages) /\ << >> \in Seq(DownMessages)
  BY <1>2, <1>3
<1> HIDE DEF none
<1>5. NewSession = [state |-> "awaiting-hello", open |-> TRUE, up |-> m, down |-> << >>,
                    pending |-> none, sent |-> 0, acked |-> 0]
  BY <1>3 DEF NewSession, none
<1>6. NewSession \in SessionRecs /\ NewSession.state = "awaiting-hello" /\ NewSession.open = TRUE
        /\ NewSession.up = m /\ NewSession.down = << >> /\ NewSession.pending = none
        /\ NewSession.sent = 0 /\ NewSession.acked = 0
  BY <1>1, <1>4, <1>5 DEF SessionRecs, SessionStates
<1> HIDE DEF h
<1>7. SessionOk(NewSession)
  BY <1>1, <1>3, <1>6 DEF SessionOk, WaitsForRoom, h
<1> QED BY <1>3, <1>6, <1>7 DEF h

LEMMA ConnectKeeps ==
    ASSUME DeckInv, NEW p \in DeckPages, PageConnects(p)
    PROVE  DeckInv'
<1> DEFINE n == Len(deckSess) + 1
           pg == deckPage[p]
           o == [pg EXCEPT !.sock = n, !.frames = 0, !.pressed = {}]
<1>0. SessionsFit /\ HoldersFit /\ PagesFit /\ VdockFits
  BY DEF DeckInv
<1>1. deckSess \in Seq(SessionRecs) /\ Len(deckSess) \in Nat /\ DOMAIN deckSess = 1..Len(deckSess)
  BY <1>0 DEF SessionsFit
<1>2. /\ pg.sock = NoSock /\ Listening /\ deckSess' = Append(deckSess, NewSession)
      /\ UNCHANGED <<vdock, holders, keyDown, deckSpent>>
  BY DEF PageConnects
<1>3. pg \in PageRecs /\ ~pg.live
  BY <1>0, <1>2, PageAt
<1>4. deckPage' = [deckPage EXCEPT ![p] = o]
  <2>1. deckPage \in [DeckPages -> PageRecs]
    BY <1>0 DEF PagesFit
  <2> QED BY <2>1 DEF PageConnects, PageRecs
<1>5. n \in Nat /\ n # NoSock /\ n \notin DOMAIN deckSess
  BY <1>1 DEF NoSock
<1>6. DOMAIN deckSess' = DOMAIN deckSess \cup {n} /\ deckSess'[n] = NewSession
        /\ (\A s \in DOMAIN deckSess : deckSess'[s] = deckSess[s]) /\ deckSess' \in Seq(SessionRecs)
  BY <1>1, <1>2, NewSessionOk
<1> HIDE DEF n
<1>7. PICK none, zero : none = {} /\ zero = 0
  OBVIOUS
<1>8. o = [pg EXCEPT !.sock = n, !.frames = zero, !.pressed = none]
  BY <1>7
<1> HIDE DEF o
<1>9. o \in PageRecs /\ o.sock = n /\ o.frames = 0 /\ o.live = pg.live
  BY <1>3, <1>5, <1>7, <1>8 DEF PageRecs
<1>10. SessionsFit'
  <2>1. \A s \in DOMAIN deckSess' : SessionOk(deckSess'[s])
    BY <1>0, <1>6, SessionAt, NewSessionOk
  <2> QED BY <1>6, <2>1 DEF SessionsFit
<1>11. LiveSessions' = LiveSessions
  <2>1. NewSession.state # "live"
    BY NewSessionOk
  <2> QED BY <1>6, <2>1 DEF LiveSessions
<1>12. HoldersFit'
  BY <1>0, <1>2, <1>11, HoldersKept
<1>13. PageFits(o, NewSession, n, holders, vdock.screen)
  <2> DEFINE q == NewSession
             m == [t |-> "hello"]
             none1 == << >>
  <2>1. q.state = "awaiting-hello" /\ q.up = <<m>> /\ q.down = none1 /\ q.sent = 0 /\ q.acked = 0
    BY NewSessionOk
  <2>2. DOMAIN q.up = {1} /\ q.up[1] = m /\ m.t = "hello"
    BY <2>1
  <2>3. FrameCount(none1) = 0
    <3>1. none1 \in Seq(DownMessages) /\ DOMAIN none1 = {}
      OBVIOUS
    <3> QED BY <3>1, FrameCountNone
  <2> HIDE DEF q, m, none1
  <2>4. CountsFit(o, q)
    BY <1>9, <2>1, <2>2, <2>3 DEF CountsFit
  <2>5. ASSUME NEW k \in DeckKeys PROVE n \notin holders[k]
    <3>1. holders[k] \subseteq LiveSessions
      BY <1>0, HolderFacts
    <3> QED BY <1>5, <3>1 DEF LiveSessions
  <2>6. PressesAccounted(o, q, n, holders)
    <3>1. \A k \in DeckKeys : Untouched(q.up, k, n \in holders[k])
      BY <2>2, <2>5 DEF Untouched, IsDown
    <3> QED BY <1>3, <1>9, <3>1 DEF PressesAccounted
  <2>7. PageFits(o, q, n, holders, vdock.screen)
    BY <1>3, <1>9, <2>1, <2>4, <2>6 DEF PageFits
  <2> QED BY <2>7 DEF q
<1>14. PagesFit'
  <2>1. \A x \in PageRecs, s \in DOMAIN deckSess :
             s # deckPage[p].sock /\ PageFits(x, deckSess[s], s, holders, vdock.screen)
               => PageFits(x, deckSess'[s], s, holders', vdock'.screen)
    BY <1>2, <1>6
  <2>2. PageFits(o, deckSess'[o.sock], o.sock, holders', vdock'.screen)
    BY <1>2, <1>6, <1>9, <1>13
  <2>3. o.sock # NoSock /\ o.sock \in DOMAIN deckSess' /\ o.sock \notin DOMAIN deckSess
          /\ DOMAIN deckSess \subseteq DOMAIN deckSess'
    BY <1>5, <1>6, <1>9
  <2> QED BY <1>0, <1>4, <1>9, <2>1, <2>2, <2>3, OnePage
<1>15. VdockFits'
  <2>1. deckSpent' \in Nat /\ vdock' = vdock
    BY <1>0, <1>2 DEF VdockFits
  <2> QED BY <1>0, <1>2, <2>1, DockKept
<1> QED BY <1>10, <1>12, <1>14, <1>15 DEF DeckInv

(* One page and its session change together. *)
LEMMA PageAndSession ==
    ASSUME DeckInv, NEW p \in DeckPages, NEW o \in PageRecs, NEW r,
           deckPage[p].sock # NoSock, SessionOk(r),
           deckSess' = [deckSess EXCEPT ![deckPage[p].sock] = r],
           deckPage' = [deckPage EXCEPT ![p] = o],
           deckSess[deckPage[p].sock].state = "live" => r.state = "live",
           r.open => deckSess[deckPage[p].sock].open,
           o.sock = NoSock => ~o.live,
           o.sock # NoSock => o.sock = deckPage[p].sock /\ PageFits(o, r, o.sock, holders, vdock.screen),
           UNCHANGED <<vdock, holders, keyDown>>, deckSpent' \in Nat
    PROVE  DeckInv'
<1> DEFINE s == deckPage[p].sock
<1>0. SessionsFit /\ HoldersFit /\ PagesFit /\ VdockFits
  BY DEF DeckInv
<1>1. s \in DOMAIN deckSess
  BY <1>0, PageAt
<1> HIDE DEF s
<1>2. deckSess' = [deckSess EXCEPT ![s] = r]
  BY DEF s
<1>3. /\ SessionsFit' /\ DOMAIN deckSess' = DOMAIN deckSess /\ deckSess'[s] = r
      /\ \A x \in DOMAIN deckSess : x # s => deckSess'[x] = deckSess[x]
  BY <1>0, <1>1, <1>2, OneSession
<1>4. LiveSessions \subseteq LiveSessions'
  BY <1>3 DEF LiveSessions, s
<1>5. HoldersFit'
  BY <1>0, <1>4, HoldersKept
<1>6. PagesFit'
  <2>1. \A x \in PageRecs, y \in DOMAIN deckSess :
             y # deckPage[p].sock /\ PageFits(x, deckSess[y], y, holders, vdock.screen)
               => PageFits(x, deckSess'[y], y, holders', vdock'.screen)
    BY <1>3 DEF s
  <2>2. o.sock # NoSock => /\ o.sock \in DOMAIN deckSess'
                           /\ PageFits(o, deckSess'[o.sock], o.sock, holders', vdock'.screen)
                           /\ o.sock = deckPage[p].sock \/ o.sock \notin DOMAIN deckSess
    BY <1>1, <1>3 DEF s
  <2>3. DOMAIN deckSess \subseteq DOMAIN deckSess'
    BY <1>3
  <2> QED BY <1>0, <2>1, <2>2, <2>3, OnePage
<1>7. VdockFits'
  <2>1. \A x \in DOMAIN deckSess' : deckSess'[x].open => x \in DOMAIN deckSess /\ deckSess[x].open
    BY <1>3 DEF s
  <2> QED BY <1>0, <2>1, DockKept
<1> QED BY <1>3, <1>5, <1>6, <1>7 DEF DeckInv

(* Only a page changes. *)
LEMMA PageAlone ==
    ASSUME DeckInv, NEW p \in DeckPages, NEW o \in PageRecs,
           deckPage' = [deckPage EXCEPT ![p] = o],
           o.sock = NoSock => ~o.live,
           o.sock # NoSock => /\ o.sock = deckPage[p].sock
                              /\ PageFits(o, deckSess[o.sock], o.sock, holders, vdock.screen),
           UNCHANGED <<vdock, deckSess, holders, keyDown>>, deckSpent' \in Nat
    PROVE  DeckInv'
<1>0. SessionsFit /\ HoldersFit /\ PagesFit /\ VdockFits
  BY DEF DeckInv
<1>1. SessionsFit' /\ LiveSessions' = LiveSessions
  BY <1>0 DEF SessionsFit, LiveSessions
<1>2. HoldersFit'
  BY <1>0, <1>1, HoldersKept
<1>3. PagesFit'
  <2>1. o.sock # NoSock => /\ o.sock \in DOMAIN deckSess'
                           /\ PageFits(o, deckSess'[o.sock], o.sock, holders', vdock'.screen)
                           /\ o.sock = deckPage[p].sock \/ o.sock \notin DOMAIN deckSess
    BY <1>0, PageAt
  <2> QED BY <1>0, <2>1, OnePage
<1>4. VdockFits'
  BY <1>0, DockKept
<1> QED BY <1>1, <1>2, <1>3, <1>4 DEF DeckInv

LEMMA ReceiveKeeps ==
    ASSUME DeckInv, NEW p \in DeckPages, PageReceives(p)
    PROVE  DeckInv'
<1> DEFINE pg == deckPage[p]
           s == pg.sock
           q == deckSess[s]
           r == GotSession(q, pg.frames + 1)
           o == GotPage(pg, Head(q.down))
<1>0. SessionsFit /\ HoldersFit /\ PagesFit /\ VdockFits
  BY DEF DeckInv
<1>1. s # NoSock /\ q.down # << >> /\ UNCHANGED <<vdock, holders, keyDown, deckSpent>>
  BY DEF PageReceives
<1>2. pg \in PageRecs /\ s \in DOMAIN deckSess /\ PageFits(pg, q, s, holders, vdock.screen)
  BY <1>0, <1>1, PageAt
<1>3. SessionOk(q) /\ q \in SessionRecs /\ vdock.screen \in [DeckKeys -> Nat] /\ deckSess \in Seq(SessionRecs)
  BY <1>0, <1>2, SessionAt, DockFields DEF SessionsFit
<1>4. /\ SessionOk(r) /\ r.state = q.state /\ r.open = q.open
      /\ o \in PageRecs /\ o.sock = s /\ PageFits(o, r, s, holders, vdock.screen)
  BY <1>1, <1>2, <1>3, ReceivedSession
<1>5. deckPage' = [deckPage EXCEPT ![p] = o]
  BY <1>0 DEF PageReceives, PagesFit
<1>6. deckSess' = [deckSess EXCEPT ![s] = r]
  <2> DEFINE f == IsFrame(Head(q.down)) /\ q.open
             ack == [t |-> "ack", n |-> pg.frames + 1]
             read == [deckSess EXCEPT ![s].down = Tail(@)]
  <2>1. deckSess' = IF f THEN [read EXCEPT ![s].up = Append(@, ack)] ELSE read
    BY DEF PageReceives, IsFrame
  <2>2. r = [q EXCEPT !.down = Tail(@), !.up = IF f THEN Append(@, ack) ELSE @]
    BY DEF GotSession
  <2> HIDE DEF f, ack
  <2>3. CASE f
    <3>1. deckSess' = [deckSess EXCEPT ![s] = [q EXCEPT !.down = Tail(q.down), !.up = Append(q.up, ack)]]
      BY <1>2, <1>3, <2>1, <2>3 DEF SessionRecs
    <3>2. r = [q EXCEPT !.down = Tail(q.down), !.up = Append(q.up, ack)]
      BY <1>3, <2>2, <2>3 DEF SessionRecs
    <3> QED BY <3>1, <3>2
  <2>4. CASE ~f
    <3>1. deckSess' = [deckSess EXCEPT ![s] = [q EXCEPT !.down = Tail(q.down)]]
      BY <1>2, <1>3, <2>1, <2>4 DEF SessionRecs
    <3>2. r = [q EXCEPT !.down = Tail(q.down)]
      BY <1>3, <2>2, <2>4 DEF SessionRecs
    <3> QED BY <3>1, <3>2
  <2> QED BY <2>3, <2>4
<1>7. deckSpent' \in Nat
  BY <1>0, <1>1 DEF VdockFits
<1> HIDE DEF r, o
<1> QED BY <1>1, <1>4, <1>5, <1>6, <1>7, PageAndSession

LEMMA DetachedFields ==
    ASSUME NEW pg \in PageRecs
    PROVE  LET o == DetachedPage(pg) IN o \in PageRecs /\ o.sock = NoSock /\ ~o.live
<1>1. PICK no, zero : no = FALSE /\ zero = NoSock
  OBVIOUS
<1>2. DetachedPage(pg) = [pg EXCEPT !.sock = zero, !.live = no]
  BY <1>1 DEF DetachedPage
<1>3. zero \in Nat
  BY <1>1 DEF NoSock
<1> QED BY <1>1, <1>2, <1>3 DEF PageRecs

LEMMA PageClosedKeeps ==
    ASSUME DeckInv, NEW p \in DeckPages, PageClosed(p)
    PROVE  DeckInv'
<1> DEFINE o == DetachedPage(deckPage[p])
<1>0. SessionsFit /\ HoldersFit /\ PagesFit /\ VdockFits
  BY DEF DeckInv
<1>1. o \in PageRecs /\ o.sock = NoSock /\ ~o.live
  BY <1>0, PageAt, DetachedFields
<1>2. deckPage' = [deckPage EXCEPT ![p] = o] /\ UNCHANGED <<vdock, deckSess, holders, keyDown, deckSpent>>
  BY <1>0 DEF PageClosed, PagesFit
<1>3. deckSpent' \in Nat
  BY <1>0, <1>2 DEF VdockFits
<1> HIDE DEF o
<1> QED BY <1>1, <1>2, <1>3, PageAlone

LEMMA SuspendKeeps ==
    ASSUME DeckInv, NEW p \in DeckPages, Suspend(p)
    PROVE  DeckInv'
<1> DEFINE pg == deckPage[p]
           s == pg.sock
           q == deckSess[s]
           m == [t |-> "releaseAll"]
           u == IF pg.live /\ q.open THEN Append(q.up, m) ELSE q.up
           left == [q EXCEPT !.open = FALSE, !.up = u, !.down = << >>]
           r == IF q.state = "closed" THEN ForgottenSession ELSE left
           e == DetachedPage(pg)
           o == [e EXCEPT !.pressed = {}]
<1>0. SessionsFit /\ HoldersFit /\ PagesFit /\ VdockFits
  BY DEF DeckInv
<1>1. s # NoSock /\ UNCHANGED <<vdock, holders, keyDown, deckSpent>>
  BY DEF Suspend
<1>2. pg \in PageRecs /\ s \in DOMAIN deckSess /\ PageFits(pg, q, s, holders, vdock.screen)
  BY <1>0, <1>1, PageAt
<1>3. SessionOk(q) /\ q \in SessionRecs /\ deckSess \in Seq(SessionRecs)
  BY <1>0, <1>2, SessionAt DEF SessionsFit
<1>4. deckPage' = [deckPage EXCEPT ![p] = o]
  BY <1>0 DEF Suspend, PagesFit
<1>5. deckSess' = [deckSess EXCEPT ![s] = r]
  <2>1. left = [q EXCEPT !.open = FALSE, !.down = << >>, !.up = u]
    BY <1>3 DEF SessionRecs
  <2> QED BY <1>3, <2>1 DEF Suspend
<1>6. m \in UpMessages
  BY DEF UpMessages
<1>7. q.up \in Seq(UpMessages)
  BY <1>3, SessionFields
<1>8. u \in Seq(UpMessages)
  BY <1>6, <1>7
<1>9. q.state # "closed" => u = q.up \/ (q.state = "live" /\ u = Append(q.up, m))
  BY <1>2 DEF PageFits
<1>10. SessionOk(r) /\ r.open = FALSE /\ (q.state = "live" => r.state = "live")
  <2>1. CASE q.state = "closed"
    BY <2>1, GoneFields, ForgottenOk
  <2>2. CASE q.state # "closed"
    <3>1. SessionOk(left) /\ left.state = q.state /\ left.open = FALSE
      BY <1>3, <1>8, <1>9, <2>2, LeftSession
    <3>2. r = left
      BY <2>2
    <3> HIDE DEF left, r
    <3> QED BY <3>1, <3>2
  <2> QED BY <2>1, <2>2
<1>11. e \in PageRecs /\ e.sock = NoSock /\ ~e.live
  BY <1>2, DetachedFields
<1> HIDE DEF e, r
<1>12. PICK none : none = {}
  OBVIOUS
<1>13. o = [e EXCEPT !.pressed = none] /\ none \in SUBSET DeckKeys
  BY <1>12
<1> HIDE DEF o
<1>14. o \in PageRecs /\ o.sock = NoSock /\ ~o.live
  BY <1>11, <1>13 DEF PageRecs
<1>15. deckSpent' \in Nat
  BY <1>0, <1>1 DEF VdockFits
<1> QED BY <1>1, <1>4, <1>5, <1>10, <1>14, <1>15, PageAndSession

(* A press or a lift: the page's own pressed keys, and a message if it is connected. *)
LEMMA InputKeeps ==
    ASSUME DeckInv, NEW p \in DeckPages, NEW m \in UpMessages, m.t \in {"down", "up"},
           NEW after \in SUBSET DeckKeys,
           \A k \in DeckKeys : /\ IsDown(m, k) => k \in after
                               /\ k \in deckPage[p].pressed => k \in after \/ IsUp(m, k),
           deckPage' = [deckPage EXCEPT ![p].pressed = after],
           IF deckPage[p].live THEN SendTo(deckPage[p].sock, m) ELSE UNCHANGED deckSess,
           UNCHANGED <<vdock, holders, keyDown>>, deckSpent' \in Nat
    PROVE  DeckInv'
<1> DEFINE pg == deckPage[p]
           s == pg.sock
           q == deckSess[s]
           r == SentSession(q, m)
           o == [pg EXCEPT !.pressed = after]
<1>0. SessionsFit /\ HoldersFit /\ PagesFit /\ VdockFits
  BY DEF DeckInv
<1>1. deckPage' = [deckPage EXCEPT ![p] = o]
  BY <1>0 DEF PagesFit
<1>2. pg \in PageRecs
  BY <1>0, PageAt
<1>3. o \in PageRecs /\ o.sock = s /\ o.live = pg.live /\ o.frames = pg.frames /\ o.images = pg.images
        /\ o.pressed = after
  BY <1>2 DEF PageRecs
<1>4. CASE pg.live
  <2>1. s # NoSock /\ s \in DOMAIN deckSess /\ PageFits(pg, q, s, holders, vdock.screen)
    BY <1>0, <1>4, PageAt
  <2>2. SessionOk(q) /\ q \in SessionRecs /\ deckSess \in Seq(SessionRecs)
    BY <1>0, <2>1, SessionAt DEF SessionsFit
  <2>3. /\ SessionOk(r) /\ r.state = q.state /\ r.open = q.open /\ PageFits(o, r, s, holders, vdock.screen)
    BY <1>2, <1>4, <2>1, <2>2, InputSession
  <2>4. deckSess' = [deckSess EXCEPT ![s] = r]
    <3>1. CASE q.open /\ q.state # "closed"
      <4>1. r = [q EXCEPT !.up = Append(q.up, m)]
        BY <2>2, <3>1 DEF SentSession, SessionRecs
      <4>2. deckSess' = [deckSess EXCEPT ![s].up = Append(@, m)]
        BY <1>4, <3>1 DEF SendTo
      <4> QED BY <2>1, <2>2, <4>1, <4>2
    <3>2. CASE ~(q.open /\ q.state # "closed")
      <4>1. r = q /\ deckSess' = deckSess
        BY <1>4, <3>2 DEF SendTo, SentSession
      <4> HIDE DEF r
      <4> QED BY <2>1, <2>2, <4>1
    <3> QED BY <3>1, <3>2
  <2>5. UNCHANGED <<vdock, holders, keyDown>> /\ deckSpent' \in Nat
    OBVIOUS
  <2>6. q.state = "live" => r.state = "live"
    BY <2>3
  <2>7. r.open => q.open
    BY <2>3
  <2>8. o.sock = NoSock => ~o.live
    BY <1>3, <2>1
  <2>9. o.sock # NoSock => o.sock = s /\ PageFits(o, r, o.sock, holders, vdock.screen)
    BY <1>3, <2>3
  <2> HIDE DEF r, o
  <2> QED BY <1>1, <1>3, <2>1, <2>3, <2>4, <2>5, <2>6, <2>7, <2>8, <2>9, PageAndSession
<1>5. CASE ~pg.live
  <2>1. s # NoSock => PageFits(o, deckSess[o.sock], o.sock, holders, vdock.screen)
    <3> SUFFICES ASSUME s # NoSock PROVE PageFits(o, q, s, holders, vdock.screen)
      BY <1>3
    <3>1. PageFits(pg, q, s, holders, vdock.screen)
      BY <1>0, PageAt
    <3> HIDE DEF o
    <3>2. CountsFit(pg, q) => CountsFit(o, q)
      BY <1>3 DEF CountsFit
    <3>3. PressesAccounted(pg, q, s, holders) => PressesAccounted(o, q, s, holders)
      BY <1>3, <1>5 DEF PressesAccounted
    <3>4. ScreenArrives(pg, q, vdock.screen) => ScreenArrives(o, q, vdock.screen)
      BY <1>3 DEF ScreenArrives
    <3> QED BY <1>3, <3>1, <3>2, <3>3, <3>4 DEF PageFits
  <2>2. o.sock = NoSock => ~o.live
    BY <1>3, <1>5
  <2>3. UNCHANGED deckSess
    BY <1>5
  <2> HIDE DEF o
  <2> QED BY <1>1, <1>3, <2>1, <2>2, <2>3, PageAlone
<1> QED BY <1>2, <1>4, <1>5, PageFields

LEMMA PressKeeps ==
    ASSUME DeckInv, NEW p \in DeckPages, NEW k \in DeckKeys, Press(p, k)
    PROVE  DeckInv'
<1> DEFINE m == [t |-> "down", k |-> k]
           after == deckPage[p].pressed \cup {k}
<1>0. PagesFit /\ VdockFits /\ deckPage \in [DeckPages -> PageRecs]
  BY DEF DeckInv, PagesFit
<1>1. m \in UpMessages /\ m.t = "down" /\ m.k = k
  BY DEF UpMessages
<1>2. deckPage[p].pressed \in SUBSET DeckKeys
  BY <1>0, PageFields
<1>3. after \in SUBSET DeckKeys
  BY <1>2
<1>4. deckPage' = [deckPage EXCEPT ![p].pressed = after]
  BY <1>0 DEF Press
<1>5. IF deckPage[p].live THEN SendTo(deckPage[p].sock, m) ELSE UNCHANGED deckSess
  BY DEF Press
<1>6. UNCHANGED <<vdock, holders, keyDown>> /\ deckSpent' \in Nat
  BY <1>0 DEF Press, VdockFits
<1>7. \A j \in DeckKeys : /\ IsDown(m, j) => j \in after
                          /\ j \in deckPage[p].pressed => j \in after \/ IsUp(m, j)
  BY DEF IsDown
<1> HIDE DEF m, after
<1> QED BY <1>1, <1>3, <1>4, <1>5, <1>6, <1>7, InputKeeps

LEMMA LiftKeeps ==
    ASSUME DeckInv, NEW p \in DeckPages, NEW k \in DeckKeys, Lift(p, k)
    PROVE  DeckInv'
<1> DEFINE m == [t |-> "up", k |-> k]
           after == deckPage[p].pressed \ {k}
<1>0. PagesFit /\ VdockFits /\ deckPage \in [DeckPages -> PageRecs]
  BY DEF DeckInv, PagesFit
<1>1. m \in UpMessages /\ m.t = "up" /\ m.k = k
  BY DEF UpMessages
<1>2. deckPage[p].pressed \in SUBSET DeckKeys
  BY <1>0, PageFields
<1>3. after \in SUBSET DeckKeys
  BY <1>2
<1>4. deckPage' = [deckPage EXCEPT ![p].pressed = after]
  BY <1>0 DEF Lift
<1>5. IF deckPage[p].live THEN SendTo(deckPage[p].sock, m) ELSE UNCHANGED deckSess
  BY DEF Lift
<1>6. UNCHANGED <<vdock, holders, keyDown>> /\ deckSpent' \in Nat
  BY <1>0 DEF Lift, VdockFits
<1>7. \A j \in DeckKeys : /\ IsDown(m, j) => j \in after
                          /\ j \in deckPage[p].pressed => j \in after \/ IsUp(m, j)
  BY DEF IsDown, IsUp
<1> HIDE DEF m, after
<1> QED BY <1>1, <1>3, <1>4, <1>5, <1>6, <1>7, InputKeeps

-----------------------------------------------------------------------------
(* What the dock itself does. *)

LEMMA SetConfigKeeps ==
    ASSUME DeckInv, NEW on \in BOOLEAN, NEW profile \in DeckProfiles, SetConfig(on, profile)
    PROVE  DeckInv'
<1>0. SessionsFit /\ HoldersFit /\ PagesFit /\ VdockFits /\ vdock \in VdockRecs
  BY DEF DeckInv, VdockFits
<1>1. UNCHANGED <<deckSess, holders, keyDown, deckPage>> /\ deckSpent' \in Nat
  BY <1>0 DEF SetConfig, VdockFits
<1>2. PICK no : no = FALSE
  OBVIOUS
<1> DEFINE more == vdock.syncs + 1
<1>3. vdock.syncs \in Nat /\ more \in Nat /\ more > 0 /\ (vdock.syncs > 0 => more # 1)
  BY <1>0, DockFields
<1>4. vdock' = [vdock EXCEPT !.enabled = on, !.profile = profile, !.failed = no, !.syncs = more]
  BY <1>0, <1>2 DEF SetConfig, VdockRecs
<1> HIDE DEF more
<1>5. /\ vdock' \in VdockRecs /\ vdock'.running = vdock.running /\ vdock'.phase = vdock.phase
      /\ vdock'.target = vdock.target /\ vdock'.syncs = more /\ vdock'.screen = vdock.screen
  BY <1>0, <1>2, <1>3, <1>4 DEF VdockRecs
<1>6. SessionsFit' /\ LiveSessions' = LiveSessions
  BY <1>0, <1>1 DEF SessionsFit, LiveSessions
<1>7. HoldersFit'
  BY <1>0, <1>1, <1>6, HoldersKept
<1>8. PagesFit'
  BY <1>0, <1>1, <1>5, PagesKept
<1>9. VdockFits'
  <2>1. Listening' = Listening
    BY <1>5 DEF Listening
  <2>2. DeckFollowsSetting'
    BY <1>3, <1>5 DEF DeckFollowsSetting
  <2>3. vdock'.phase # "idle" => vdock'.running = Blank /\ vdock'.syncs > 0
    BY <1>0, <1>3, <1>5 DEF VdockFits
  <2>4. ~(vdock'.phase # "idle" /\ vdock'.syncs = 1)
    BY <1>0, <1>3, <1>5 DEF VdockFits
  <2>5. ~Listening' => \A s \in DOMAIN deckSess' : ~deckSess'[s].open
    BY <1>0, <1>1, <2>1 DEF VdockFits
  <2> QED BY <1>1, <1>5, <2>2, <2>3, <2>4, <2>5 DEF VdockFits
<1> QED BY <1>6, <1>7, <1>8, <1>9 DEF DeckInv

LEMMA BlankIsNoLayout ==
    /\ Blank \in Running
    /\ \A p \in DeckProfiles : p # Blank
BY DeckAssumption DEF Running, Blank

LEMMA ReconcileKeeps ==
    ASSUME DeckInv, Reconcile
    PROVE  DeckInv'
<1>0. SessionsFit /\ HoldersFit /\ PagesFit /\ VdockFits /\ vdock \in VdockRecs
  BY DEF DeckInv, VdockFits
<1>1. vdock.phase = "idle" /\ vdock.syncs > 0 /\ vdock.syncs \in Nat /\ UNCHANGED <<deckPage, deckSpent>>
        /\ deckSpent' \in Nat
  BY <1>0, DockFields DEF Reconcile, VdockFits
<1>2. WantedNow \in Running /\ Blank \in Running
  BY <1>0, DockFields, BlankIsNoLayout
<1>3. CASE vdock.running # Blank /\ vdock.running # WantedNow
  <2> DEFINE w == WantedNow
  <2>1. PICK phase, off : phase = "stopping" /\ off = Blank
    OBVIOUS
  <2>2. vdock' = [vdock EXCEPT !.phase = phase, !.running = off, !.target = w]
    BY <1>3, <2>1 DEF Reconcile
  <2>3. Bye(DOMAIN deckSess, w # Blank) /\ (w # Blank) \in BOOLEAN
    BY <1>3 DEF Reconcile
  <2>4. w \in Running /\ off \in Running
    BY <1>2, <2>1
  <2>5. w = WantedNow
    OBVIOUS
  <2> HIDE DEF w
  <2>6. /\ vdock' \in VdockRecs /\ vdock'.running = Blank /\ vdock'.phase = "stopping" /\ vdock'.target = w
        /\ vdock'.syncs = vdock.syncs /\ vdock'.screen = vdock.screen /\ vdock'.enabled = vdock.enabled
        /\ vdock'.profile = vdock.profile
    BY <1>0, <2>1, <2>2, <2>4 DEF VdockRecs
  <2>7. SessionsFit' /\ HoldersFit' /\ PagesFit'
    BY <1>0, <1>1, <2>3, <2>6, ByeEffect
  <2>8. VdockFits'
    <3>1. Listening' /\ WantedNow' = WantedNow /\ DeckFollowsSetting'
      BY <2>6 DEF Listening, WantedNow, DeckFollowsSetting
    <3> QED BY <1>1, <2>5, <2>6, <3>1 DEF VdockFits
  <2> QED BY <2>7, <2>8 DEF DeckInv
<1>4. CASE ~(vdock.running # Blank /\ vdock.running # WantedNow)
  <2>1. UNCHANGED <<deckSess, holders, keyDown>>
    BY <1>4 DEF Reconcile
  <2>2. SessionsFit' /\ LiveSessions' = LiveSessions
    BY <1>0, <2>1 DEF SessionsFit, LiveSessions
  <2>3. HoldersFit'
    BY <1>0, <2>1, <2>2, HoldersKept
  <2>4. CASE WantedNow # vdock.running
    <3> DEFINE w == WantedNow
    <3>1. PICK phase : phase = "starting"
      OBVIOUS
    <3>2. vdock' = [vdock EXCEPT !.phase = phase, !.target = w]
      BY <1>4, <2>4, <3>1 DEF Reconcile
    <3>3. w \in Running /\ w = WantedNow
      BY <1>2
    <3> HIDE DEF w
    <3>4. /\ vdock' \in VdockRecs /\ vdock'.running = vdock.running /\ vdock'.phase = "starting"
          /\ vdock'.target = w /\ vdock'.syncs = vdock.syncs /\ vdock'.screen = vdock.screen
          /\ vdock'.enabled = vdock.enabled /\ vdock'.profile = vdock.profile
      BY <1>0, <3>1, <3>2, <3>3 DEF VdockRecs
    <3>5. PagesFit'
      BY <1>0, <1>1, <2>1, <3>4, PagesKept
    <3>6. vdock.running = Blank
      BY <1>4, <2>4
    <3>7. ~Listening
      BY <1>1, <3>6 DEF Listening
    <3>8. \A s \in DOMAIN deckSess' : ~deckSess'[s].open
      BY <1>0, <2>1, <3>7 DEF VdockFits
    <3>9. WantedNow' = WantedNow /\ DeckFollowsSetting'
      BY <3>4 DEF WantedNow, DeckFollowsSetting
    <3>10. VdockFits'
      BY <1>1, <3>3, <3>4, <3>6, <3>8, <3>9 DEF VdockFits
    <3> QED BY <2>2, <2>3, <3>5, <3>10 DEF DeckInv
  <2>5. CASE WantedNow = vdock.running
    <3> DEFINE less == vdock.syncs - 1
    <3>1. less \in Nat
      BY <1>1
    <3>2. vdock' = [vdock EXCEPT !.syncs = less]
      BY <1>0, <1>4, <2>5 DEF Reconcile, VdockRecs
    <3> HIDE DEF less
    <3>4. /\ vdock' \in VdockRecs /\ vdock'.running = vdock.running /\ vdock'.phase = "idle"
          /\ vdock'.target = vdock.target /\ vdock'.syncs = less /\ vdock'.screen = vdock.screen
          /\ vdock'.enabled = vdock.enabled /\ vdock'.profile = vdock.profile
      BY <1>0, <1>1, <3>1, <3>2 DEF VdockRecs
    <3>5. PagesFit'
      BY <1>0, <1>1, <2>1, <3>4, PagesKept
    <3>6. Listening' = Listening /\ WantedNow' = WantedNow
      BY <1>1, <3>4 DEF Listening, WantedNow
    <3>7. ~Listening' => \A s \in DOMAIN deckSess' : ~deckSess'[s].open
      BY <1>0, <2>1, <3>6 DEF VdockFits
    <3>8. DeckFollowsSetting'
      BY <2>5, <3>4, <3>6 DEF DeckFollowsSetting
    <3>9. VdockFits'
      BY <1>1, <3>4, <3>7, <3>8 DEF VdockFits
    <3> QED BY <2>2, <2>3, <3>5, <3>9 DEF DeckInv
  <2> QED BY <2>4, <2>5
<1> QED BY <1>3, <1>4

LEMMA StoppedKeeps ==
    ASSUME DeckInv, DeckStopped
    PROVE  DeckInv'
<1> DEFINE F == [s \in DOMAIN deckSess |-> IF deckSess[s].open THEN ForgottenSession ELSE deckSess[s]]
           screen == [k \in DeckKeys |-> Blank]
           phase == IF vdock.target # Blank THEN "starting" ELSE "idle"
           left == IF vdock.target # Blank THEN vdock.syncs ELSE vdock.syncs - 1
<1>0. SessionsFit /\ HoldersFit /\ PagesFit /\ VdockFits /\ vdock \in VdockRecs
  BY DEF DeckInv, VdockFits
<1>1. vdock.phase = "stopping" /\ vdock.syncs \in Nat /\ vdock.syncs > 0 /\ vdock.running = Blank
        /\ deckSpent' \in Nat
  BY <1>0, DockFields DEF DeckStopped, VdockFits
<1>2. deckSess' = F /\ holders' = [k \in DeckKeys |-> {}] /\ keyDown' = {} /\ deckPage' = deckPage
  BY DEF DeckStopped
<1>3. F = [s \in DOMAIN deckSess |-> F[s]]
        /\ \A s \in DOMAIN deckSess : F[s] = IF deckSess[s].open THEN ForgottenSession ELSE deckSess[s]
  OBVIOUS
<1>4. vdock' = [vdock EXCEPT !.phase = phase, !.syncs = left, !.screen = screen]
  BY <1>0 DEF DeckStopped, VdockRecs
<1>5. screen \in [DeckKeys -> Nat] /\ phase \in {"idle", "starting"} /\ left \in Nat
  BY <1>1 DEF Blank
<1>6. vdock.target # Blank => phase = "starting" /\ left = vdock.syncs
  OBVIOUS
<1>7. vdock.target = Blank => phase = "idle" /\ left = vdock.syncs - 1
  OBVIOUS
<1> HIDE DEF F, screen, phase, left
<1>8. /\ vdock' \in VdockRecs /\ vdock'.running = Blank /\ vdock'.phase = phase
      /\ vdock'.target = vdock.target /\ vdock'.syncs = left
      /\ vdock'.enabled = vdock.enabled /\ vdock'.profile = vdock.profile
  BY <1>0, <1>1, <1>4, <1>5 DEF VdockRecs
<1>9. ASSUME NEW s \in DOMAIN deckSess
      PROVE  /\ SessionOk(F[s]) /\ ~F[s].open /\ F[s].open = FALSE
             /\ F[s] = deckSess[s] \/ F[s].state = "closed"
  <2>1. SessionOk(deckSess[s]) /\ deckSess[s].open \in BOOLEAN
    BY <1>0, SessionAt, SessionFields
  <2>2. CASE deckSess[s].open
    BY <1>3, <2>2, GoneFields, ForgottenOk
  <2>3. CASE ~deckSess[s].open
    BY <1>3, <2>1, <2>3
  <2> QED BY <2>2, <2>3
<1>10. SessionsFit' /\ DOMAIN deckSess' = DOMAIN deckSess
  BY <1>0, <1>2, <1>3, <1>9, AllSessions
<1>11. HoldersFit'
  BY <1>2 DEF HoldersFit
<1>12. ASSUME NEW pg \in PageRecs, NEW s \in DOMAIN deckSess,
              PageFits(pg, deckSess[s], s, holders, vdock.screen)
       PROVE  PageFits(pg, deckSess'[s], s, holders', vdock'.screen)
  <2>1. deckSess'[s].open = FALSE
    BY <1>2, <1>9
  <2>2. pg.live => deckSess'[s].state \in {"live", "closed"}
    BY <1>2, <1>9, <1>12 DEF PageFits
  <2> QED BY <2>1, <2>2, ShutPage
<1>13. PagesFit'
  BY <1>0, <1>2, <1>10, <1>12, PagesKept
<1>14. VdockFits'
  <2>1. WantedNow' = WantedNow
    BY <1>8 DEF WantedNow
  <2>2. \A s \in DOMAIN deckSess' : ~deckSess'[s].open
    BY <1>2, <1>9, <1>10
  <2>3. vdock.syncs = 1 => vdock.target = WantedNow
    BY <1>0, <1>1 DEF VdockFits
  <2>4. CASE vdock.target # Blank
    <3>1. DeckFollowsSetting'
      BY <1>6, <1>8, <2>4 DEF DeckFollowsSetting
    <3> QED BY <1>1, <1>6, <1>8, <2>1, <2>2, <2>3, <2>4, <3>1 DEF VdockFits
  <2>5. CASE vdock.target = Blank
    <3>1. left = 0 => vdock.syncs = 1
      BY <1>1, <1>7, <2>5
    <3>2. DeckFollowsSetting'
      BY <1>8, <2>1, <2>3, <2>5, <3>1 DEF DeckFollowsSetting
    <3> QED BY <1>1, <1>7, <1>8, <2>2, <2>5, <3>2 DEF VdockFits
  <2> QED BY <2>4, <2>5
<1> QED BY <1>10, <1>11, <1>13, <1>14 DEF DeckInv

LEMMA StartedKeeps ==
    ASSUME DeckInv, DeckStarted
    PROVE  DeckInv'
<1>0. SessionsFit /\ HoldersFit /\ PagesFit /\ VdockFits /\ vdock \in VdockRecs
  BY DEF DeckInv, VdockFits
<1>1. vdock.phase = "starting" /\ vdock.syncs \in Nat /\ vdock.syncs > 0 /\ vdock.running = Blank
        /\ deckSpent' \in Nat /\ UNCHANGED <<deckSess, holders, keyDown, deckPage>>
  BY <1>0, DockFields DEF DeckStarted, VdockFits
<1>2. PICK ok \in BOOLEAN :
       vdock' = [vdock EXCEPT !.phase = "idle", !.syncs = @ - 1, !.failed = ~ok,
                              !.running = IF ok THEN vdock.target ELSE Blank,
                              !.screen = IF ok THEN @ ELSE [k \in DeckKeys |-> Blank]]
  BY DEF DeckStarted
<1> DEFINE less == vdock.syncs - 1
           bad == ~ok
           runs == IF ok THEN vdock.target ELSE Blank
           screen == IF ok THEN vdock.screen ELSE [k \in DeckKeys |-> Blank]
<1>3. PICK phase : phase = "idle"
  OBVIOUS
<1>4. vdock' = [vdock EXCEPT !.phase = phase, !.syncs = less, !.failed = bad, !.running = runs,
                             !.screen = screen]
  BY <1>0, <1>2, <1>3 DEF VdockRecs
<1>5. less \in Nat /\ bad \in BOOLEAN /\ runs \in Running /\ screen \in [DeckKeys -> Nat]
  BY <1>0, <1>1, DockFields, BlankIsNoLayout DEF Blank
<1>6. (less = 0 => vdock.syncs = 1) /\ (ok => runs = vdock.target) /\ (~ok => bad /\ runs = Blank)
  BY <1>1
<1> HIDE DEF less, bad, runs, screen
<1>7. /\ vdock' \in VdockRecs /\ vdock'.running = runs /\ vdock'.phase = "idle" /\ vdock'.syncs = less
      /\ vdock'.enabled = vdock.enabled /\ vdock'.profile = vdock.profile /\ vdock'.failed = bad
  BY <1>0, <1>3, <1>4, <1>5 DEF VdockRecs
<1>8. \A s \in DOMAIN deckSess : ~deckSess[s].open
  <2>1. ~Listening
    BY <1>1 DEF Listening
  <2> QED BY <1>0, <2>1 DEF VdockFits
<1>9. SessionsFit' /\ LiveSessions' = LiveSessions
  BY <1>0, <1>1 DEF SessionsFit, LiveSessions
<1>10. HoldersFit'
  BY <1>0, <1>1, <1>9, HoldersKept
<1>11. PagesFit'
  <2>1. ASSUME NEW pg \in PageRecs, NEW s \in DOMAIN deckSess,
              PageFits(pg, deckSess[s], s, holders, vdock.screen)
        PROVE  PageFits(pg, deckSess'[s], s, holders', vdock'.screen)
    <3>1. pg.live => deckSess[s].state \in {"live", "closed"}
      BY <2>1 DEF PageFits
    <3>2. PageFits(pg, deckSess[s], s, holders, vdock'.screen)
      BY <1>8, <3>1 DEF PageFits
    <3> QED BY <1>1, <3>2
  <2> QED BY <1>0, <1>1, <2>1, PagesKept
<1>12. VdockFits'
  <2>1. WantedNow' = WantedNow
    BY <1>7 DEF WantedNow
  <2>2. vdock.syncs = 1 => vdock.target = WantedNow
    BY <1>0, <1>1 DEF VdockFits
  <2>3. DeckFollowsSetting'
    BY <1>6, <1>7, <2>1, <2>2 DEF DeckFollowsSetting
  <2>4. \A s \in DOMAIN deckSess' : ~deckSess'[s].open
    BY <1>1, <1>8
  <2> QED BY <1>1, <1>7, <2>3, <2>4 DEF VdockFits
<1> QED BY <1>9, <1>10, <1>11, <1>12 DEF DeckInv

-----------------------------------------------------------------------------
(* The invariant holds, and it is what the property says and more. *)

LEMMA DeckInitFits ==
    ASSUME DeckInit
    PROVE  DeckInv
<1> DEFINE clear == [k \in DeckKeys |-> Blank]
<1>1. PICK first \in DeckProfiles :
         vdock = [enabled |-> FALSE, profile |-> first, running |-> Blank, phase |-> "idle",
                  target |-> Blank, syncs |-> 0, failed |-> FALSE, screen |-> clear]
  <2>1. DeckProfiles # {}
    BY DeckAssumption
  <2>2. (CHOOSE q \in DeckProfiles : TRUE) \in DeckProfiles
    BY <2>1
  <2> QED BY <2>2 DEF DeckInit
<1>2. clear \in [DeckKeys -> Nat]
  BY DEF Blank
<1> HIDE DEF clear
<1>3. vdock \in VdockRecs /\ vdock.phase = "idle" /\ vdock.running = Blank /\ vdock.enabled = FALSE
  BY <1>1, <1>2, BlankIsNoLayout DEF VdockRecs
<1>4. deckSess = << >> /\ deckSess \in Seq(SessionRecs) /\ DOMAIN deckSess = {}
  BY DEF DeckInit
<1>5. SessionsFit
  BY <1>4 DEF SessionsFit
<1>6. HoldersFit
  BY DEF DeckInit, HoldersFit
<1>7. PagesFit
  <2> DEFINE blank == [k \in DeckKeys |-> Blank]
             pg == [sock |-> NoSock, live |-> FALSE, frames |-> 0, images |-> blank, pressed |-> {},
                    stopped |-> FALSE]
  <2>1. blank \in [DeckKeys -> Nat]
    BY DEF Blank
  <2>2. deckPage = [p \in DeckPages |-> pg]
    BY DEF DeckInit
  <2> HIDE DEF blank
  <2>3. pg \in PageRecs /\ pg.sock = NoSock /\ ~pg.live
    BY <2>1 DEF PageRecs, NoSock
  <2> HIDE DEF pg
  <2>4. deckPage \in [DeckPages -> PageRecs] /\ \A p \in DeckPages : deckPage[p] = pg
    BY <2>2, <2>3
  <2> QED BY <2>3, <2>4 DEF PagesFit
<1>8. VdockFits
  <2>1. DeckFollowsSetting
    BY <1>3 DEF DeckFollowsSetting, WantedNow
  <2>2. deckSpent \in Nat
    BY DEF DeckInit
  <2> QED BY <1>3, <1>4, <2>1, <2>2 DEF VdockFits
<1> QED BY <1>5, <1>6, <1>7, <1>8 DEF DeckInv

LEMMA DeckStep ==
    ASSUME DeckInv, DeckNext
    PROVE  DeckInv'
<1>0. deckSpent + 1 \in Nat
  BY DEF DeckInv, VdockFits
<1>1. CASE \E k \in DeckKeys : RenderCoraImage(k) \/ ClearKey(k)
  <2>1. PICK k \in DeckKeys : RenderCoraImage(k) \/ ClearKey(k)
    BY <1>1
  <2>2. Blank \in Nat
    BY DEF Blank
  <2>3. Paint(k, deckSpent + 1) \/ Paint(k, Blank)
    BY <2>1 DEF RenderCoraImage, ClearKey
  <2> QED BY <1>0, <2>2, <2>3, PaintKeeps
<1>2. CASE \E s \in DOMAIN deckSess : HelloVerified(s) \/ HubMessage(s) \/ HubClose(s) \/ NetworkCut(s)
  BY <1>2, HelloKeeps, MessageKeeps, CloseKeeps, CutKeeps
<1>3. CASE \E p \in DeckPages : PageConnects(p) \/ PageReceives(p) \/ PageClosed(p) \/ Suspend(p)
                                  \/ \E k \in DeckKeys : Press(p, k) \/ Lift(p, k)
  BY <1>3, ConnectKeeps, ReceiveKeeps, PageClosedKeeps, SuspendKeeps, PressKeeps, LiftKeeps
<1>4. CASE \E on \in BOOLEAN, profile \in DeckProfiles : SetConfig(on, profile)
  BY <1>4, SetConfigKeeps
<1>5. CASE Reconcile \/ DeckStopped \/ DeckStarted
  BY <1>5, ReconcileKeeps, StoppedKeeps, StartedKeeps
<1> QED BY <1>1, <1>2, <1>3, <1>4, <1>5 DEF DeckNext

LEMMA DeckStutter ==
    ASSUME DeckInv, UNCHANGED deckVars
    PROVE  DeckInv'
<1>0. SessionsFit /\ HoldersFit /\ PagesFit /\ VdockFits
  BY DEF DeckInv
<1>1. UNCHANGED <<vdock, deckSess, holders, keyDown, deckPage, deckSpent>>
  BY DEF deckVars
<1>2. SessionsFit' /\ LiveSessions' = LiveSessions
  BY <1>0, <1>1 DEF SessionsFit, LiveSessions
<1>3. HoldersFit'
  BY <1>0, <1>1, <1>2, HoldersKept
<1>4. PagesFit'
  BY <1>0, <1>1, PagesKept
<1>5. VdockFits'
  <2>1. deckSpent' \in Nat
    BY <1>0, <1>1 DEF VdockFits
  <2> QED BY <1>0, <1>1, <2>1, DockKept
<1> QED BY <1>2, <1>3, <1>4, <1>5 DEF DeckInv

LEMMA DeckInvMeans ==
    ASSUME DeckInv
    PROVE  DeckIsFaithful
<1>0. SessionsFit /\ HoldersFit /\ PagesFit /\ VdockFits
  BY DEF DeckInv
<1>1. ASSUME NEW p \in DeckPages, Quiet(p)
      PROVE  /\ \A k \in DeckKeys : deckPage[p].sock \in holders[k] => k \in deckPage[p].pressed
             /\ \A k \in DeckKeys :
                  /\ deckSess[deckPage[p].sock].pending[k] = NoItem
                  /\ vdock.screen[k] # Blank => deckPage[p].images[k] = vdock.screen[k]
  <2> DEFINE pg == deckPage[p]
             s == pg.sock
             q == deckSess[s]
  <2>1. s # NoSock /\ pg.live /\ q.open /\ q.state = "live" /\ q.up = << >> /\ q.down = << >>
    BY <1>1 DEF Quiet
  <2>2. pg \in PageRecs /\ s \in DOMAIN deckSess /\ PageFits(pg, q, s, holders, vdock.screen)
    BY <1>0, <2>1, PageAt
  <2>3. SessionOk(q) /\ q \in SessionRecs
    BY <1>0, <2>2, SessionAt
  <2>4. CountsFit(pg, q) /\ PressesAccounted(pg, q, s, holders) /\ ScreenArrives(pg, q, vdock.screen)
    BY <2>1, <2>2 DEF PageFits
  <2>5. DOMAIN q.up = {} /\ DOMAIN q.down = {}
    BY <2>1
  <2> HIDE DEF pg, q
  <2>6. FrameCount(q.down) = 0
    BY <2>3, <2>5, FrameCountNone, SessionFields
  <2>7. pg.frames \in Nat /\ q.sent \in Nat /\ q.acked \in Nat
    BY <2>2, <2>3, PageFields, SessionFields
  <2>8. q.acked = q.sent
    BY <2>4, <2>5, <2>6, <2>7 DEF CountsFit
  <2>9. MaxDeckWindow \in Nat /\ MaxDeckWindow > 0
    BY DeckAssumption
  <2>10. \A k \in DeckKeys : q.pending[k] = NoItem
    <3>1. ~(q.sent - q.acked >= MaxDeckWindow)
      BY <2>7, <2>8, <2>9
    <3> QED BY <2>3, <3>1 DEF SessionOk, WaitsForRoom
  <2>11. \A k \in DeckKeys : NothingComes(q, k)
    BY <2>5, <2>10 DEF NothingComes
  <2>12. \A k \in DeckKeys : vdock.screen[k] # Blank => pg.images[k] = vdock.screen[k]
    BY <2>4, <2>11 DEF ScreenArrives
  <2>13. \A k \in DeckKeys : s \in holders[k] => k \in pg.pressed
    BY <2>1, <2>4, <2>5 DEF PressesAccounted, Accounted
  <2> QED BY <2>10, <2>12, <2>13 DEF pg, q
<1>2. HeldKeysAreReleased
  <2>1. keyDown = {k \in DeckKeys : holders[k] # {}} /\ \A k \in DeckKeys : holders[k] \subseteq LiveSessions
    BY <1>0, HolderFacts DEF HoldersFit
  <2> QED BY <1>1, <2>1 DEF HeldKeysAreReleased
<1>3. PagesShowScreen
  BY <1>1 DEF PagesShowScreen
<1> QED BY <1>0, <1>2, <1>3 DEF DeckIsFaithful, VdockFits

(* The browser deck is a faithful deck (DeckIsFaithful) for every number of pages, keys, layouts,
   sockets, pictures and presses, every window and every limit on pages: what the dock is told of its
   keys is what connected pages hold, a page whose socket is quiet shows the screen, and a deck whose
   reconciles are done runs what the setting asks for. *)
THEOREM DeckStaysFaithful == DeckSpec => []DeckIsFaithful
<1>1. DeckInit => DeckInv
  BY DeckInitFits
<1>2. DeckInv /\ [DeckNext]_deckVars => DeckInv'
  BY DeckStep, DeckStutter
<1>3. DeckInv => DeckIsFaithful
  BY DeckInvMeans
<1> QED BY <1>1, <1>2, <1>3, PTL DEF DeckSpec
=============================================================================
