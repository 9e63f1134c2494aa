--------------------------- MODULE UsbEnumeration ---------------------------
(***************************************************************************)
(* How a plugged HID interface becomes a row the main thread acts on: the  *)
(* native library's cached HidApi and its list writer                      *)
(* (rust/deckbridge-native/src/hid.rs), the scan worker's reset and scan   *)
(* (worker/hid-scan-worker.ts, ffi/hid-discovery.ts), the row parser and   *)
(* the command line's short-lived snapshot (ffi/hidapi.ts).                *)
(*                                                                         *)
(* Text is a sequence of tokens.  A row has four columns here (nine in the *)
(* code, the other five like these): product, usage, serial and path.      *)
(***************************************************************************)
EXTENDS Integers, SequencesExt, FiniteSetsExt

CONSTANTS
  UnitList,       \* the interfaces there are, in enumeration order:
                  \* [product, usage, serial, path]; serial and path texts
  SupportedPids,  \* the filter's products as listed, with repeats
  ListBufLen,     \* LIST_BUF_BYTES
  SnapshotTtl,    \* SNAPSHOT_TTL_MS in ticks
  MaxUsbActs      \* bound: steps

VARIABLES
  plugged,    \* interfaces on the bus
  hidApi,     \* HID_API: made or not, and what its platform backend lost sight of
  scanSide,   \* the scan worker: scratch buffer, reset asked for; the installed snapshot
  snapshot,   \* hidSnapshot's cache
  said,       \* the last command-line query and its answer
  changedAgo, \* ticks since each interface was last plugged or unplugged
  usbActs

enumVars == <<plugged, hidApi, scanSide, snapshot, said, changedAgo, usbActs>>

NUL == 0
NL == 1
TAB == 2
DASH == 3
BLANK == 4

Ifaces == 1 .. Len(UnitList)
NotAsked == [asked |-> FALSE, q |-> [product |-> 0, usage |-> 0], paths |-> {}]

EnumInit ==
  /\ plugged = {}
  /\ hidApi = [made |-> FALSE, known |-> {}, blind |-> {}]
  /\ scanSide = [scratch |-> [i \in 1 .. ListBufLen |-> DASH], reset |-> FALSE, rows |-> <<>>, ok |-> FALSE, saw |-> {}]
  /\ snapshot = [rows |-> <<>>, age |-> -1]
  /\ said = NotAsked
  /\ changedAgo = [u \in Ifaces |-> SnapshotTtl]
  /\ usbActs = 0

-----------------------------------------------------------------------------
(* The native side.                                                        *)

\* tsv_field: a dash for nothing, separators become blanks
tsv_field(text) ==
  IF text = <<>> THEN <<DASH>> ELSE [i \in 1 .. Len(text) |-> IF text[i] \in {TAB, NL} THEN BLANK ELSE text[i]]

TsvRow(u) == <<u.product, TAB, u.usage, TAB>> \o tsv_field(u.serial) \o <<TAB>> \o tsv_field(u.path)

\* NulJoinWriter
JoinWriter(buf) == [buf |-> buf, pos |-> 0, count |-> 0, full |-> FALSE]

\* Mutant: no room is kept for the terminator
pushWithoutNul(w, rec) ==
  LET sep == IF w.count > 0 THEN <<NL>> ELSE <<>>
      end == w.pos + Len(sep) + Len(rec)
  IN  IF w.full \/ end > Len(w.buf) THEN [w EXCEPT !.full = TRUE]
      ELSE [w EXCEPT !.buf = SubSeq(@, 1, w.pos) \o sep \o rec \o SubSeq(@, end + 1, Len(@)), !.pos = end, !.count = @ + 1]

\* the row whole with its separator and room for the NUL, or nothing and no more rows
push(w, rec) ==
  LET sep == IF w.count > 0 THEN <<NL>> ELSE <<>>
      end == w.pos + Len(sep) + Len(rec)
  IN  IF w.full \/ end + 1 > Len(w.buf) THEN [w EXCEPT !.full = TRUE]
      ELSE [w EXCEPT !.buf = SubSeq(@, 1, w.pos) \o sep \o rec \o SubSeq(@, end + 1, Len(@)), !.pos = end, !.count = @ + 1]

finish(w) == [buf |-> IF w.pos < Len(w.buf) THEN [w.buf EXCEPT ![w.pos + 1] = NUL] ELSE w.buf, count |-> w.count]

write_hid_rows(units, buf) == finish(FoldLeft(LAMBDA w, u : push(w, TsvRow(u)), JoinWriter(buf), units))

\* parse_vid_pid_filters: a BTreeSet, so sorted and without repeats
Filters == SetToSortSeq({SupportedPids[i] : i \in 1 .. Len(SupportedPids)}, <)

\* what HIDAPI lists: per filter, what is plugged and its backend still sees
Listed(api, on, products) == SelectSeq(UnitList, LAMBDA u :
    u.product \in products /\ \E i \in on \ api.blind : UnitList[i] = u)
DeviceList(api, on, all) ==
  IF all THEN Listed(api, on, {UnitList[i].product : i \in DOMAIN UnitList})
  ELSE FlattenSeq([f \in 1 .. Len(Filters) |-> Listed(api, on, {Filters[f]})])

\* with_api: made on first use
WithApi(api) == IF api.made THEN api ELSE [made |-> TRUE, known |-> plugged, blind |-> {}]

\* mirabox_hid_reset
HidReset == [made |-> FALSE, known |-> {}, blind |-> {}]

-----------------------------------------------------------------------------
(* The parser.                                                             *)

decodeNulTerminated(buf) ==
  LET ends == {i \in 1 .. Len(buf) : buf[i] = NUL} IN SubSeq(buf, 1, IF ends = {} THEN Len(buf) ELSE Min(ends) - 1)

Split(text, sep) ==
  LET cuts == SetToSortSeq({0, Len(text) + 1} \cup {i \in 1 .. Len(text) : text[i] = sep}, <)
  IN  [i \in 1 .. Len(cuts) - 1 |-> SubSeq(text, cuts[i] + 1, cuts[i + 1] - 1)]

\* parseHidRow: lines with another number of columns are dropped
parseHidRows(buf) ==
  LET lines == SelectSeq(Split(decodeNulTerminated(buf), NL), LAMBDA l : Len(Split(l, TAB)) = 4)
      row(l) == LET f == Split(l, TAB) IN [product |-> f[1][1], usage |-> f[2][1], serial |-> f[3], path |-> f[4]]
  IN  [i \in 1 .. Len(lines) |-> row(lines[i])]

Parsed(wrote) == IF wrote.count <= 0 THEN <<>> ELSE parseHidRows(wrote.buf)

matchesHidQuery(d, q) == d.product = q.product /\ (q.usage = 0 \/ d.usage = q.usage)
hidPathsMatching(rows, q) == {rows[i].path : i \in {j \in 1 .. Len(rows) : matchesHidQuery(rows[j], q)}}

\* cachedDiscoverySerial / hidSerialForPath: NoSerial is null
NoSerial == <<>>
SerialForPath(rows, path) ==
  LET hits == {i \in 1 .. Len(rows) : rows[i].path = path}
  IN  IF hits = {} \/ rows[Min(hits)].serial = <<DASH>> THEN NoSerial ELSE rows[Min(hits)].serial

-----------------------------------------------------------------------------
Act == usbActs < MaxUsbActs /\ usbActs' = usbActs + 1

Plug(u) ==
  /\ Act /\ u \notin plugged
  /\ plugged' = plugged \cup {u}
  /\ changedAgo' = [changedAgo EXCEPT ![u] = 0]
  \* the platform may lose sight of one that came back in the life of a HidApi
  /\ \E lost \in {{}, {u} \cap hidApi.known} :
       hidApi' = [hidApi EXCEPT !.known = IF hidApi.made THEN @ \cup {u} ELSE @, !.blind = @ \cup lost]
  /\ said' = NotAsked
  /\ UNCHANGED <<scanSide, snapshot>>

\* the dock's disconnect asks for a reset with the next scan
Unplug(u) ==
  /\ Act /\ u \in plugged
  /\ plugged' = plugged \ {u}
  /\ scanSide' = [scanSide EXCEPT !.reset = TRUE]
  /\ changedAgo' = [changedAgo EXCEPT ![u] = 0] /\ said' = NotAsked
  /\ UNCHANGED <<hidApi, snapshot>>

\* the worker's message: reset first, then the scan, then the installed snapshot
Scan ==
  /\ Act
  /\ LET api == WithApi(IF scanSide.reset THEN HidReset ELSE hidApi)
         wrote == write_hid_rows(DeviceList(api, plugged, FALSE), [scanSide.scratch EXCEPT ![1] = NUL])
     IN  /\ hidApi' = api
         /\ scanSide' = [scratch |-> wrote.buf, reset |-> FALSE, rows |-> Parsed(wrote), ok |-> TRUE, saw |-> plugged]
  /\ UNCHANGED <<plugged, snapshot, said, changedAgo>>

\* with_api gives up: nothing is written, and nothing read as the listing before
ScanFails ==
  /\ Act
  /\ hidApi' = IF scanSide.reset THEN HidReset ELSE hidApi
  /\ scanSide' = [scanSide EXCEPT !.scratch[1] = NUL, !.reset = FALSE, !.rows = <<>>, !.ok = FALSE]
  /\ UNCHANGED <<plugged, snapshot, said, changedAgo>>

\* listAllHidDevices, in the process of a command: its own HidApi, short-lived
FullListing == Parsed(write_hid_rows(DeviceList(HidReset, plugged, TRUE), [i \in 1 .. ListBufLen |-> NUL]))

\* hidSnapshot
SnapshotNow(maxAge) ==
  IF snapshot.age >= 0 /\ snapshot.age < maxAge THEN snapshot ELSE [rows |-> FullListing, age |-> 0]

\* hidSnapshotOrFresh, then the query
Query(q) ==
  /\ Act
  /\ LET first == SnapshotNow(SnapshotTtl)
         snap == IF first.rows # <<>> THEN first ELSE SnapshotNow(0)
     IN  /\ snapshot' = snap
         /\ said' = [asked |-> TRUE, q |-> q, paths |-> hidPathsMatching(snap.rows, q)]
  /\ UNCHANGED <<plugged, hidApi, scanSide, changedAgo>>

invalidateHidSnapshot ==
  /\ Act /\ snapshot.age >= 0
  /\ snapshot' = [rows |-> <<>>, age |-> -1] /\ said' = NotAsked
  /\ UNCHANGED <<plugged, hidApi, scanSide, changedAgo>>

UsbTick ==
  /\ Act
  /\ snapshot' = IF snapshot.age >= 0 THEN [snapshot EXCEPT !.age = @ + 1] ELSE snapshot
  /\ changedAgo' = [u \in Ifaces |-> Min({changedAgo[u] + 1, SnapshotTtl})]
  /\ said' = NotAsked
  /\ UNCHANGED <<plugged, hidApi, scanSide>>

EnumNext ==
  \/ \E u \in Ifaces : Plug(u) \/ Unplug(u)
  \/ Scan \/ ScanFails \/ UsbTick \/ invalidateHidSnapshot
  \/ \E q \in [product : {SupportedPids[i] : i \in 1 .. Len(SupportedPids)}, usage : {0, 11}] : Query(q)

EnumSpec == EnumInit /\ [][EnumNext]_enumVars

-----------------------------------------------------------------------------
(* The reference: rows as they are, as many as fit with their separators   *)
(* and the NUL.                                                            *)

Clean(u) == [u EXCEPT !.serial = tsv_field(@), !.path = tsv_field(@)]
Room(units, n) == FoldLeft(LAMBDA sum, u : sum + Len(TsvRow(u)) + 1, 0, SubSeq(units, 1, n))
Fitting(units) == SubSeq(units, 1, Max({n \in 0 .. Len(units) : Room(units, n) <= ListBufLen}))
CleanRows(units) == [i \in 1 .. Len(units) |-> Clean(units[i])]
OnBus(on, all) == DeviceList(HidReset, on, all)

\* A scan that worked installs exactly the supported interfaces that were on the bus, each
\* row whole and its own, cut only behind a row when the buffer is full; none is missing
\* because the platform lost sight of it (write_hid_rows, parseHidRows, reset before scan).
ScanShowsTheBus == scanSide.ok => scanSide.rows = CleanRows(Fitting(OnBus(scanSide.saw, FALSE)))

\* Every installed path has the serial of its own interface, or none (cachedDiscoverySerial).
SerialsAreOwn ==
  \A i \in 1 .. Len(scanSide.rows) :
    \E u \in scanSide.saw : /\ Clean(UnitList[u]) = scanSide.rows[i]
                           /\ SerialForPath(scanSide.rows, scanSide.rows[i].path)
                                = IF UnitList[u].serial = <<>> THEN NoSerial ELSE tsv_field(UnitList[u].serial)

\* A query is never answered from a listing older than the window: an interface gone for
\* that long is not found, one there for that long is, if the listing holds it
\* (hidSnapshotOrFresh).
QueriesAreRecent ==
  said.asked =>
    \A u \in Ifaces :
      LET d == Clean(UnitList[u])
          all == OnBus(plugged, TRUE)
      IN  (changedAgo[u] >= SnapshotTtl /\ matchesHidQuery(d, said.q)) =>
            IF u \in plugged THEN Len(Fitting(all)) = Len(all) => d.path \in said.paths ELSE d.path \notin said.paths

\* What the process believes is plugged is what is, or lately was.
EnumerationIsTrue == ScanShowsTheBus /\ SerialsAreOwn /\ QueriesAreRecent
=============================================================================
