---------------------------- MODULE DockIdentity ----------------------------
(***************************************************************************)
(* Who a dock says it is (main/dock.ts, main/dock-status.ts,               *)
(* cora/primary-server.ts, cora/responses.ts, infra/mdns-advertiser.ts).   *)
(*                                                                         *)
(* Dock 0 and its two servers live as long as the process while USB units  *)
(* come and go; a scanned dock is built around one unit.  The identity of  *)
(* the unit, the model it emulates and the name the user gave it reach the *)
(* desktop app along four ways that no step updates together: the mDNS     *)
(* advert (a process, or a registration of Windows), the capabilities      *)
(* packet the primary pushes, the reports the app asks for on either port, *)
(* and the status the web UI shows.                                        *)
(***************************************************************************)
EXTENDS Integers, FiniteSets

CONSTANTS
    IdUnits,        \* USB units
    IdModel,        \* unit -> [pid, keys, dials, physical, fw]
    DefaultModel,   \* DEFAULT_MODEL
    DockNames,      \* names the user may give, DefaultName among them
    DefaultName,    \* MDNS_SERVICE_NAME
    NoUnit,         \* no unit; as a serial: the built-in DEFAULT_* one
    MaxIdActs       \* bound: plugs, renames, connections and requests

ASSUME IdentityAssumption ==
    /\ NoUnit \notin IdUnits /\ DefaultName \in DockNames
    /\ \A u \in IdUnits : IdModel[u].keys \in Nat /\ IdModel[u].physical \in BOOLEAN

VARIABLES
    kind,        \* "primary" (dock 0) or "scanned"
    servers,     \* down, half (the primary listens, the child not yet), up, stopped
    dock,        \* Dock: identity, model, deviceInfo, the unit of its driver
    config,      \* deviceConfig, shared by both servers
    geometry,    \* childGeometry of the primary and of the child server
    advertiser,  \* the primary's MdnsAdvertiser and what it last advertised
    adverts,     \* what is announced on the network now
    dockNames,   \* settings.json: unit -> its mdnsServiceName
    session,     \* the app: connected, the capabilities and the answers it was given since
    idActs       \* bounded

idVars == <<kind, servers, dock, config, geometry, advertiser, adverts, dockNames, session, idActs>>

Physical(u) == <<"physical", u>>     \* the serial burnt into the unit
Generated(u) == <<"generated", u>>   \* generateSerial for its identity

\* childFirmwareFor: the unit's own, when its model forwards it
FirmwareFor(model, info) ==
    IF model.physical /\ info # NoUnit THEN Physical(info) ELSE model.fw

\* advertisedGeometry
GeometryOf(model) == [keys |-> model.keys, dials |-> model.dials]

\* buildCapabilitiesPacket
CapsOf(cfg, geo) == [pid |-> cfg.pid, child |-> cfg.child, geo |-> geo]

Idle == [live |-> FALSE, name |-> DefaultName, pid |-> 0, serial |-> NoUnit, via |-> "none"]
NoSession == [open |-> FALSE, told |-> {}, answers |-> {}]
Announced(a) == [name |-> a.name, pid |-> a.pid, serial |-> a.serial, via |-> a.via]

\* A fresh CoraDock: dock 0 with the defaults, a scanned one with its unit's identity.
IdInit ==
    /\ kind \in {"primary", "scanned"}
    /\ servers = "down"
    /\ dockNames = [u \in IdUnits |-> DefaultName]
    /\ \E u \in IdUnits :
         /\ dock = IF kind = "primary"
                   THEN [owner |-> NoUnit, model |-> DefaultModel, info |-> NoUnit, unit |-> NoUnit]
                   ELSE [owner |-> u, model |-> IdModel[u], info |-> u, unit |-> NoUnit]
         /\ kind = "primary" => u = CHOOSE x \in IdUnits : TRUE
    /\ config = [serial |-> dock.owner, pid |-> DefaultModel.pid, fw |-> DefaultModel.fw,
                 child |-> IF kind = "primary" THEN NoUnit ELSE Generated(dock.owner)]
    /\ geometry = [primary |-> GeometryOf(DefaultModel), child |-> GeometryOf(DefaultModel)]
    /\ advertiser = Idle
    /\ adverts = {}
    /\ session = NoSession
    /\ idActs = 0

Act == idActs < MaxIdActs /\ idActs' = idActs + 1

(***************************************************************************)
(* mDNS: one advertiser per primary server.                                *)
(***************************************************************************)
\* mdns_advertise_stop: the registration of the port, whatever it announces
Deregistered(ads) == {x \in ads : x.via # "native"}

\* MdnsAdvertiser.stop: by the way it was started; a dead process is nothing to kill
Silenced(ads, a) == IF a.via = "native" THEN Deregistered(ads) ELSE ads \ {Announced(a)}

\* mdns_advertise_start: the port's earlier registration goes first
Registered(ads, a) == Deregistered(ads) \cup {Announced(a)}

\* MdnsAdvertiser.start: the native registration, else a process, else nothing
Ways == {"native", "process", "none"}
Announcing(ads, a) ==
    CASE a.via = "native" -> Registered(ads, a)
      [] a.via = "process" -> ads \cup {Announced(a)}
      [] OTHER -> ads

\* spawnAdvertiser, with its start
SpawnAdvertiser(ads, name, cfg, via) ==
    LET a == [live |-> TRUE, name |-> name, pid |-> cfg.pid, serial |-> cfg.serial, via |-> via]
    IN  /\ advertiser' = a
        /\ adverts' = Announcing(ads, a)

\* restartMdns comparing the product id only
RestartMdnsByPid(a, ads, cfg, via) ==
    IF ~a.live \/ a.pid = cfg.pid THEN advertiser' = a /\ adverts' = ads
    ELSE SpawnAdvertiser(Silenced(ads, a), a.name, cfg, via)

\* restartMdns: not before the start, not when nothing it announces changed
RestartMdns(a, ads, cfg, via) ==
    IF ~a.live \/ (a.pid = cfg.pid /\ a.serial = cfg.serial)
    THEN advertiser' = a /\ adverts' = ads
    ELSE SpawnAdvertiser(Silenced(ads, a), a.name, cfg, via)

\* setMdnsServiceName: a new name needs a new advertiser.  Its effect as <<advertiser, adverts>>.
Renamed(a, ads, name, cfg, via) ==
    IF name = a.name THEN <<a, ads>>
    ELSE IF ~a.live THEN <<[a EXCEPT !.name = name], ads>>
    ELSE LET b == [live |-> TRUE, name |-> name, pid |-> cfg.pid, serial |-> cfg.serial, via |-> via]
         IN  <<b, Announcing(Silenced(ads, a), b)>>

(***************************************************************************)
(* applyModelToServers: the config, the primary's geometry, the advert, the *)
(* child's geometry, then the push of the capabilities to a connected app.  *)
(***************************************************************************)
PatchedConfig(cfg, model, info) ==
    [cfg EXCEPT !.pid = model.pid, !.fw = FirmwareFor(model, info),
                !.child = IF model.physical /\ info # NoUnit THEN Physical(info) ELSE @]

PushChildCapabilities(cfg, geo) ==
    session' = IF session.open THEN [session EXCEPT !.told = {CapsOf(cfg, geo)}, !.answers = {}]
               ELSE session

ApplyModelToServers(cfg, model, info, a, ads, via) ==
    LET patched == PatchedConfig(cfg, model, info)
    IN  /\ config' = patched
        /\ geometry' = [primary |-> GeometryOf(model), child |-> GeometryOf(model)]
        /\ RestartMdns(a, ads, patched, via)
        /\ PushChildCapabilities(patched, GeometryOf(model))

(***************************************************************************)
(* The servers start: the primary listens and announces itself before the  *)
(* child has its port, so an app may be there before the model is applied.  *)
(***************************************************************************)
PrimaryListens ==
    /\ servers = "down"
    /\ servers' = "half"
    /\ \E via \in Ways : SpawnAdvertiser(adverts, advertiser.name, config, via)
    /\ UNCHANGED <<kind, dock, config, geometry, dockNames, session, idActs>>

\* Dock.start goes on with applyModel and attach; dock 0 waits for a probe.
ChildListens ==
    /\ servers = "half"
    /\ servers' = "up"
    /\ IF kind = "scanned"
       THEN /\ \E via \in Ways :
                 ApplyModelToServers(config, dock.model, dock.info, advertiser, adverts, via)
            /\ dock' = [dock EXCEPT !.unit = dock.owner]
       ELSE UNCHANGED <<dock, config, geometry, advertiser, adverts, session>>
    /\ UNCHANGED <<kind, dockNames, idActs>>

\* startWithRetry: the child's port is taken, both servers stop; only dock 0 tries again
ChildBindFails ==
    /\ servers = "half" /\ Act
    /\ servers' = IF kind = "primary" THEN "down" ELSE "stopped"
    /\ adverts' = Silenced(adverts, advertiser)
    /\ advertiser' = [Idle EXCEPT !.name = advertiser.name]
    /\ session' = NoSession
    /\ UNCHANGED <<kind, dock, config, geometry, dockNames>>

\* Dock.stop / CoraDock.stop
StopDock ==
    /\ servers # "stopped"
    /\ servers' = "stopped"
    /\ dock' = [dock EXCEPT !.unit = NoUnit]
    /\ adverts' = Silenced(adverts, advertiser)
    /\ advertiser' = [Idle EXCEPT !.name = advertiser.name]
    /\ session' = NoSession
    /\ UNCHANGED <<kind, config, geometry, dockNames, idActs>>

(***************************************************************************)
(* USB units come and go at dock 0.                                        *)
(***************************************************************************)
\* acquireRealDriver's end and attach: resolveIdentity, then applyDeviceModel
ProbeFinds(u) ==
    /\ kind = "primary" /\ servers = "up" /\ dock.unit = NoUnit /\ Act
    /\ LET cfg == [config EXCEPT !.serial = u]
       IN  \E named \in Ways, via \in Ways :
             LET r == Renamed(advertiser, adverts, dockNames[u], cfg, named)
             IN  ApplyModelToServers(cfg, IdModel[u], u, r[1], r[2], via)
    /\ dock' = [owner |-> u, model |-> IdModel[u], info |-> u, unit |-> u]
    /\ UNCHANGED <<kind, servers, dockNames>>

\* onPrimaryDisconnect: the default model is advertised, the identity stays
UnitLeaves ==
    /\ dock.unit # NoUnit /\ kind = "primary" /\ Act
    /\ \E via \in Ways :
         ApplyModelToServers(config, DefaultModel, NoUnit, advertiser, adverts, via)
    /\ dock' = [dock EXCEPT !.model = DefaultModel, !.info = NoUnit, !.unit = NoUnit]
    /\ UNCHANGED <<kind, servers, dockNames>>

\* POST device name: settings, then the live dock that has this identity (renameMdns)
Rename(u, name) ==
    /\ servers # "stopped" /\ name # dockNames[u] /\ Act
    /\ dockNames' = [dockNames EXCEPT ![u] = name]
    /\ \E via \in Ways :
         LET r == IF dock.owner = u THEN Renamed(advertiser, adverts, name, config, via)
                  ELSE <<advertiser, adverts>>
         IN  advertiser' = r[1] /\ adverts' = r[2]
    /\ UNCHANGED <<kind, servers, dock, config, geometry, session>>

\* the dns-sd / avahi process exits: logged, not restarted
AdvertProcessDies ==
    /\ advertiser.live /\ advertiser.via = "process" /\ Announced(advertiser) \in adverts /\ Act
    /\ adverts' = adverts \ {Announced(advertiser)}
    /\ UNCHANGED <<kind, servers, dock, config, geometry, advertiser, dockNames, session>>

(***************************************************************************)
(* The app on the primary port.                                            *)
(***************************************************************************)
AppConnects ==
    /\ servers \in {"half", "up"} /\ ~session.open /\ Act
    /\ session' = [NoSession EXCEPT !.open = TRUE]
    /\ UNCHANGED <<kind, servers, dock, config, geometry, advertiser, adverts, dockNames>>

AppDisconnects ==
    /\ session.open /\ Act
    /\ session' = NoSession
    /\ UNCHANGED <<kind, servers, dock, config, geometry, advertiser, adverts, dockNames>>

\* FEATURE_GET_CAPABILITIES (0x1c) on the primary
GetCapabilities ==
    /\ session.open /\ Act
    /\ session' = [session EXCEPT !.told = {CapsOf(config, geometry.primary)}]
    /\ UNCHANGED <<kind, servers, dock, config, geometry, advertiser, adverts, dockNames>>

\* Which fields of the shared config the reports of each port carry; unknown reports carry
\* none (buildFeatureResponse; buildVerbatimProbeReport and CHILD_REPORT_SPECS).
PrimaryReports == {"fw", "serial"}
ChildReports == {"pid", "fw", "child"}

\* handleCoraPacket of either server: a report is built from the config as it is now
GetReport(field) ==
    /\ session.open /\ Act
    /\ field \in PrimaryReports \/ (servers = "up" /\ field \in ChildReports)
    /\ session' = [session EXCEPT !.answers = @ \cup {<<field, config[field]>>}]
    /\ UNCHANGED <<kind, servers, dock, config, geometry, advertiser, adverts, dockNames>>

IdNext ==
    \/ PrimaryListens \/ ChildListens \/ ChildBindFails \/ StopDock
    \/ \E u \in IdUnits : ProbeFinds(u) \/ \E n \in DockNames : Rename(u, n)
    \/ UnitLeaves \/ AdvertProcessDies
    \/ AppConnects \/ AppDisconnects \/ GetCapabilities
    \/ \E f \in PrimaryReports \cup ChildReports : GetReport(f)

IdSpec == IdInit /\ [][IdNext]_idVars

(***************************************************************************)
(* What is told.                                                           *)
(***************************************************************************)
\* The identity fields of buildDockStatus.
StatusOf ==
    [pid |-> dock.model.pid,
     fw |-> FirmwareFor(dock.model, dock.info),
     serial |-> dock.owner,
     child |-> IF dock.model.physical /\ dock.info # NoUnit THEN Physical(dock.info)
               ELSE Generated(dock.owner)]

\* At most one advert of this dock is on the network, it carries the name the user gave the
\* unit and the product id and serial the servers answer with, and none outlives the servers:
\* whatever order of start, probe, rename, unplug and failed bind the advertiser went through
\* (restartMdns, setMdnsServiceName, stop).
AdvertIsCurrent ==
    /\ Cardinality(adverts) <= 1
    /\ \A x \in adverts :
         /\ x.name = IF dock.owner = NoUnit THEN DefaultName ELSE dockNames[dock.owner]
         /\ x.pid = config.pid /\ x.serial = config.serial
    /\ servers \in {"down", "stopped"} => adverts = {}

\* A connected app that has been told the capabilities, by asking or by a push, was told the
\* current ones, also when it connected before the model was applied, and no answer it got
\* since then went stale without a push; both servers agree on the geometry
\* (applyModelToServers, pushChildCapabilities, resolveIdentity).
CapsAreCurrent ==
    /\ \A a \in session.answers : a[2] = config[a[1]]
    /\ session.told \subseteq {CapsOf(config, geometry.primary)}
    /\ geometry.primary = geometry.child

\* The identity the web UI shows for an attached deck is the one the app is answered with.
\* The child serial of dock 0 is left out for a model that does not forward its own: the
\* servers keep the last one there (applyModelToServers, buildDockStatus).
StatusIsTrue ==
    dock.unit # NoUnit =>
        /\ \A f \in {"pid", "fw", "serial"} : config[f] = StatusOf[f]
        /\ kind = "scanned" \/ dock.model.physical => config.child = StatusOf.child

\* The advert, the pushed capabilities, the reports and the status agree on who the dock is.
IdentityIsTold == AdvertIsCurrent /\ CapsAreCurrent /\ StatusIsTrue
=============================================================================
