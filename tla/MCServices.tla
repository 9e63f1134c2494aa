---------------------------- MODULE MCServices ----------------------------
(* TLC instance of the components around the docks: pages, the CORA reader and
   assemblers, plugins, extensions, the Elgato app's restart, the scan worker and the
   enumeration under it, the tuning of models and the wizard that finds it, the log file and the process with its tray and background tasks.  They share no
   state here, so one exploration serves all: part says which one a behaviour moves, the
   others rest. *)
EXTENDS Pages, CoraFrames, CoraAssembly, Plugins, Extensions,
        ElgatoRestart, ScanWorker, UsbEnumeration, VerifyTuning, VerifyWizard, LogFile,
        AppProcess

VARIABLE part

(* Key 0 shows one of two pictures, key 1 always the same: pages that share a picture. *)
MCPageFrames == {<<0, 1>>, <<0, 2>>, <<1, 2>>}

(* Payloads that are, start with and contain the first bytes of the frame magic. *)
MCFramePayloads == {<<1>>, <<ByteC>>, <<ByteR, ByteC>>, <<ByteC, ByteR, 1>>}

(* A key's picture of three parts, one of a single part that no key takes, two otherwise. *)
MCPartsOf ==
    [s \in KeySlots \cup StripSlots \cup {StrayKey} |->
        CASE s = 1 -> 3 [] s = StrayKey -> 1 [] OTHER -> 2]

(* Background tasks that overlap, one that meets a crash and a restart, and a tray alone. *)
MCAppSetups ==
    {[tray |-> FALSE, tasks |-> 2, changes |-> 1, runs |-> 1, days |-> 1],
     [tray |-> FALSE, tasks |-> 1, changes |-> 1, runs |-> 2, days |-> 2],
     [tray |-> TRUE, tasks |-> 0, changes |-> 1, runs |-> 2, days |-> 1]}

(* A deck of three keys, and how units of its model can be built: each way a panel can be
   mounted, key orders, smaller and larger pictures, limits on bytes and quality; with and
   without the app, and one whose lease is upset while the wizard runs. *)
Mount(r, h, v) == [rotate |-> r, flipH |-> h, flipV |-> v]
Perm(a, b, c) == (0 :> a) @@ (1 :> b) @@ (2 :> c)
Board(m, c, s, by, q, a, u) ==
    [mount |-> m, cells |-> c, size |-> s, bytes |-> by, quality |-> q,
     inputs |-> Perm(2, 0, 3), app |-> a, upsets |-> u]
MCBoards ==
    {Board(Mount(0, FALSE, FALSE), Perm(2, 0, 1), 5, 0, 2, TRUE, 0),
     Board(Mount(1, FALSE, FALSE), Perm(0, 1, 2), 1, 0, 2, FALSE, 0),
     Board(Mount(2, FALSE, FALSE), Perm(1, 0, 2), 4, 3, 2, FALSE, 0),
     Board(Mount(3, FALSE, FALSE), Perm(1, 2, 0), 9, 0, 1, FALSE, 0),
     Board(Mount(0, TRUE, FALSE), Perm(2, 0, 1), 3, 2, 1, FALSE, 0),
     Board(Mount(1, TRUE, FALSE), Perm(2, 1, 0), 7, 0, 2, FALSE, 0),
     Board(Mount(2, TRUE, FALSE), Perm(0, 2, 1), 5, 0, 0, FALSE, 0),
     Board(Mount(3, TRUE, FALSE), Perm(0, 2, 1), 6, 0, 2, FALSE, 0),
     Board(Mount(3, FALSE, FALSE), Perm(0, 2, 1), 6, 0, 2, FALSE, 1)}
MCRegistryMap == Perm(1, 2, 0)
MCRegistryImage == Mount(1, TRUE, TRUE) @@ [width |-> 5, maxBytes |-> 0, quality |-> 2]
MCAppFrame == Mount(1, TRUE, FALSE)
MCCapRungs == <<3, 2>>
MCQualityRungs == <<1>>

(* Interfaces of a listed model with separators in a serial, without a serial, of another
   model, and a second one of the first model.  The listing of all supported ones is exactly
   as long as the buffer, without its terminator. *)
MCUnitList ==
    <<[product |-> 21, usage |-> 11, serial |-> <<5, TAB, NL>>, path |-> <<6>>],
      [product |-> 22, usage |-> 11, serial |-> <<>>, path |-> <<7>>],
      [product |-> 23, usage |-> 12, serial |-> <<8>>, path |-> <<9>>],
      [product |-> 21, usage |-> 12, serial |-> <<8>>, path |-> <<6, 6>>]>>
MCSupportedPids == <<22, 21, 22>>

streamVars == <<framesVars, asmVars>>
hostedVars == <<pluginVars, extVars>>
usbVars == <<scanVars, enumVars>>
sideVars == <<restartVars, usbVars, logVars, appVars>>
modelVars == <<tuneVars, wizardVars>>
dockVars == <<pageVars, modelVars>>

servicesVars == <<streamVars, hostedVars, sideVars, dockVars, part>>

ServicesInit ==
    /\ PagesInit /\ FramesInit /\ AssemblyInit /\ PluginsInit /\ ExtInit
    /\ RestartInit /\ ScanInit /\ EnumInit /\ TuneInit /\ WizardInit /\ LogInit /\ AppInit
    /\ part \in {"pages", "frames", "assembly", "plugins", "extensions", "restart",
                 "scan", "usb", "tuning", "wizard", "log", "app"}
    \* a component that rests needs one initial state only
    /\ part # "extensions" => extc.disk = CHOOSE d \in Digests : TRUE
    /\ part # "restart" => elgato.up
    /\ part # "wizard" => board = CHOOSE b \in Boards : TRUE
    /\ part # "app" => app.setup.tray

ServicesNext ==
    /\ UNCHANGED part
    /\ \/ part = "pages" /\ PagesNext
          /\ UNCHANGED <<streamVars, hostedVars, sideVars, modelVars>>
       \/ part = "tuning" /\ TuneNext
          /\ UNCHANGED <<streamVars, hostedVars, sideVars, pageVars, wizardVars>>
       \/ part = "wizard" /\ WizardNext
          /\ UNCHANGED <<streamVars, hostedVars, sideVars, pageVars, tuneVars>>
       \/ part = "frames" /\ FramesNext
          /\ UNCHANGED <<asmVars, hostedVars, sideVars, dockVars>>
       \/ part = "assembly" /\ AssemblyNext
          /\ UNCHANGED <<framesVars, hostedVars, sideVars, dockVars>>
       \/ part = "plugins" /\ PluginsNext
          /\ UNCHANGED <<streamVars, extVars, sideVars, dockVars>>
       \/ part = "extensions" /\ ExtNext
          /\ UNCHANGED <<streamVars, pluginVars, sideVars, dockVars>>
       \/ part = "restart" /\ RestartNext
          /\ UNCHANGED <<streamVars, hostedVars, usbVars, logVars, appVars, dockVars>>
       \/ part = "scan" /\ ScanNext
          /\ UNCHANGED <<streamVars, hostedVars, restartVars, enumVars, logVars, appVars, dockVars>>
       \/ part = "usb" /\ EnumNext
          /\ UNCHANGED <<streamVars, hostedVars, restartVars, scanVars, logVars, appVars, dockVars>>
       \/ part = "log" /\ LogNext
          /\ UNCHANGED <<streamVars, hostedVars, restartVars, usbVars, appVars, dockVars>>
       \/ part = "app" /\ AppNext
          /\ UNCHANGED <<streamVars, hostedVars, restartVars, usbVars, logVars, dockVars>>

ServicesSpec == ServicesInit /\ [][ServicesNext]_servicesVars

\* The bytes of the app reach the dock as what was sent: frames after damage and split reads
\* (FrameReader), pictures after evictions, takeovers and stale parts (the assemblers).
StreamComesOutWhole == FramesComeOutWhole /\ PicturesAreWhole

\* Code of others runs only as approved and is served while it runs: plugin polls, fetches
\* and presses (PluginHost), extension starts, events and input (ExtensionHost).
HostedCodeIsOrderly == PluginsAreServed /\ ExtensionsAreOrderly

\* What the process believes is plugged comes from its own answers and from the bus: the
\* scans the worker is asked for (HidScanWorker) and the listing under them (hid.rs).
ScansAreTrue == ScansAreOwnAndFresh /\ EnumerationIsTrue

\* A model draws as its owner last confirmed: the tuning reaches the docks of the model and
\* leaves with the session (VerifyController), and what the wizard saves draws upright, in
\* order and in the size and quality the panel takes (VerifyModal).
TuningIsRight == TuningFollowsSessions /\ WizardKeepsItsWord
=============================================================================
