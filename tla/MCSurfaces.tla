---------------------------- MODULE MCSurfaces ----------------------------
(* TLC instance of the surfaces people see and touch: the web UI's mirror of the panels, the
   browser deck, the push API with its access tokens, the USB drivers, the touch strip, and
   the identity and the input a dock passes on to the app.
   They share no state here, so one exploration serves all: part says which one a behaviour
   moves, the others rest. *)
EXTENDS WebMirror, BrowserDeck, PushAccess, UsbDrivers, StripZones, DockIdentity, DockInput

VARIABLE part

(* A unit with two keys whose model forwards its serial, and one with a key and a knob. *)
MCIdModel ==
    [a |-> [pid |-> 1, keys |-> 2, dials |-> 0, physical |-> TRUE, fw |-> "fw1"],
     b |-> [pid |-> 2, keys |-> 1, dials |-> 1, physical |-> FALSE, fw |-> "fw2"]]

MCDefaultModel == MCIdModel.a

MCGridOf == [a |-> {0, 1}, b |-> {0}]
MCKnobsOf == [a |-> {}, b |-> {0}]

pageSideVars == <<mirrorVars, deckVars, pushVars>>
panelSideVars == <<usbVars, stripVars>>
appSideVars == <<idVars, inVars>>

surfacesVars == <<pageSideVars, panelSideVars, appSideVars, part>>

SurfacesInit ==
    /\ MirrorInit /\ DeckInit /\ PushInit /\ UsbInit /\ StripInit /\ IdInit /\ InInit
    /\ part \in {"mirror", "deck", "push", "usb", "strip", "identity", "input"}
    \* a component that rests needs one initial state only
    /\ part # "usb" => unit.family = "elgato"
    /\ part # "strip" => wd.mode = "elgato" /\ \A z \in Zones : ~Owns(wd, z)
    /\ part # "identity" => kind = "primary"

SurfacesNext ==
    /\ UNCHANGED part
    /\ \/ part = "mirror" /\ MirrorNext
          /\ UNCHANGED <<deckVars, pushVars, panelSideVars, appSideVars>>
       \/ part = "deck" /\ DeckNext
          /\ UNCHANGED <<mirrorVars, pushVars, panelSideVars, appSideVars>>
       \/ part = "push" /\ PushNext
          /\ UNCHANGED <<mirrorVars, deckVars, panelSideVars, appSideVars>>
       \/ part = "usb" /\ UsbNext /\ UNCHANGED <<pageSideVars, stripVars, appSideVars>>
       \/ part = "strip" /\ StripNext /\ UNCHANGED <<pageSideVars, usbVars, appSideVars>>
       \/ part = "identity" /\ IdNext /\ UNCHANGED <<pageSideVars, panelSideVars, inVars>>
       \/ part = "input" /\ InNext /\ UNCHANGED <<pageSideVars, panelSideVars, idVars>>

SurfacesSpec == SurfacesInit /\ [][SurfacesNext]_surfacesVars
=============================================================================
