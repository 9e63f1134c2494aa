--------------------------- MODULE MCDockSession ---------------------------
(* TLC instance of a dock's session with the Elgato app: the server pair it pairs with,
   and the images it draws.  The components meet only in DockImages' own ClientConnects and
   ClientGone, so one exploration serves both: part says which one a behaviour moves, the
   other rests, and none of a resting component's fair actions is enabled. *)
EXTENDS DockImages, CoraSession

VARIABLE part

dockVars == <<vars, coraVars, part>>

DockInit == Init /\ CoraInit /\ part \in {"images", "servers"}

DockNext ==
    \/ part = "images" /\ Next /\ UNCHANGED <<coraVars, part>>
    \/ part = "servers" /\ CoraNext /\ UNCHANGED <<vars, part>>

DockSpec == DockInit /\ [][DockNext]_dockVars /\ Fairness /\ CoraFairness
=============================================================================
