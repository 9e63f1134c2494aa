------------------------------ MODULE MCDocks ------------------------------
(* TLC instance of the docks that come and go and of the standby of one of them.  They share
   no state here, so one exploration serves both: part says which one a behaviour moves, the
   other rests. *)
EXTENDS MCDockDiscovery, Standby

VARIABLE part

(* Every standby feature on, and every one off. *)
MCStandbyConfigs ==
    {[idleDim |-> on, offWhenIdle |-> on, appGone |-> IF on THEN "clock" ELSE "none",
      offAuto |-> TRUE, night |-> on, nightOffWhenIdle |-> TRUE, swallow |-> TRUE] : on \in BOOLEAN}

(* Only the reaction to an absent app is switched on. *)
MCAbsence ==
    {[idleDim |-> FALSE, offWhenIdle |-> FALSE, appGone |-> "clock", offAuto |-> TRUE,
      night |-> FALSE, nightOffWhenIdle |-> FALSE, swallow |-> TRUE]}

MCStandbyPanels == {[sleep |-> TRUE, clock |-> TRUE]}

docksVars == <<vars, standbyVars, part>>

DocksInit ==
    /\ Init /\ StandbyInit
    /\ part \in {"discovery", "standby"}
    \* a component that rests needs one initial state only
    /\ part # "discovery" => plugged = {} /\ ~multi
    /\ part # "standby" => around.cfg.appGone = "none"

DocksNext ==
    /\ UNCHANGED part
    /\ \/ part = "discovery" /\ Next /\ UNCHANGED standbyVars
       \/ part = "standby" /\ StandbyNext /\ UNCHANGED vars

DocksSpec == DocksInit /\ [][DocksNext]_docksVars
=============================================================================
