-------------------------- MODULE MCDockDiscovery --------------------------
EXTENDS DockDiscovery

(* Two units of one model, the case in which they share a pool slot. *)
MCSameModel == [u \in Units |-> 1]

(* Every unit its own model. *)
MCOwnModel == [u \in Units |-> u]
=============================================================================
