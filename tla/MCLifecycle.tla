---------------------------- MODULE MCLifecycle ----------------------------
(* TLC instance of what must have ended when the process exits: the settings file with the
   shutdown sequence, and the commands that widgets and knobs start.  The components share
   no state here, so one exploration serves both: part says which one a behaviour moves, the
   other rests, and none of a resting component's fair actions is enabled. *)
EXTENDS SettingsShutdown, CommandWork

VARIABLE part

lifecycleVars == <<settingsVars, workVars, part>>

LifecycleInit == SettingsInit /\ WorkInit /\ part \in {"settings", "commands"}

LifecycleNext ==
    \/ part = "settings" /\ SettingsNext /\ UNCHANGED <<workVars, part>>
    \/ part = "commands" /\ WorkNext /\ UNCHANGED <<settingsVars, part>>

LifecycleSpec ==
    LifecycleInit /\ [][LifecycleNext]_lifecycleVars /\ SettingsFairness /\ WorkFairness
=============================================================================
