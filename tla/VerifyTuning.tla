---------------------------- MODULE VerifyTuning ----------------------------
(***************************************************************************)
(* Device tuning and the verify wizard's sessions: per-model overrides     *)
(* (web/server/model-overrides-controller.ts), the lease-guarded session   *)
(* that holds a dock and keeps an image draft in memory                    *)
(* (web/server/verify-controller.ts), and how the driver manager puts both *)
(* into force on its docks (main/driver-manager.ts reloadDeviceTuning,     *)
(* overrideFor; main/dock.ts applyTuning, setVerifyHold, detach).          *)
(*                                                                         *)
(* An override is [image, map]: an image-only change is swapped into the   *)
(* running drivers, any other reopens them.                                *)
(***************************************************************************)
EXTENDS Integers, FiniteSets

CONSTANTS
  TunedDocks,      \* dock indices
  TunedModels,     \* registry models, numbers from 1
  ImageSpecs,      \* image sections, 0 the registry's
  KeyMaps,         \* every other section, 0 the registry's
  TuneWhileOpening,\* tuning may change while a driver is being opened
  MaxTuneEdits     \* bound: drafts, saves and edits

VARIABLES
  docksOn,   \* per dock: its driver's model and override, held, and the open under way
  tuned,     \* settings: the override of each model
  sessions,  \* VerifyController.sessions by dock
  tuneEdits

tuneVars == <<docksOn, tuned, sessions, tuneEdits>>

NoModel == 0
NoDraft == -1
Registry == [image |-> 0, map |-> 0]
NoSession == [model |-> NoModel, draft |-> NoDraft]
NoOpen == [model |-> NoModel, runs |-> Registry]

TuneInit ==
  /\ docksOn = [d \in TunedDocks |->
                  [model |-> NoModel, runs |-> Registry, held |-> FALSE, opening |-> NoOpen]]
  /\ tuned = [m \in TunedModels |-> Registry]
  /\ sessions = [d \in TunedDocks |-> NoSession]
  /\ tuneEdits = 0

-----------------------------------------------------------------------------
(* What is in force for a model: a draft over the persisted override.      *)

DraftsOf(sess, m) == {d \in TunedDocks : sess[d].model = m /\ sess[d].draft # NoDraft}

OverrideFor(sess, saved, m) ==
  IF DraftsOf(sess, m) = {} THEN saved[m]
  ELSE [saved[m] EXCEPT !.image = sess[CHOOSE d \in DraftsOf(sess, m) : TRUE].draft]

\* classifyOverrideChange
ChangeKind(old, new) ==
  IF old = new THEN "none" ELSE IF old.map = new.map THEN "live" ELSE "reopen"

\* applyTuning on every dock that runs the model
AppliedLive(on, sess, saved, m) ==
  [d \in TunedDocks |-> IF on[d].model = m
                          THEN [on[d] EXCEPT !.runs = OverrideFor(sess, saved, m)] ELSE on[d]]

\* detach: the driver is gone and a held dock is let go
DetachedDock(dk) == [dk EXCEPT !.model = NoModel, !.runs = Registry, !.held = FALSE]

\* reload of a model's docks, by kind of change
Reloaded(on, sess, saved, m, kind) ==
  CASE kind = "none" -> on
    [] kind = "live" -> AppliedLive(on, sess, saved, m)
    [] kind = "reopen" -> [d \in TunedDocks |-> IF on[d].model = m THEN DetachedDock(on[d]) ELSE on[d]]

\* finish: the one end path; repaint swaps the persisted override back in
Finished(st, d, repaint) ==
  LET s == st.sess[d]
      sess == [st.sess EXCEPT ![d] = NoSession]
      on == IF repaint /\ s.draft # NoDraft THEN AppliedLive(st.on, sess, st.saved, s.model) ELSE st.on
  IN  [st EXCEPT !.sess = sess, !.on = [on EXCEPT ![d].held = FALSE]]

\* Mutant: the draft of a session whose dock vanished stays on the model's other docks
SyncedDocksKeepingDraft(st) ==
  [st EXCEPT !.sess = [d \in TunedDocks |->
     IF st.sess[d].model \notin {NoModel, st.on[d].model} THEN NoSession ELSE st.sess[d]]]

\* syncDocks, run by every change of the dock list: a session whose dock vanished
\* ends, and its draft with it
SyncedDocks(st) ==
  LET lost == {d \in TunedDocks : st.sess[d].model \notin {NoModel, st.on[d].model}}
      sess == [d \in TunedDocks |-> IF d \in lost THEN NoSession ELSE st.sess[d]]
      undrafted == {st.sess[d].model : d \in {e \in lost : st.sess[e].draft # NoDraft}}
  IN  [st EXCEPT !.sess = sess,
                 !.on = [d \in TunedDocks |-> IF st.on[d].model \in undrafted
                           THEN AppliedLive(st.on, sess, st.saved, st.on[d].model)[d] ELSE st.on[d]]]

TuneState == [on |-> docksOn, sess |-> sessions, saved |-> tuned]
Turn(st) == docksOn' = st.on /\ sessions' = st.sess /\ tuned' = st.saved

TuneEdit ==
  /\ tuneEdits < MaxTuneEdits /\ tuneEdits' = tuneEdits + 1
  /\ TuneWhileOpening \/ \A d \in TunedDocks : docksOn[d].opening = NoOpen

-----------------------------------------------------------------------------
(* Docks come and go: an open takes its override when it starts.           *)

OpenStarts(d, m) ==
  /\ docksOn[d].model = NoModel /\ docksOn[d].opening = NoOpen
  /\ TuneWhileOpening \/ DraftsOf(sessions, m) = {}
  /\ docksOn' = [docksOn EXCEPT ![d].opening = [model |-> m, runs |-> OverrideFor(sessions, tuned, m)]]
  /\ UNCHANGED <<tuned, sessions, tuneEdits>>

OpenEnds(d) ==
  /\ docksOn[d].opening # NoOpen
  /\ \E ok \in BOOLEAN :
       docksOn' = [docksOn EXCEPT ![d].opening = NoOpen,
                                  ![d].model = IF ok THEN docksOn[d].opening.model ELSE @,
                                  ![d].runs = IF ok THEN docksOn[d].opening.runs ELSE @]
  /\ UNCHANGED <<tuned, sessions, tuneEdits>>

Unplugged(d) ==
  /\ docksOn[d].model # NoModel
  /\ Turn(SyncedDocks([TuneState EXCEPT !.on[d] = DetachedDock(@)]))
  /\ UNCHANGED tuneEdits

-----------------------------------------------------------------------------
(* The tuning page and the wizard.                                         *)

\* trySet / tryReset
SetOverride(m, override) ==
  /\ TuneEdit
  /\ LET st == [TuneState EXCEPT !.saved[m] = override]
     IN  Turn(SyncedDocks([st EXCEPT !.on = Reloaded(st.on, st.sess, st.saved, m, ChangeKind(tuned[m], override))]))

\* start: one session per dock and per model
StartVerify(d) ==
  /\ docksOn[d].model # NoModel
  /\ \A e \in TunedDocks : sessions[e].model # docksOn[d].model
  /\ sessions[d] = NoSession
  /\ sessions' = [sessions EXCEPT ![d] = [model |-> docksOn[d].model, draft |-> NoDraft]]
  /\ docksOn' = [docksOn EXCEPT ![d].held = TRUE]
  /\ UNCHANGED <<tuned, tuneEdits>>

DraftVerify(d, image) ==
  /\ sessions[d] # NoSession /\ TuneEdit
  /\ LET st == [TuneState EXCEPT !.sess[d].draft = image]
     IN  Turn([st EXCEPT !.on = AppliedLive(st.on, st.sess, st.saved, st.sess[d].model)])

\* save: the session ends first, then the override takes the normal path
SaveVerify(d, override) ==
  /\ sessions[d] # NoSession /\ TuneEdit
  /\ LET m == sessions[d].model
         kind == ChangeKind(tuned[m], override)
         over == Finished(TuneState, d, kind = "none")
         st == [over EXCEPT !.saved[m] = override]
     IN  Turn(SyncedDocks([st EXCEPT !.on = Reloaded(st.on, st.sess, st.saved, m, kind)]))

\* end, or the lease ran out
EndVerify(d) ==
  /\ sessions[d] # NoSession
  /\ Turn(Finished(TuneState, d, TRUE))
  /\ UNCHANGED tuneEdits

TuneNext ==
  \/ \E d \in TunedDocks :
       \/ \E m \in TunedModels : OpenStarts(d, m)
       \/ OpenEnds(d) \/ Unplugged(d) \/ StartVerify(d) \/ EndVerify(d)
       \/ \E v \in ImageSpecs : DraftVerify(d, v)
       \/ \E o \in [image : ImageSpecs, map : KeyMaps] : SaveVerify(d, o)
  \/ \E m \in TunedModels, o \in [image : ImageSpecs, map : KeyMaps] : SetOverride(m, o)

TuneSpec == TuneInit /\ [][TuneNext]_tuneVars

-----------------------------------------------------------------------------
\* What the comments of trySet and reloadDeviceTuning promise: a running dock runs
\* the override in force for its model, the draft of a session included.
TuningIsInForce ==
  \A d \in TunedDocks : docksOn[d].model # NoModel =>
    docksOn[d].runs = OverrideFor(sessions, tuned, docksOn[d].model)

\* A dock is held exactly while a session of its own model is open, and a model's
\* draft has one author: no end path leaves a dock held or a draft behind.
HoldHasASession ==
  /\ \A d \in TunedDocks : docksOn[d].held <=> sessions[d] # NoSession
  /\ \A d \in TunedDocks : sessions[d] # NoSession => sessions[d].model = docksOn[d].model
  /\ \A m \in TunedModels : Cardinality({d \in TunedDocks : sessions[d].model = m}) <= 1

\* Tunings and wizard sessions end together: no draft outlives its session on a dock.
TuningFollowsSessions == TuningIsInForce /\ HoldHasASession
=============================================================================
