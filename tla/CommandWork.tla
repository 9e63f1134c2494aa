----------------------------- MODULE CommandWork -----------------------------
(***************************************************************************)
(* Work the widgets and the knobs start outside the process: shell         *)
(* commands of pressable keys and knobs (CommandSlots, command-actions.ts),*)
(* and the cached values behind the weather and command widgets with the   *)
(* refresh a tap forces (widget-refresh.ts), run by runCommand and stopped *)
(* by stopCommands (infra/command-runner.ts).                              *)
(*                                                                         *)
(* A job is one run, of a shell command or of a weather request.  A slot   *)
(* owns at most one; a cache entry too.  Output and values are left out:   *)
(* `served' records how many of the owner's requests were made when its    *)
(* last run started.                                                       *)
(***************************************************************************)
EXTENDS Integers, Sequences, SequencesExt, FiniteSets

CONSTANTS
  Slots,            \* command slots: one per pressable key and knob gesture
  CommandKeys,      \* distinct command lines shown by widgets
  WeatherKeys,      \* distinct locations shown by widgets
  MaxEntries,       \* MAX_ENTRIES of a cache
  MaxAsks,          \* bound: presses and taps
  MaxPolls          \* bound: widget ticks that start a run

CacheKeys == CommandKeys \cup WeatherKeys
WorkOwners == Slots \cup CacheKeys

ASSUME WorkAssumption ==
  /\ Slots \cap CacheKeys = {} /\ CommandKeys \cap WeatherKeys = {}
  /\ MaxEntries \in Nat \ {0}

VARIABLES
  slot,    \* CommandSlots: inflight entry with its pending flag; stopped
  cache,   \* per kind, entries in least recently used order
  jobs,    \* runs under way, by owner
  asks,    \* requests made and requests served, by owner
  runner,  \* stopCommands: "on", "stopping", "stopped"
  spent    \* counters behind the bounds

workVars == <<slot, cache, jobs, asks, runner, spent>>

Kind(k) == IF k \in WeatherKeys THEN "weather" ELSE "command"

WorkInit ==
  /\ slot = [running |-> [s \in Slots |-> "no"], stopped |-> FALSE]
  /\ cache = [kind \in {"weather", "command"} |-> <<>>]
  /\ jobs = {}
  /\ asks = [o \in WorkOwners |-> [made |-> 0, served |-> 0, waiting |-> 0]]
  /\ runner = "on"
  /\ spent = [asks |-> 0, polls |-> 0]

-----------------------------------------------------------------------------
(* Jobs.  A stopped runner refuses: the run fails at its first await.      *)

JobOf(o) == {j \in jobs : j.owner = o}
NewJob(o) ==
  [owner |-> o, state |-> IF o \notin WeatherKeys /\ runner # "on" THEN "refused" ELSE "running"]

\* runCommand fails: timeout, output over the cap, or cancelled; the shell is
\* sent SIGTERM, then SIGKILL, and waited for no longer than the ceiling
JobFails(j) ==
  /\ j \in jobs /\ j.state = "running" /\ j.owner \notin WeatherKeys
  /\ jobs' = (jobs \ {j}) \cup {[j EXCEPT !.state = "dying"]}
  /\ UNCHANGED <<slot, cache, asks, runner, spent>>

-----------------------------------------------------------------------------
(* Slots.                                                                  *)

\* trigger starts a run: it covers every press made so far
SlotStarts(s, made) ==
  /\ slot' = [slot EXCEPT !.running[s] = "once"]
  /\ asks' = [asks EXCEPT ![s].made = made, ![s].served = made]

\* handleKey / a dial event; a slot without a command has nothing to run
Trigger(s) ==
  /\ spent.asks < MaxAsks /\ spent' = [spent EXCEPT !.asks = @ + 1]
  /\ ~slot.stopped
  /\ IF slot.running[s] # "no" THEN
       /\ slot' = [slot EXCEPT !.running[s] = "again"]
       /\ asks' = [asks EXCEPT ![s].made = @ + 1]
       /\ UNCHANGED jobs
     ELSE
       /\ SlotStarts(s, asks[s].made + 1)
       /\ jobs' = jobs \cup {NewJob(s)}
  /\ UNCHANGED <<cache, runner>>

\* Mutant: presses during a run are forgotten when it ends
SlotDoneForgetting(s) ==
  /\ slot' = [slot EXCEPT !.running[s] = "no"]
  /\ jobs' = jobs \ JobOf(s)
  /\ UNCHANGED asks

\* the run ended, whatever its result: presses that came meanwhile get one run
SlotDone(s) ==
  IF slot.running[s] = "again" /\ ~slot.stopped THEN
    /\ SlotStarts(s, asks[s].made)
    /\ jobs' = (jobs \ JobOf(s)) \cup {NewJob(s)}
  ELSE
    /\ slot' = [slot EXCEPT !.running[s] = "no"]
    /\ jobs' = jobs \ JobOf(s)
    /\ UNCHANGED asks

\* the dock is torn down
StopSlots ==
  /\ ~slot.stopped
  /\ slot' = [running |-> [s \in Slots |-> IF slot.running[s] = "no" THEN "no" ELSE "once"],
              stopped |-> TRUE]
  /\ UNCHANGED <<cache, jobs, asks, runner, spent>>

-----------------------------------------------------------------------------
(* Caches.                                                                 *)

NewEntry(k) == [key |-> k, inflight |-> FALSE, followUp |-> FALSE, settled |-> 0,
                stale |-> FALSE, due |-> TRUE]

\* Mutant: an entry whose run is under way may be evicted
EntryIdleAlways(e) == TRUE

EntryIdle(e) == ~e.inflight /\ e.settled = 0

\* second loop of sweep: the least recently used idle entries go while over the cap
RECURSIVE Shrunk(_)
Shrunk(c) ==
  LET idle == {i \in DOMAIN c : EntryIdle(c[i])}
  IN  IF Len(c) <= MaxEntries \/ idle = {} THEN c
      ELSE Shrunk(RemoveAt(c, CHOOSE i \in idle : \A j \in idle : i <= j))

Sweep(c) == Shrunk(SelectSeq(c, LAMBDA e : ~(EntryIdle(e) /\ e.stale)))

\* entryIn: the entry moves to the most recent end, made if missing
EntryIn(c, k) ==
  LET found == SelectSeq(c, LAMBDA e : e.key = k)
  IN  IF found # <<>>
        THEN Append(SelectSeq(c, LAMBDA e : e.key # k), [found[1] EXCEPT !.stale = FALSE])
        ELSE Append(Sweep(c), NewEntry(k))

\* entryIn leaves the entry last
Put(c, e) == [c EXCEPT ![Len(c)] = e]

\* startFetch, covering the `made' requests so far; e.settled taps wait for its end
Fetch(k, c, e, made) ==
  /\ cache' = [cache EXCEPT ![Kind(k)] = Put(c, [e EXCEPT !.inflight = TRUE, !.due = FALSE])]
  /\ jobs' = jobs \cup {NewJob(k)}
  /\ asks' = [asks EXCEPT ![k] = [made |-> made, served |-> made, waiting |-> e.settled]]

NoFetch(k, c, e, made) ==
  /\ cache' = [cache EXCEPT ![Kind(k)] = Put(c, e)]
  /\ asks' = [asks EXCEPT ![k].made = made, ![k].waiting = e.settled]
  /\ UNCHANGED jobs

\* a widget tick: cachedValue
CachedValue(k) ==
  /\ spent.polls < MaxPolls /\ spent' = [spent EXCEPT !.polls = @ + 1]
  /\ LET c == EntryIn(cache[Kind(k)], k)
         e == Last(c)
     IN  IF ~e.inflight /\ e.due THEN Fetch(k, c, e, asks[k].made)
         ELSE NoFetch(k, c, e, asks[k].made)
  /\ UNCHANGED <<slot, runner>>

\* a tap on a command widget, or "Run now": forceFetch
RefreshCommand(k) ==
  /\ k \in CommandKeys
  /\ spent.asks < MaxAsks /\ spent' = [spent EXCEPT !.asks = @ + 1]
  /\ LET c == EntryIn(cache["command"], k)
         e == [Last(c) EXCEPT !.settled = @ + 1]
     IN  IF e.inflight THEN NoFetch(k, c, [e EXCEPT !.followUp = TRUE], asks[k].made + 1)
         ELSE Fetch(k, c, e, asks[k].made + 1)
  /\ UNCHANGED <<slot, runner>>

\* a tap on a weather widget: a request under way is joined, a recent one suffices
RefreshWeather(k) ==
  /\ k \in WeatherKeys
  /\ spent.asks < MaxAsks /\ spent' = [spent EXCEPT !.asks = @ + 1]
  /\ LET c == EntryIn(cache["weather"], k)
         e == Last(c)
         waits == [e EXCEPT !.settled = @ + 1]
     IN  IF e.inflight THEN NoFetch(k, c, waits, asks[k].made)
         ELSE IF e.due THEN Fetch(k, c, waits, asks[k].made)
         ELSE NoFetch(k, c, e, asks[k].made)
  /\ UNCHANGED <<slot, runner>>

\* time passes: the entry was not read for its time to live, or may be fetched again
EntryAges(k) ==
  /\ \E i \in DOMAIN cache[Kind(k)], f \in {"stale", "due"} :
       /\ cache[Kind(k)][i].key = k /\ ~cache[Kind(k)][i][f]
       /\ cache' = [cache EXCEPT ![Kind(k)][i][f] = TRUE]
  /\ UNCHANGED <<slot, jobs, asks, runner, spent>>

\* finally of startFetch: one follow-up, else every waiting tap is told
EntryDone(k) ==
  LET c == cache[Kind(k)]
  IN  \E i \in DOMAIN c :
        /\ c[i].key = k
        /\ IF c[i].followUp THEN
             /\ cache' = [cache EXCEPT ![Kind(k)][i].followUp = FALSE]
             /\ jobs' = (jobs \ JobOf(k)) \cup {NewJob(k)}
             /\ asks' = [asks EXCEPT ![k].served = asks[k].made]
           ELSE
             /\ cache' = [cache EXCEPT ![Kind(k)][i].inflight = FALSE, ![Kind(k)][i].settled = 0]
             /\ jobs' = jobs \ JobOf(k)
             /\ asks' = [asks EXCEPT ![k].waiting = asks[k].waiting - c[i].settled]

-----------------------------------------------------------------------------
\* a run ends: output and exit, a failed request, or a cancelled shell given up on
JobEnds(j) ==
  /\ j \in jobs
  /\ IF j.owner \in Slots THEN SlotDone(j.owner) /\ UNCHANGED cache
     ELSE EntryDone(j.owner) /\ UNCHANGED slot
  /\ UNCHANGED <<runner, spent>>

\* shutdown: refuse new commands, cancel the running ones, wait for them
StopCommands ==
  /\ runner = "on"
  /\ runner' = "stopping"
  /\ jobs' = {IF j.owner \notin WeatherKeys /\ j.state = "running"
              THEN [j EXCEPT !.state = "dying"] ELSE j : j \in jobs}
  /\ UNCHANGED <<slot, cache, asks, spent>>

Shells == {j \in jobs : j.owner \notin WeatherKeys /\ j.state # "refused"}

CommandsStopped ==
  /\ runner = "stopping" /\ Shells = {}
  /\ runner' = "stopped"
  /\ UNCHANGED <<slot, cache, jobs, asks, spent>>

WorkNext ==
  \/ \E s \in Slots : Trigger(s)
  \/ StopSlots
  \/ \E k \in CacheKeys : CachedValue(k) \/ RefreshCommand(k) \/ RefreshWeather(k) \/ EntryAges(k)
  \/ \E j \in jobs : JobFails(j) \/ JobEnds(j)
  \/ StopCommands
  \/ CommandsStopped

\* every run ends: a command by its deadline, a request by its timeout
WorkFairness == \A o \in WorkOwners : WF_workVars(\E j \in JobOf(o) : JobEnds(j))

WorkSpec == WorkInit /\ [][WorkNext]_workVars /\ WorkFairness

-----------------------------------------------------------------------------
\* Presses and taps are not lost: an owner that is not running has been run since
\* the last request it took, no owner runs twice at once, and after stopCommands
\* resolved no shell is left and none starts.
RequestsAreServed ==
  /\ runner = "stopped" => Shells = {}
  /\ \A o \in WorkOwners : Cardinality(JobOf(o)) <= 1
  /\ \A o \in WorkOwners :
       (JobOf(o) = {} /\ ~(o \in Slots /\ slot.stopped)) => asks[o].served = asks[o].made

\* A tap that was told a refresh is under way hears of its end, whatever the
\* cache evicted meanwhile.
TapsHearBack == \A k \in CacheKeys : (asks[k].waiting > 0) ~> (asks[k].waiting = 0)
=============================================================================
