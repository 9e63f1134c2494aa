--------------------------- MODULE LifecycleProofs ---------------------------
(***************************************************************************)
(* Proofs about what outlives the process, and its end, in three parts:    *)
(* the settings file holds what the program believes it saved              *)
(* (SettingsShutdown), the Elgato app that a restart took down comes back  *)
(* (ElgatoRestart), and the process keeps its promises to the user and     *)
(* leaves nothing behind (AppProcess).  They hold for every set of device  *)
(* keys, owners, docks and states, and every number of changes, faults,    *)
(* background tasks, processes and days.                                   *)
(***************************************************************************)
EXTENDS SettingsShutdown, ElgatoRestart, AppProcess, TLAPS

-----------------------------------------------------------------------------
(* Settings.                                                               *)

Docs == [scalar : Nat, dev : [DeviceKeys -> Nat]]
Snaps == [doc : Docs, shared : BOOLEAN]
Writes == [step : {"mkdir", "rename"}, doc : Docs, shared : BOOLEAN]
AtMostOne(S) == {<<>>} \cup {<<x>> : x \in S}

Savers == [pending : AtMostOne(Snaps), links : Nat, write : AtMostOne(Writes), ok : BOOLEAN,
           closed : BOOLEAN, awaited : Nat, known : BOOLEAN]
Phases == {"up", "owners", "persist", "drain", "exited"}
Downs == [phase : Phases, open : SUBSET Owners, ok : BOOLEAN, code : {-1, 0, 1}, last : Docs]

SettingsTypeOK ==
  /\ mem \in [doc : Docs, runtime : Nat] /\ saver \in Savers
  /\ disk \in AtMostOne(Docs) /\ down \in Downs /\ edits \in [n : Nat, faults : Nat]

(* Every value was made by an earlier change, so that the next one is newer than all. *)
MadeBefore(d, n) == d.scalar <= n /\ \A k \in DeviceKeys : d.dev[k] <= n

ValuesMadeBefore ==
  /\ MadeBefore(mem.doc, edits.n)
  /\ saver.pending # <<>> => MadeBefore(saver.pending[1].doc, edits.n)
  /\ saver.write # <<>> => MadeBefore(saver.write[1].doc, edits.n)
  /\ disk # <<>> => MadeBefore(disk[1], edits.n)

(* A pending snapshot and a write under way each have a link of the chain to serve them. *)
LinksServe ==
  /\ saver.pending # <<>> => saver.links >= 1
  /\ saver.write # <<>> => saver.links >= 1
  /\ saver.pending # <<>> /\ saver.write # <<>> => saver.links >= 2

(* The newest snapshot, wherever it is on its way to the file, is what memory holds as long
   as the settings are open ... *)
NewestIsMemory ==
  ~saver.closed =>
    /\ saver.pending # <<>> => saver.pending[1].doc = mem.doc
    /\ saver.pending = <<>> /\ saver.write # <<>> => saver.write[1].doc = mem.doc
    /\ saver.pending = <<>> /\ saver.write = <<>> /\ saver.ok /\ saver.known =>
         Loaded(disk) = Loaded(<<mem.doc>>)

(* ... and no older than what memory held when they were closed, afterwards. *)
NewestIsNotOlder ==
  saver.closed =>
    /\ saver.pending # <<>> => NotOlder(down.last, saver.pending[1].doc)
    /\ saver.pending = <<>> /\ saver.write # <<>> => NotOlder(down.last, saver.write[1].doc)
    /\ saver.pending = <<>> /\ saver.write = <<>> /\ saver.ok /\ saver.known =>
         NotOlder(down.last, Loaded(disk))

(* The shutdown closes the settings, waits for the whole chain, and reports success only if
   the chain ran dry and its last write succeeded. *)
ShutdownAwaits ==
  /\ saver.closed <=> down.phase \in {"persist", "drain", "exited"}
  /\ saver.closed => saver.awaited = saver.links
  /\ down.phase \in {"drain", "exited"} /\ down.ok => saver.links = 0 /\ saver.ok
  /\ down.code = 0 => down.phase = "exited" /\ down.ok

(* The inductive invariant. *)
SettingsInv ==
  /\ SettingsTypeOK /\ ValuesMadeBefore /\ LinksServe
  /\ NewestIsMemory /\ NewestIsNotOlder /\ ShutdownAwaits
-----------------------------------------------------------------------------
(* Facts about documents, snapshots and the saver's record. *)

LEMMA OneOrNone ==
  ASSUME NEW S, NEW q \in AtMostOne(S), q # <<>>
  PROVE  q[1] \in S /\ q = <<q[1]>> /\ DOMAIN q = {1}
BY DEF AtMostOne

LEMMA OneIsAtMostOne ==
  ASSUME NEW S
  PROVE  <<>> \in AtMostOne(S) /\ \A x \in S : <<x>> \in AtMostOne(S)
BY DEF AtMostOne

(* An in-place change of an entry, seen through a snapshot: the same shape, with the entry
   as it was or, where the snapshot has it, newer. *)
LEMMA ReachesSnap ==
  ASSUME NEW S \in {Snaps, Writes}, NEW q \in AtMostOne(S), NEW k \in DeviceKeys, NEW v \in Nat
  PROVE  /\ Reaches(q, k, v) \in AtMostOne(S)
         /\ Reaches(q, k, v) = <<>> <=> q = <<>>
         /\ q # <<>> => \/ Reaches(q, k, v)[1].doc = q[1].doc
                       \/ Reaches(q, k, v)[1].doc = [q[1].doc EXCEPT !.dev[k] = v]
<1>1. CASE q = <<>>
  BY <1>1 DEF Reaches, AtMostOne
<1>2. CASE q # <<>>
  <2>1. q[1] \in S /\ DOMAIN q = {1}
    BY <1>2, OneOrNone
  <2> DEFINE x == IF q[1].shared /\ q[1].doc.dev[k] # 0
                  THEN [q[1] EXCEPT !.doc.dev[k] = v] ELSE q[1]
  <2>2. Reaches(q, k, v) = <<x>>
    BY <2>1 DEF Reaches
  <2>3. x \in S /\ (x.doc = q[1].doc \/ x.doc = [q[1].doc EXCEPT !.dev[k] = v])
    <3>1. CASE S = Snaps
      BY <2>1, <3>1 DEF Snaps, Docs
    <3>2. CASE S = Writes
      BY <2>1, <3>2 DEF Writes, Docs
    <3> QED BY <3>1, <3>2
  <2> HIDE DEF x
  <2> QED BY <1>2, <2>2, <2>3 DEF AtMostOne
<1> QED BY <1>1, <1>2

(* An import leaves a snapshot's document as it is. *)
LEMMA UnsharedSnap ==
  ASSUME NEW S \in {Snaps, Writes}, NEW q \in AtMostOne(S)
  PROVE  /\ Unshared(q) \in AtMostOne(S)
         /\ Unshared(q) = <<>> <=> q = <<>>
         /\ q # <<>> => Unshared(q)[1].doc = q[1].doc
<1>1. CASE q = <<>>
  BY <1>1 DEF Unshared, AtMostOne
<1>2. CASE q # <<>>
  <2>1. q[1] \in S /\ DOMAIN q = {1}
    BY <1>2, OneOrNone
  <2> DEFINE x == [q[1] EXCEPT !.shared = FALSE]
  <2>2. Unshared(q) = <<x>>
    <3>1. Unshared(q) = [i \in {1} |-> [q[i] EXCEPT !.shared = FALSE]]
      BY <2>1 DEF Unshared
    <3>2. Unshared(q)[1] = x
      BY <3>1
    <3> HIDE DEF x
    <3>3. DOMAIN Unshared(q) = {1} /\ Unshared(q) = [i \in {1} |-> x]
      BY <3>1, <3>2
    <3> QED BY <3>3
  <2>3. x \in S /\ x.doc = q[1].doc
    <3>1. CASE S = Snaps
      BY <2>1, <3>1 DEF Snaps
    <3>2. CASE S = Writes
      BY <2>1, <3>2 DEF Writes
    <3> QED BY <3>1, <3>2
  <2> HIDE DEF x
  <2> QED BY <1>2, <2>2, <2>3 DEF AtMostOne
<1> QED BY <1>1, <1>2

LEMMA QueuedSaver ==
  ASSUME NEW s \in Savers, NEW d \in Docs
  PROVE  /\ Queued(s, d) \in Savers
         /\ Queued(s, d).pending # <<>> /\ Queued(s, d).pending[1].doc = d
         /\ Queued(s, d).links = s.links + 1
         /\ Queued(s, d).write = s.write /\ Queued(s, d).ok = s.ok
         /\ Queued(s, d).closed = s.closed /\ Queued(s, d).awaited = s.awaited
         /\ Queued(s, d).known = s.known
<1> DEFINE p == <<[doc |-> d, shared |-> TRUE]>>
<1>1. p \in AtMostOne(Snaps)
  BY OneIsAtMostOne DEF Snaps
<1>2. p # <<>> /\ p[1].doc = d
  OBVIOUS
<1>3. Queued(s, d) = [s EXCEPT !.pending = p, !.links = @ + 1]
  BY DEF Queued
<1> HIDE DEF p
<1>4. s.links + 1 \in Nat
  BY DEF Savers
<1>5. [s EXCEPT !.pending = p, !.links = @ + 1] \in Savers
  BY <1>1, <1>4 DEF Savers
<1>6. /\ Queued(s, d).pending = p /\ Queued(s, d).links = s.links + 1
      /\ Queued(s, d).write = s.write /\ Queued(s, d).ok = s.ok
      /\ Queued(s, d).closed = s.closed /\ Queued(s, d).awaited = s.awaited
      /\ Queued(s, d).known = s.known
  BY <1>3 DEF Savers
<1> QED BY <1>2, <1>3, <1>5, <1>6

LEMMA LinkDoneSaver ==
  ASSUME NEW s \in Savers, s.links > 0
  PROVE  /\ LinkDone(s) \in Savers /\ LinkDone(s).write = <<>>
         /\ LinkDone(s).links = s.links - 1
         /\ s.awaited = s.links => LinkDone(s).awaited = s.awaited - 1
         /\ LinkDone(s).pending = s.pending /\ LinkDone(s).ok = s.ok
         /\ LinkDone(s).closed = s.closed /\ LinkDone(s).known = s.known
<1>1. <<>> \in AtMostOne(Writes) BY OneIsAtMostOne
<1>2. s.links - 1 \in Nat /\ (s.awaited > 0 => s.awaited - 1 \in Nat)
  BY DEF Savers
<1> QED BY <1>1, <1>2 DEF LinkDone, Savers

(* What a start loads from a file. *)
LEMMA LoadedDoc ==
  ASSUME NEW d \in AtMostOne(Docs)
  PROVE  /\ Loaded(d) \in Docs
         /\ Loaded(<<Loaded(d)>>) = Loaded(d)
         /\ \A n \in Nat : (d # <<>> => MadeBefore(d[1], n)) => MadeBefore(Loaded(d), n)
<1>1. d # <<>> => d[1] \in Docs BY OneOrNone
<1> QED BY <1>1 DEF Loaded, Doc, Defaults, Docs, MadeBefore

LEMMA NotOlderLoaded ==
  ASSUME NEW a \in Docs, NEW b \in Docs, NotOlder(a, b)
  PROVE  NotOlder(a, Loaded(<<b>>))
BY DEF NotOlder, Loaded, Doc, Docs, DeviceKeys
LEMMA NotOlderTransitive ==
  ASSUME NEW a \in Docs, NEW b \in Docs, NEW c \in Docs, NotOlder(a, b), NotOlder(b, c)
  PROVE  NotOlder(a, c)
BY DEF NotOlder, Docs, DeviceKeys

-----------------------------------------------------------------------------
(* A change of the settings: memory holds a new document, snapshots on their way are what
   they were or newer, and the new document is queued while the settings are open. *)
LEMMA ChangeKeeps ==
  ASSUME SettingsInv, Edit_, UNCHANGED <<disk, down>>,
         mem' \in [doc : Docs, runtime : Nat], MadeBefore(mem'.doc, NewValue),
         NEW s \in Savers, saver' = Persisted(s, mem'.doc),
         \A f \in {"links", "ok", "closed", "awaited", "known"} : s[f] = saver[f],
         s.pending = <<>> <=> saver.pending = <<>>, s.write = <<>> <=> saver.write = <<>>,
         s.pending # <<>> => /\ MadeBefore(s.pending[1].doc, NewValue)
                             /\ NotOlder(saver.pending[1].doc, s.pending[1].doc),
         s.write # <<>> => /\ MadeBefore(s.write[1].doc, NewValue)
                           /\ NotOlder(saver.write[1].doc, s.write[1].doc)
  PROVE  SettingsInv'
<1>1. /\ edits.n \in Nat /\ edits'.n = edits.n + 1 /\ NewValue = edits'.n
      /\ edits' \in [n : Nat, faults : Nat]
  BY DEF Edit_, NewValue, SettingsInv, SettingsTypeOK
<1>2. /\ s.links = saver.links /\ s.ok = saver.ok /\ s.closed = saver.closed
      /\ s.awaited = saver.awaited /\ s.known = saver.known
  OBVIOUS
<1>3. mem'.doc \in Docs /\ saver \in Savers /\ down.last \in Docs /\ disk \in AtMostOne(Docs)
  BY DEF SettingsInv, SettingsTypeOK, Downs
<1>4. /\ s.pending # <<>> => s.pending[1].doc \in Docs /\ saver.pending[1].doc \in Docs
      /\ s.write # <<>> => s.write[1].doc \in Docs /\ saver.write[1].doc \in Docs
  <2>1. \A q \in AtMostOne(Snaps) : q # <<>> => q[1].doc \in Docs
    BY OneOrNone DEF Snaps
  <2>2. \A q \in AtMostOne(Writes) : q # <<>> => q[1].doc \in Docs
    BY OneOrNone DEF Writes
  <2>3. /\ s.pending \in AtMostOne(Snaps) /\ saver.pending \in AtMostOne(Snaps)
        /\ s.write \in AtMostOne(Writes) /\ saver.write \in AtMostOne(Writes)
    BY <1>3 DEF Savers
  <2> QED BY <2>1, <2>2, <2>3
<1>5. disk # <<>> => MadeBefore(disk[1], edits'.n)
  <2>1. disk # <<>> => disk[1] \in Docs BY <1>3, OneOrNone
  <2> QED BY <1>1, <2>1 DEF SettingsInv, ValuesMadeBefore, MadeBefore, Docs
<1>6. CASE saver.closed
  <2>1. saver' = s BY <1>2, <1>6 DEF Persisted
  <2>2. SettingsTypeOK'
    BY <1>1, <2>1 DEF SettingsInv, SettingsTypeOK
  <2>3. ValuesMadeBefore'
    BY <1>1, <1>5, <2>1 DEF ValuesMadeBefore
  <2>4. LinksServe'
    BY <1>2, <2>1 DEF SettingsInv, LinksServe
  <2>5. NewestIsMemory'
    BY <1>2, <1>6, <2>1 DEF NewestIsMemory
  <2>6. NewestIsNotOlder'
    BY <1>2, <1>3, <1>4, <1>6, <2>1, NotOlderTransitive DEF SettingsInv, NewestIsNotOlder
  <2>7. ShutdownAwaits'
    BY <1>2, <2>1 DEF SettingsInv, ShutdownAwaits
  <2> QED BY <2>2, <2>3, <2>4, <2>5, <2>6, <2>7 DEF SettingsInv
<1>7. CASE ~saver.closed
  <2>1. /\ saver' \in Savers
        /\ saver'.pending # <<>> /\ saver'.pending[1].doc = mem'.doc
        /\ saver'.links = saver.links + 1
        /\ saver'.write = s.write /\ saver'.ok = saver.ok
        /\ saver'.closed = saver.closed /\ saver'.awaited = saver.awaited
        /\ saver'.known = saver.known
    <3>1. saver' = Queued(s, mem'.doc) BY <1>2, <1>7 DEF Persisted
    <3> QED BY <1>2, <1>3, <3>1, QueuedSaver
  <2>2. SettingsTypeOK'
    BY <1>1, <2>1 DEF SettingsInv, SettingsTypeOK
  <2>3. ValuesMadeBefore'
    BY <1>1, <1>5, <2>1 DEF ValuesMadeBefore
  <2>4. LinksServe'
    <3>1. saver.links \in Nat BY <1>3 DEF Savers
    <3> QED BY <2>1, <3>1 DEF SettingsInv, LinksServe
  <2>5. NewestIsMemory' /\ NewestIsNotOlder'
    BY <1>7, <2>1 DEF NewestIsMemory, NewestIsNotOlder
  <2>6. ShutdownAwaits'
    BY <1>7, <2>1 DEF SettingsInv, ShutdownAwaits
  <2> QED BY <2>2, <2>3, <2>4, <2>5, <2>6 DEF SettingsInv
<1> QED BY <1>6, <1>7

(* The snapshots of the invariant, as the lemmas about them need them. *)
LEMMA InvSnapshots ==
  ASSUME SettingsInv
  PROVE  /\ mem.doc \in Docs /\ mem.runtime \in Nat /\ edits.n \in Nat /\ NewValue = edits.n + 1
         /\ saver \in Savers /\ down.last \in Docs
         /\ saver.pending \in AtMostOne(Snaps) /\ saver.write \in AtMostOne(Writes)
         /\ saver.pending # <<>> => /\ saver.pending[1] \in Snaps /\ saver.pending[1].doc \in Docs
                                    /\ MadeBefore(saver.pending[1].doc, NewValue)
         /\ saver.write # <<>> => /\ saver.write[1] \in Writes /\ saver.write[1].doc \in Docs
                                  /\ MadeBefore(saver.write[1].doc, NewValue)
         /\ MadeBefore(mem.doc, NewValue)
         /\ \A d \in Docs : NotOlder(d, d)
<1>1. /\ mem.doc \in Docs /\ mem.runtime \in Nat /\ edits.n \in Nat /\ NewValue = edits.n + 1
      /\ saver \in Savers /\ down.last \in Docs
      /\ saver.pending \in AtMostOne(Snaps) /\ saver.write \in AtMostOne(Writes)
  BY DEF SettingsInv, SettingsTypeOK, Savers, Downs, NewValue
<1>2. saver.pending # <<>> => saver.pending[1] \in Snaps /\ saver.pending[1].doc \in Docs
  <2>1. saver.pending # <<>> => saver.pending[1] \in Snaps BY <1>1, OneOrNone
  <2> QED BY <2>1 DEF Snaps
<1>3. saver.write # <<>> => saver.write[1] \in Writes /\ saver.write[1].doc \in Docs
  <2>1. saver.write # <<>> => saver.write[1] \in Writes BY <1>1, OneOrNone
  <2> QED BY <2>1 DEF Writes
<1>4. \A d \in Docs : MadeBefore(d, edits.n) => MadeBefore(d, edits.n + 1)
  BY <1>1 DEF MadeBefore, Docs
<1>5. \A d \in Docs : NotOlder(d, d)
  BY DEF NotOlder, Docs, DeviceKeys
<1> QED BY <1>1, <1>2, <1>3, <1>4, <1>5 DEF SettingsInv, ValuesMadeBefore

(* An entry that takes the newest value. *)
LEMMA EntryChanged ==
  ASSUME NEW k \in DeviceKeys, NEW d \in Docs, NEW v \in Nat, MadeBefore(d, v)
  PROVE  /\ [d EXCEPT !.dev[k] = v] \in Docs
         /\ MadeBefore([d EXCEPT !.dev[k] = v], v)
         /\ NotOlder(d, [d EXCEPT !.dev[k] = v])
<1> DEFINE c == [d EXCEPT !.dev[k] = v]
<1>1. c \in Docs /\ c.scalar = d.scalar
      /\ \A j \in DeviceKeys : c.dev[j] = IF j = k THEN v ELSE d.dev[j]
  BY DEF Docs
<1> HIDE DEF c
<1>2. d.scalar \in Nat /\ \A j \in DeviceKeys : d.dev[j] \in Nat
  BY DEF Docs
<1>3. MadeBefore(c, v) /\ NotOlder(d, c)
  BY <1>1, <1>2 DEF MadeBefore, NotOlder, DeviceKeys
<1> QED BY <1>1, <1>3 DEF c

LEMMA MemoryEntryChanged ==
  ASSUME SettingsInv, NEW k \in DeviceKeys, mem' = [mem EXCEPT !.doc.dev[k] = NewValue]
  PROVE  mem' \in [doc : Docs, runtime : Nat] /\ MadeBefore(mem'.doc, NewValue)
<1> DEFINE c == [mem.doc EXCEPT !.dev[k] = NewValue]
<1>1. mem' = [doc |-> c, runtime |-> mem.runtime]
  BY DEF SettingsInv, SettingsTypeOK
<1>2. c \in Docs /\ MadeBefore(c, NewValue)
  <2>1. mem.doc \in Docs /\ NewValue \in Nat /\ MadeBefore(mem.doc, NewValue) BY InvSnapshots
  <2> QED BY <2>1, EntryChanged
<1>3. mem.runtime \in Nat BY InvSnapshots
<1> HIDE DEF c
<1>4. [doc |-> c, runtime |-> mem.runtime] \in [doc : Docs, runtime : Nat]
  BY <1>2, <1>3
<1>5. mem'.doc = c BY <1>1
<1> QED BY <1>1, <1>2, <1>4, <1>5

LEMMA SetScalarKeeps ==
  ASSUME SettingsInv, SetScalar
  PROVE  SettingsInv'
<1>1. mem' \in [doc : Docs, runtime : Nat] /\ MadeBefore(mem'.doc, NewValue)
  BY InvSnapshots, SMTT(30) DEF SetScalar, SettingsInv, SettingsTypeOK, Docs, MadeBefore
<1> QED BY <1>1, InvSnapshots, ChangeKeeps DEF SetScalar

LEMMA GetOrCreateIdentityKeeps ==
  ASSUME SettingsInv, NEW k \in DeviceKeys, GetOrCreateIdentity(k)
  PROVE  SettingsInv'
<1>1. mem' \in [doc : Docs, runtime : Nat] /\ MadeBefore(mem'.doc, NewValue)
  BY MemoryEntryChanged DEF GetOrCreateIdentity
<1> QED BY <1>1, InvSnapshots, ChangeKeeps DEF GetOrCreateIdentity
(* An entry changes in place, in memory and in the snapshots that share it. *)
LEMMA WriteEntryKeeps ==
  ASSUME SettingsInv, NEW k \in DeviceKeys, WriteEntry(k)
  PROVE  SettingsInv'
<1> DEFINE s == [saver EXCEPT !.pending = Reaches(@, k, NewValue),
                              !.write = Reaches(@, k, NewValue)]
<1>1. NewValue \in Nat BY InvSnapshots
<1>2. CASE mem.doc.dev[k] = 0
  <2>1. mem'.doc = mem.doc /\ mem' \in [doc : Docs, runtime : Nat] /\ UNCHANGED <<saver, disk, down>>
    BY <1>1, <1>2 DEF WriteEntry, SettingsInv, SettingsTypeOK
  <2>2. edits' \in [n : Nat, faults : Nat] /\ edits'.n = NewValue
    BY DEF WriteEntry, Edit_, NewValue, SettingsInv, SettingsTypeOK
  <2>3. disk # <<>> => MadeBefore(disk[1], edits'.n)
    <3>1. disk # <<>> => disk[1] \in Docs BY OneOrNone DEF SettingsInv, SettingsTypeOK
    <3> QED BY <2>2, <3>1, InvSnapshots DEF SettingsInv, ValuesMadeBefore, MadeBefore, Docs
  <2>4. SettingsTypeOK' /\ ValuesMadeBefore'
    BY <2>1, <2>2, <2>3, InvSnapshots DEF SettingsInv, SettingsTypeOK, ValuesMadeBefore
  <2> QED BY <2>1, <2>4
          DEF SettingsInv, LinksServe, NewestIsMemory, NewestIsNotOlder, ShutdownAwaits
<1>3. CASE mem.doc.dev[k] # 0
  <2>1. /\ Edit_ /\ mem' = [mem EXCEPT !.doc.dev[k] = NewValue] /\ UNCHANGED <<disk, down>>
        /\ saver' = Persisted(s, mem'.doc)
    BY <1>3 DEF WriteEntry
  <2>2. mem' \in [doc : Docs, runtime : Nat] /\ MadeBefore(mem'.doc, NewValue)
    BY <2>1, MemoryEntryChanged
  <2>3. /\ Reaches(saver.pending, k, NewValue) \in AtMostOne(Snaps)
        /\ Reaches(saver.write, k, NewValue) \in AtMostOne(Writes)
    BY <1>1, InvSnapshots, ReachesSnap
  <2>4. /\ s \in Savers /\ s.pending = Reaches(saver.pending, k, NewValue)
        /\ s.write = Reaches(saver.write, k, NewValue)
        /\ s.links = saver.links /\ s.ok = saver.ok /\ s.closed = saver.closed
        /\ s.awaited = saver.awaited /\ s.known = saver.known
    BY <2>3, InvSnapshots DEF Savers
  <2> HIDE DEF s
  <2>5. /\ s.pending = <<>> <=> saver.pending = <<>>
        /\ s.pending # <<>> => /\ MadeBefore(s.pending[1].doc, NewValue)
                               /\ NotOlder(saver.pending[1].doc, s.pending[1].doc)
    <3> DEFINE q == saver.pending
               c == Reaches(q, k, NewValue)
    <3>0. q \in AtMostOne(Snaps) BY InvSnapshots
    <3> HIDE DEF q
    <3>1. /\ c = <<>> <=> q = <<>>
          /\ q # <<>> => c[1].doc = q[1].doc \/ c[1].doc = [q[1].doc EXCEPT !.dev[k] = NewValue]
      BY <1>1, <3>0, ReachesSnap
    <3>2. saver.pending # <<>> => /\ saver.pending[1].doc \in Docs
                                /\ MadeBefore(saver.pending[1].doc, NewValue)
                                /\ NotOlder(saver.pending[1].doc, saver.pending[1].doc)
      BY InvSnapshots
    <3>3. q # <<>> => /\ MadeBefore([q[1].doc EXCEPT !.dev[k] = NewValue], NewValue)
                      /\ NotOlder(q[1].doc, [q[1].doc EXCEPT !.dev[k] = NewValue])
      BY <1>1, <3>2, EntryChanged DEF q
    <3>4. s.pending = c BY <2>4 DEF q
    <3> QED BY <3>1, <3>2, <3>3, <3>4 DEF q
  <2>6. /\ s.write = <<>> <=> saver.write = <<>>
        /\ s.write # <<>> => /\ MadeBefore(s.write[1].doc, NewValue)
                             /\ NotOlder(saver.write[1].doc, s.write[1].doc)
    <3> DEFINE q == saver.write
               c == Reaches(q, k, NewValue)
    <3>0. q \in AtMostOne(Writes) BY InvSnapshots
    <3> HIDE DEF q
    <3>1. /\ c = <<>> <=> q = <<>>
          /\ q # <<>> => c[1].doc = q[1].doc \/ c[1].doc = [q[1].doc EXCEPT !.dev[k] = NewValue]
      BY <1>1, <3>0, ReachesSnap
    <3>2. saver.write # <<>> => /\ saver.write[1].doc \in Docs
                                /\ MadeBefore(saver.write[1].doc, NewValue)
                                /\ NotOlder(saver.write[1].doc, saver.write[1].doc)
      BY InvSnapshots
    <3>3. q # <<>> => /\ MadeBefore([q[1].doc EXCEPT !.dev[k] = NewValue], NewValue)
                      /\ NotOlder(q[1].doc, [q[1].doc EXCEPT !.dev[k] = NewValue])
      BY <1>1, <3>2, EntryChanged DEF q
    <3>4. s.write = c BY <2>4 DEF q
    <3> QED BY <3>1, <3>2, <3>3, <3>4 DEF q
  <2> QED BY <2>1, <2>2, <2>4, <2>5, <2>6, ChangeKeeps
<1> QED BY <1>2, <1>3

(* An import replaces the entries; snapshots under way keep the old ones. *)
LEMMA ImportDevicesKeeps ==
  ASSUME SettingsInv, NEW ks \in SUBSET StableKeys, ImportDevices(ks)
  PROVE  SettingsInv'
<1> DEFINE s == [saver EXCEPT !.pending = Unshared(@), !.write = Unshared(@)]
<1>1. NewValue \in Nat BY InvSnapshots
<1>2. Edit_ /\ UNCHANGED <<disk, down>> /\ saver' = Persisted(s, mem'.doc)
  BY DEF ImportDevices
<1>3. mem' \in [doc : Docs, runtime : Nat] /\ MadeBefore(mem'.doc, NewValue)
  <2> DEFINE entries == [k \in DeviceKeys |-> IF k \in ks THEN NewValue ELSE 0]
  <2>1. entries \in [DeviceKeys -> Nat] /\ \A k \in DeviceKeys : entries[k] <= NewValue
    BY <1>1
  <2>2. mem.doc.scalar \in Nat /\ mem.doc.scalar <= NewValue /\ mem.runtime \in Nat
    BY InvSnapshots DEF Docs, MadeBefore
  <2>3. mem' = [mem EXCEPT !.doc.dev = entries]
    BY DEF ImportDevices
  <2> HIDE DEF entries
  <2>4. mem' = [doc |-> [scalar |-> mem.doc.scalar, dev |-> entries], runtime |-> mem.runtime]
    BY <2>3 DEF SettingsInv, SettingsTypeOK, Docs
  <2> QED BY <2>1, <2>2, <2>4 DEF Docs, MadeBefore
<1>4. Unshared(saver.pending) \in AtMostOne(Snaps) /\ Unshared(saver.write) \in AtMostOne(Writes)
  BY InvSnapshots, UnsharedSnap
<1>5. /\ s \in Savers /\ s.pending = Unshared(saver.pending) /\ s.write = Unshared(saver.write)
      /\ s.links = saver.links /\ s.ok = saver.ok /\ s.closed = saver.closed
      /\ s.awaited = saver.awaited /\ s.known = saver.known
  BY <1>4, InvSnapshots DEF Savers
<1> HIDE DEF s
<1>6. /\ s.pending = <<>> <=> saver.pending = <<>>
      /\ s.pending # <<>> => /\ MadeBefore(s.pending[1].doc, NewValue)
                             /\ NotOlder(saver.pending[1].doc, s.pending[1].doc)
  BY <1>5, InvSnapshots, UnsharedSnap
<1>7. /\ s.write = <<>> <=> saver.write = <<>>
      /\ s.write # <<>> => /\ MadeBefore(s.write[1].doc, NewValue)
                           /\ NotOlder(saver.write[1].doc, s.write[1].doc)
  BY <1>5, InvSnapshots, UnsharedSnap
<1> QED BY <1>2, <1>3, <1>5, <1>6, <1>7, ChangeKeeps
(* openFile queues memory as it is; it is refused once the shutdown has begun. *)
LEMMA OpenFileKeeps ==
  ASSUME SettingsInv, OpenFile
  PROVE  SettingsInv'
<1>1. saver' = Persisted(saver, mem'.doc) /\ mem' = mem /\ Edit_ /\ UNCHANGED <<disk, down>>
  BY DEF OpenFile, Persisted, SettingsInv, ShutdownAwaits
<1>2. mem' \in [doc : Docs, runtime : Nat] BY <1>1 DEF SettingsInv, SettingsTypeOK
<1> QED BY <1>1, <1>2, InvSnapshots, ChangeKeeps

-----------------------------------------------------------------------------
(* The save chain: the newest snapshot moves on, and only the last link leaves it in the
   file. *)
LEMMA WritePendingKeeps ==
  ASSUME SettingsInv, WritePending
  PROVE  SettingsInv'
<1>1. saver.links > 0 /\ saver.write = <<>> /\ UNCHANGED <<mem, disk, down, edits>>
  BY DEF WritePending
<1>2. CASE saver.pending = <<>>
  <2>1. saver' = LinkDone(saver) BY <1>2 DEF WritePending
  <2>2. /\ saver' \in Savers /\ saver'.write = <<>> /\ saver'.links = saver.links - 1
        /\ saver.awaited = saver.links => saver'.awaited = saver.awaited - 1
        /\ saver'.pending = saver.pending /\ saver'.ok = saver.ok
        /\ saver'.closed = saver.closed /\ saver'.known = saver.known
    BY <1>1, <2>1, InvSnapshots, LinkDoneSaver
  <2>3. SettingsTypeOK'
    BY <1>1, <2>2 DEF SettingsInv, SettingsTypeOK
  <2>4. ValuesMadeBefore' /\ LinksServe' /\ NewestIsMemory' /\ NewestIsNotOlder'
    BY <1>1, <1>2, <2>2
       DEF SettingsInv, ValuesMadeBefore, LinksServe, NewestIsMemory, NewestIsNotOlder
  <2>5. ShutdownAwaits'
    BY <1>1, <2>2 DEF SettingsInv, ShutdownAwaits
  <2> QED BY <2>3, <2>4, <2>5 DEF SettingsInv
<1>3. CASE saver.pending # <<>>
  <2> DEFINE w == <<[step |-> "mkdir", doc |-> saver.pending[1].doc,
                     shared |-> saver.pending[1].shared]>>
  <2>1. w \in AtMostOne(Writes) /\ w # <<>> /\ w[1].doc = saver.pending[1].doc
    <3>1. [step |-> "mkdir", doc |-> saver.pending[1].doc,
           shared |-> saver.pending[1].shared] \in Writes
      BY <1>3, InvSnapshots DEF Snaps, Writes
    <3> QED BY <3>1, OneIsAtMostOne
  <2>2. saver' = [saver EXCEPT !.pending = <<>>, !.write = w]
    BY <1>3 DEF WritePending
  <2> HIDE DEF w
  <2>3. /\ saver' \in Savers /\ saver'.pending = <<>> /\ saver'.write = w
        /\ saver'.links = saver.links /\ saver'.awaited = saver.awaited /\ saver'.ok = saver.ok
        /\ saver'.closed = saver.closed /\ saver'.known = saver.known
    BY <2>1, <2>2, OneIsAtMostOne DEF SettingsInv, SettingsTypeOK, Savers
  <2>4. SettingsTypeOK'
    BY <1>1, <2>3 DEF SettingsInv, SettingsTypeOK
  <2>5. ValuesMadeBefore' /\ LinksServe' /\ NewestIsMemory' /\ NewestIsNotOlder'
    BY <1>1, <1>3, <2>1, <2>3
       DEF SettingsInv, ValuesMadeBefore, LinksServe, NewestIsMemory, NewestIsNotOlder
  <2>6. ShutdownAwaits'
    BY <1>1, <2>3 DEF SettingsInv, ShutdownAwaits
  <2> QED BY <2>4, <2>5, <2>6 DEF SettingsInv
<1> QED BY <1>2, <1>3

LEMMA StringifyKeeps ==
  ASSUME SettingsInv, Stringify
  PROVE  SettingsInv'
<1>1. saver.write # <<>> /\ UNCHANGED <<mem, disk, down, edits>>
      /\ saver' = [saver EXCEPT !.write[1].step = "rename", !.write[1].shared = FALSE]
  BY DEF Stringify
<1> DEFINE x == saver.write[1]
           w == <<[x EXCEPT !.step = "rename", !.shared = FALSE]>>
<1>2. x \in Writes /\ saver.write = <<x>>
  BY <1>1, InvSnapshots, OneOrNone
<1>3. saver' = [saver EXCEPT !.write = w]
  <2> HIDE DEF x
  <2>1. [saver.write EXCEPT ![1].step = "rename", ![1].shared = FALSE] = w
    BY <1>2
  <2> HIDE DEF w
  <2> QED BY <1>1, <2>1 DEF SettingsInv, SettingsTypeOK, Savers
<1>4. w \in AtMostOne(Writes) /\ w # <<>> /\ w[1].doc = saver.write[1].doc
  <2> HIDE DEF x
  <2>1. /\ [x EXCEPT !.step = "rename", !.shared = FALSE] \in Writes
        /\ [x EXCEPT !.step = "rename", !.shared = FALSE].doc = x.doc
    BY <1>2 DEF Writes
  <2> QED BY <2>1, OneIsAtMostOne DEF x
<1> HIDE DEF w, x
<1>5. /\ saver' \in Savers /\ saver'.pending = saver.pending /\ saver'.write = w
      /\ saver'.links = saver.links /\ saver'.awaited = saver.awaited /\ saver'.ok = saver.ok
      /\ saver'.closed = saver.closed /\ saver'.known = saver.known
  BY <1>3, <1>4 DEF SettingsInv, SettingsTypeOK, Savers
<1>6. SettingsTypeOK'
  BY <1>1, <1>5 DEF SettingsInv, SettingsTypeOK
<1>7. ValuesMadeBefore' /\ LinksServe' /\ NewestIsMemory' /\ NewestIsNotOlder'
  BY <1>1, <1>5, <1>4
     DEF SettingsInv, ValuesMadeBefore, LinksServe, NewestIsMemory, NewestIsNotOlder
<1>8. ShutdownAwaits'
  BY <1>1, <1>5 DEF SettingsInv, ShutdownAwaits
<1> QED BY <1>6, <1>7, <1>8 DEF SettingsInv

LEMMA RenameKeeps ==
  ASSUME SettingsInv, Rename
  PROVE  SettingsInv'
<1> DEFINE d == saver.write[1].doc
<1>1. /\ saver.write # <<>> /\ disk' = <<d>> /\ UNCHANGED <<mem, down, edits>>
      /\ saver' = [LinkDone(saver) EXCEPT !.ok = TRUE, !.known = TRUE]
  BY DEF Rename
<1>2. d \in Docs /\ saver.links \in Nat /\ saver.links > 0 /\ down.last \in Docs
      /\ MadeBefore(d, edits.n)
  <2>1. saver.links \in Nat BY DEF SettingsInv, SettingsTypeOK, Savers
  <2> QED BY <1>1, <2>1, InvSnapshots DEF SettingsInv, LinksServe, ValuesMadeBefore
<1>3. /\ saver' \in Savers /\ saver'.write = <<>> /\ saver'.links = saver.links - 1
      /\ saver.awaited = saver.links => saver'.awaited = saver.awaited - 1
      /\ saver'.pending = saver.pending /\ saver'.closed = saver.closed
      /\ saver'.ok = TRUE /\ saver'.known = TRUE
  <2>1. /\ LinkDone(saver) \in Savers /\ LinkDone(saver).write = <<>>
        /\ LinkDone(saver).links = saver.links - 1
        /\ saver.awaited = saver.links => LinkDone(saver).awaited = saver.awaited - 1
        /\ LinkDone(saver).pending = saver.pending /\ LinkDone(saver).closed = saver.closed
    BY <1>2, InvSnapshots, LinkDoneSaver
  <2> QED BY <1>1, <2>1 DEF Savers
<1> HIDE DEF d
<1>4. SettingsTypeOK'
  BY <1>1, <1>2, <1>3, OneIsAtMostOne DEF SettingsInv, SettingsTypeOK
<1>5. ValuesMadeBefore' /\ LinksServe'
  BY <1>1, <1>2, <1>3 DEF SettingsInv, ValuesMadeBefore, LinksServe
<1>6. NewestIsMemory'
  BY <1>1, <1>3 DEF SettingsInv, NewestIsMemory, d
<1>7. NewestIsNotOlder'
  <2>1. NotOlder(down.last, d) => NotOlder(down.last, Loaded(<<d>>))
    BY <1>2, NotOlderLoaded
  <2>2. saver.closed /\ saver.pending = <<>> => NotOlder(down.last, d)
    BY <1>1 DEF SettingsInv, NewestIsNotOlder, d
  <2> QED BY <1>1, <1>3, <2>1, <2>2 DEF SettingsInv, NewestIsNotOlder
<1>8. ShutdownAwaits'
  BY <1>1, <1>2, <1>3 DEF SettingsInv, ShutdownAwaits
<1> QED BY <1>4, <1>5, <1>6, <1>7, <1>8 DEF SettingsInv

LEMMA SaveFailsKeeps ==
  ASSUME SettingsInv, SaveFails
  PROVE  SettingsInv'
<1>1. /\ saver.write # <<>> /\ UNCHANGED <<mem, disk, down>>
      /\ saver' = [LinkDone(saver) EXCEPT !.ok = FALSE]
      /\ edits' \in [n : Nat, faults : Nat] /\ edits'.n = edits.n
  BY DEF SaveFails, Fault, SettingsInv, SettingsTypeOK
<1>2. saver.links \in Nat /\ saver.links > 0
  <2>1. saver.links \in Nat BY DEF SettingsInv, SettingsTypeOK, Savers
  <2> QED BY <1>1, <2>1 DEF SettingsInv, LinksServe
<1>3. /\ saver' \in Savers /\ saver'.write = <<>> /\ saver'.links = saver.links - 1
      /\ saver.awaited = saver.links => saver'.awaited = saver.awaited - 1
      /\ saver'.pending = saver.pending /\ saver'.closed = saver.closed /\ saver'.ok = FALSE
  <2>1. /\ LinkDone(saver) \in Savers /\ LinkDone(saver).write = <<>>
        /\ LinkDone(saver).links = saver.links - 1
        /\ saver.awaited = saver.links => LinkDone(saver).awaited = saver.awaited - 1
        /\ LinkDone(saver).pending = saver.pending /\ LinkDone(saver).closed = saver.closed
    BY <1>2, InvSnapshots, LinkDoneSaver
  <2> QED BY <1>1, <2>1 DEF Savers
<1>4. SettingsTypeOK'
  BY <1>1, <1>3 DEF SettingsInv, SettingsTypeOK
<1>5. ValuesMadeBefore' /\ LinksServe' /\ NewestIsMemory' /\ NewestIsNotOlder'
  BY <1>1, <1>2, <1>3
     DEF SettingsInv, ValuesMadeBefore, LinksServe, NewestIsMemory, NewestIsNotOlder
<1>6. ShutdownAwaits'
  BY <1>1, <1>2, <1>3 DEF SettingsInv, ShutdownAwaits
<1> QED BY <1>4, <1>5, <1>6 DEF SettingsInv
-----------------------------------------------------------------------------
(* The shutdown: its steps before the settings are closed leave them alone. *)
LEMMA OwnersStageKeeps ==
  ASSUME SettingsInv,
         Shutdown_ \/ \E o \in Owners : OwnerCloses(o) \/ OwnerFails(o)
  PROVE  SettingsInv'
<1>1. /\ UNCHANGED <<mem, saver, disk>> /\ edits'.n = edits.n
      /\ edits' \in [n : Nat, faults : Nat]
  <2>1. edits \in [n : Nat, faults : Nat] /\ edits.faults + 1 \in Nat
    BY DEF SettingsInv, SettingsTypeOK
  <2>2. UNCHANGED edits \/ edits' = [edits EXCEPT !.faults = @ + 1]
    BY DEF Shutdown_, OwnerCloses, OwnerFails, Fault
  <2>3. UNCHANGED <<mem, saver, disk>>
    BY DEF Shutdown_, OwnerCloses, OwnerFails
  <2> QED BY <2>1, <2>2, <2>3
<1>2. /\ down.phase \in {"up", "owners"} /\ down'.phase = "owners"
      /\ down'.code = down.code /\ down'.last = down.last /\ down' \in Downs
  <2>1. down \in Downs BY DEF SettingsInv, SettingsTypeOK
  <2>2. CASE Shutdown_
    BY <2>1, <2>2 DEF Shutdown_, Downs, Phases
  <2>3. ASSUME NEW o \in Owners, OwnerCloses(o) \/ OwnerFails(o)
        PROVE  /\ down.phase \in {"up", "owners"} /\ down'.phase = "owners"
               /\ down'.code = down.code /\ down'.last = down.last /\ down' \in Downs
    <3>1. down.open \ {o} \in SUBSET Owners BY <2>1 DEF Downs
    <3>2. CASE OwnerCloses(o)
      BY <2>1, <3>1, <3>2 DEF OwnerCloses, Downs, Phases
    <3>3. CASE OwnerFails(o)
      BY <2>1, <3>1, <3>3 DEF OwnerFails, Downs, Phases
    <3> QED BY <2>3, <3>2, <3>3
  <2> QED BY <2>2, <2>3
<1>3. SettingsTypeOK' /\ ValuesMadeBefore' /\ LinksServe'
  BY <1>1, <1>2 DEF SettingsInv, SettingsTypeOK, ValuesMadeBefore, LinksServe
<1>4. NewestIsMemory' /\ NewestIsNotOlder' /\ ShutdownAwaits'
  BY <1>1, <1>2 DEF SettingsInv, NewestIsMemory, NewestIsNotOlder, ShutdownAwaits
<1> QED BY <1>3, <1>4 DEF SettingsInv

(* Closing the settings remembers memory as `last': it is what the newest snapshot holds. *)
LEMMA ClosingKeeps ==
  ASSUME SettingsInv, NEW ok \in BOOLEAN, down.phase = "owners", Closing(ok)
  PROVE  SettingsInv'
<1>1. /\ UNCHANGED <<mem, disk, edits>> /\ ~saver.closed /\ mem.doc \in Docs
      /\ down'.phase = "persist" /\ down'.code = down.code /\ down'.last = mem.doc
      /\ down' \in Downs
  BY InvSnapshots DEF Closing, SettingsInv, SettingsTypeOK, ShutdownAwaits, Downs, Phases
<1>2. /\ saver' \in Savers /\ saver'.closed /\ saver'.awaited = saver.links
      /\ saver'.links = saver.links /\ saver'.pending = saver.pending
      /\ saver'.write = saver.write /\ saver'.ok = saver.ok /\ saver'.known = saver.known
  BY DEF Closing, SettingsInv, SettingsTypeOK, Savers
<1>3. SettingsTypeOK' /\ ValuesMadeBefore' /\ LinksServe' /\ NewestIsMemory'
  BY <1>1, <1>2
     DEF SettingsInv, SettingsTypeOK, ValuesMadeBefore, LinksServe, NewestIsMemory
<1>4. NewestIsNotOlder'
  <2>1. NotOlder(mem.doc, mem.doc) /\ NotOlder(mem.doc, Loaded(<<mem.doc>>))
    BY <1>1, InvSnapshots, NotOlderLoaded
  <2> QED BY <1>1, <1>2, <2>1 DEF SettingsInv, NewestIsMemory, NewestIsNotOlder
<1>5. ShutdownAwaits'
  BY <1>1, <1>2 DEF SettingsInv, ShutdownAwaits
<1> QED BY <1>3, <1>4, <1>5 DEF SettingsInv

(* After that only the outcome is recorded. *)
LEMMA EndStageKeeps ==
  ASSUME SettingsInv,
         SettingsClosed \/ PersistTimeout \/ \E drained \in BOOLEAN : Exit(drained)
  PROVE  SettingsInv'
<1>1. UNCHANGED <<mem, saver, disk, edits>> /\ saver.closed /\ down' \in Downs
      /\ down'.last = down.last /\ down'.phase \in {"drain", "exited"}
  BY DEF SettingsClosed, PersistTimeout, Exit, SettingsInv, SettingsTypeOK, ShutdownAwaits,
         Downs, Phases
<1>2. SettingsTypeOK' /\ ValuesMadeBefore' /\ LinksServe'
  BY <1>1 DEF SettingsInv, SettingsTypeOK, ValuesMadeBefore, LinksServe
<1>3. NewestIsMemory' /\ NewestIsNotOlder'
  BY <1>1 DEF SettingsInv, NewestIsMemory, NewestIsNotOlder
<1>4. ShutdownAwaits'
  <2> USE <1>1 DEF SettingsInv, SettingsTypeOK, ShutdownAwaits, Downs
  <2>1. CASE SettingsClosed
    BY <2>1 DEF SettingsClosed
  <2>2. CASE PersistTimeout
    BY <2>2 DEF PersistTimeout
  <2>3. ASSUME NEW drained \in BOOLEAN, Exit(drained)
        PROVE  ShutdownAwaits'
    <3>1. /\ down.phase = "drain" /\ down'.phase = "exited" /\ down'.ok = down.ok
          /\ down'.code = IF down.ok /\ drained THEN 0 ELSE 1
      BY <2>3 DEF Exit
    <3>2. down'.code = 0 => down.ok
      BY <3>1
    <3> QED BY <3>1, <3>2
  <2> QED BY <2>1, <2>2, <2>3
<1> QED BY <1>2, <1>3, <1>4 DEF SettingsInv

(* A start reads the file, or takes the defaults and does not know what the file holds. *)
LEMMA StartsInv ==
  ASSUME NEW d \in Docs, mem' = [doc |-> d, runtime |-> 0], NEW known \in BOOLEAN,
         saver' = [IdleSaver EXCEPT !.known = known], down' = Running,
         disk' \in AtMostOne(Docs), edits' \in [n : Nat, faults : Nat],
         MadeBefore(d, edits'.n), disk' # <<>> => MadeBefore(disk'[1], edits'.n),
         known => Loaded(disk') = Loaded(<<d>>)
  PROVE  SettingsInv'
<1>1. /\ saver' \in Savers /\ saver'.pending = <<>> /\ saver'.write = <<>> /\ saver'.links = 0
      /\ ~saver'.closed /\ saver'.known = known
  BY OneIsAtMostOne DEF IdleSaver, Savers
<1>2. down' \in Downs /\ down'.phase = "up" /\ down'.code = -1
  BY DEF Running, Downs, Phases, Defaults, Doc, Docs
<1>3. SettingsTypeOK' /\ ValuesMadeBefore'
  BY <1>1, <1>2 DEF SettingsTypeOK, ValuesMadeBefore
<1>4. LinksServe' /\ NewestIsMemory' /\ NewestIsNotOlder' /\ ShutdownAwaits'
  BY <1>1, <1>2 DEF LinksServe, NewestIsMemory, NewestIsNotOlder, ShutdownAwaits
<1> QED BY <1>3, <1>4 DEF SettingsInv

LEMMA RestartKeeps ==
  ASSUME SettingsInv, NEW readable \in BOOLEAN, Restart(readable)
  PROVE  SettingsInv'
<1> DEFINE d == IF readable THEN Loaded(disk) ELSE Defaults
<1>1. /\ disk \in AtMostOne(Docs) /\ disk' = disk /\ edits'.n = edits.n /\ edits.n \in Nat
      /\ edits' \in [n : Nat, faults : Nat]
  BY DEF Restart, Fault, SettingsInv, SettingsTypeOK
<1>2. disk # <<>> => MadeBefore(disk[1], edits.n)
  BY DEF SettingsInv, ValuesMadeBefore
<1>3. Defaults \in Docs /\ MadeBefore(Defaults, edits.n)
  BY <1>1 DEF Defaults, Doc, Docs, MadeBefore
<1>4. d \in Docs /\ MadeBefore(d, edits.n) /\ (readable => Loaded(<<d>>) = Loaded(disk))
  BY <1>1, <1>2, <1>3, LoadedDoc
<1>5. /\ mem' = [doc |-> d, runtime |-> 0] /\ down' = Running
      /\ saver' = [IdleSaver EXCEPT !.known = readable]
  BY DEF Restart
<1> HIDE DEF d
<1> QED BY <1>1, <1>2, <1>4, <1>5, StartsInv

-----------------------------------------------------------------------------
LEMMA SettingsInvInit ==
  ASSUME SettingsInit
  PROVE  SettingsInv
<1>1. Defaults \in Docs /\ MadeBefore(Defaults, 0) /\ Loaded(<<>>) = Loaded(<<Defaults>>)
  BY DEF Defaults, Doc, Docs, MadeBefore, Loaded
<1>2. /\ saver \in Savers /\ saver.pending = <<>> /\ saver.write = <<>> /\ saver.links = 0
      /\ ~saver.closed
  BY OneIsAtMostOne DEF SettingsInit, IdleSaver, Savers
<1>3. down \in Downs /\ down.phase = "up" /\ down.code = -1
  BY <1>1 DEF SettingsInit, Running, Downs, Phases
<1>4. SettingsTypeOK /\ ValuesMadeBefore
  BY <1>1, <1>2, <1>3, OneIsAtMostOne DEF SettingsInit, SettingsTypeOK, ValuesMadeBefore
<1>5. LinksServe /\ NewestIsMemory /\ NewestIsNotOlder /\ ShutdownAwaits
  BY <1>1, <1>2, <1>3
     DEF SettingsInit, LinksServe, NewestIsMemory, NewestIsNotOlder, ShutdownAwaits
<1> QED BY <1>4, <1>5 DEF SettingsInv

LEMMA SettingsInvStep ==
  ASSUME SettingsInv, [SettingsNext]_settingsVars
  PROVE  SettingsInv'
<1>1. ASSUME NEW k \in DeviceKeys, GetOrCreateIdentity(k) \/ WriteEntry(k)
      PROVE  SettingsInv'
  BY <1>1, GetOrCreateIdentityKeeps, WriteEntryKeeps
<1>2. ASSUME NEW ks \in SUBSET StableKeys, ImportDevices(ks)
      PROVE  SettingsInv'
  BY <1>2, ImportDevicesKeeps
<1>3. CASE SetScalar \/ OpenFile \/ WritePending \/ Stringify \/ Rename \/ SaveFails
  BY <1>3, SetScalarKeeps, OpenFileKeeps, WritePendingKeeps, StringifyKeeps, RenameKeeps,
     SaveFailsKeeps
<1>4. CASE Shutdown_ \/ \E o \in Owners : OwnerCloses(o) \/ OwnerFails(o)
  BY <1>4, OwnersStageKeeps
<1>5. CASE OwnersClosed \/ BudgetSpent
  BY <1>5, ClosingKeeps DEF OwnersClosed, BudgetSpent
<1>6. CASE SettingsClosed \/ PersistTimeout \/ \E drained \in BOOLEAN : Exit(drained)
  BY <1>6, EndStageKeeps
<1>7. ASSUME NEW readable \in BOOLEAN, Restart(readable)
      PROVE  SettingsInv'
  BY <1>7, RestartKeeps
<1>8. CASE UNCHANGED settingsVars
  BY <1>8 DEF SettingsInv, settingsVars, SettingsTypeOK, ValuesMadeBefore, LinksServe,
              NewestIsMemory, NewestIsNotOlder, ShutdownAwaits
<1> QED BY <1>1, <1>2, <1>3, <1>4, <1>5, <1>6, <1>7, <1>8 DEF SettingsNext

LEMMA SettingsInvCurrent ==
  ASSUME SettingsInv
  PROVE  FileIsCurrent
<1>1. saver.links \in Nat BY DEF SettingsInv, SettingsTypeOK, Savers
<1>2. SavedIsCurrent
  BY <1>1 DEF SettingsInv, SavedIsCurrent, ChainIdle, LinksServe, NewestIsMemory
<1>3. CleanExitIsSaved
  BY <1>1 DEF SettingsInv, CleanExitIsSaved, LinksServe, NewestIsNotOlder, ShutdownAwaits
<1> QED BY <1>2, <1>3 DEF FileIsCurrent

(* Whatever bursts of changes, imports, failed writes, crashes, unreadable files and hanging
   owners a behaviour has: once the save chain has run dry after a successful write, the file
   holds what memory holds (PersistedSettings.queueSave and writePending), and a process that
   exits with code 0 has every change in the file that was made before its settings were
   closed (Shutdown, PersistedSettings.close). *)
THEOREM FileStaysCurrent == SettingsSpec => []FileIsCurrent
<1>1. SettingsInit => SettingsInv BY SettingsInvInit
<1>2. SettingsInv /\ [SettingsNext]_settingsVars => SettingsInv' BY SettingsInvStep
<1>3. SettingsInv => FileIsCurrent BY SettingsInvCurrent
<1> QED BY <1>1, <1>2, <1>3, PTL DEF SettingsSpec

-----------------------------------------------------------------------------
(* The Elgato app.                                                         *)

(* An app that was told to quit, or that a restart took down, is waited for or given up. *)
ControlTyped ==
    /\ control \in [phase : {"idle", "asked", "quitting", "killing", "cooling", "launching"},
                    cancelled : BOOLEAN, manual : {"no", "asked", "waiting", "launching"},
                    gaveUp : BOOLEAN]
    /\ elgato = [up |-> elgato.up, told |-> elgato.told, byUs |-> elgato.byUs,
                 events |-> elgato.events]
    /\ elgato.up \in BOOLEAN /\ elgato.told \in BOOLEAN /\ elgato.byUs \in BOOLEAN

RestartInv ==
    /\ ControlTyped
    /\ elgato.told => elgato.up
    /\ elgato.byUs => ~elgato.up
    /\ control.phase \in {"idle", "asked"} /\ (elgato.told \/ elgato.byUs) =>
         control.cancelled \/ control.gaveUp
    /\ control.phase \in {"cooling", "launching"} /\ elgato.told =>
         control.cancelled \/ control.gaveUp

LEMMA RestartKept ==
    ASSUME RestartInv, [RestartNext]_restartVars
    PROVE  RestartInv'
<1> USE DEF RestartInv, ControlTyped
<1>1. CASE UNCHANGED <<control, elgato>>
  BY <1>1
<1>2. CASE \E e \in auto.ends : GraceChecked(e)
  BY <1>2 DEF GraceChecked, SharedRestart
<1>3. CASE DisposeRestart
  BY <1>3 DEF DisposeRestart
<1>4. CASE RestartAsked
  <2>1. CASE /\ elgato.up /\ control' = [control EXCEPT !.phase = "quitting", !.gaveUp = FALSE]
             /\ elgato' = [elgato EXCEPT !.told = TRUE]
    BY <2>1
  <2>2. CASE Restarted(FALSE) /\ elgato' = elgato /\ control.phase = "asked"
    BY <2>2 DEF Restarted
  <2> QED BY <1>4, <2>1, <2>2 DEF RestartAsked, Answers
<1>5. CASE SeenDead
  BY <1>5 DEF SeenDead
<1>6. CASE QuitTimesOut
  BY <1>6 DEF QuitTimesOut, Restarted
<1>7. CASE Cooled
  BY <1>7 DEF Cooled, Restarted
<1>8. CASE LaunchVerified
  BY <1>8 DEF LaunchVerified, Restarted, AppUp
<1>9. CASE RestartNow
  BY <1>9 DEF RestartNow
<1>10. CASE RestartNowChecked
  BY <1>10 DEF RestartNowChecked, SharedRestart
<1>11. CASE RestartNowLaunched
  BY <1>11 DEF RestartNowLaunched, AppUp
<1>12. CASE AppQuits
  BY <1>12 DEF AppQuits
<1>13. CASE UserTogglesApp
  <2>0. control' = control
    BY <1>13 DEF UserTogglesApp
  <2>1. CASE elgato.up /\ elgato' = [elgato EXCEPT !.up = FALSE, !.told = FALSE, !.events = @ + 1]
    BY ONLY RestartInv, <2>0, <2>1
  <2>2. CASE /\ ~elgato.up
             /\ elgato' = [elgato EXCEPT !.up = TRUE, !.told = FALSE, !.byUs = FALSE, !.events = @ + 1]
    BY ONLY RestartInv, <2>0, <2>2
  <2> QED BY <1>13, <2>1, <2>2 DEF UserTogglesApp, AppUp
<1>14. CASE OnGraceElapsed \/ \E d \in PairedDocks : OnDockConnected(d) \/ AttachToggles(d)
  BY <1>1, <1>14 DEF OnGraceElapsed, OnDockConnected, AttachToggles
<1>15. CASE \E r \in auto.checks : ConfirmAppRunning(r)
  BY <1>1, <1>15 DEF ConfirmAppRunning
<1>16. CASE UNCHANGED restartVars
  BY <1>1, <1>16 DEF restartVars
<1> QED BY <1>2, <1>3, <1>4, <1>5, <1>6, <1>7, <1>8, <1>9, <1>10, <1>11, <1>12, <1>13, <1>14, <1>15,
           <1>16 DEF RestartNext

(* However the grace checks, the automatic and the manual restart, what the user does with the
   app and the disposal at DeckBridge's own quit interleave: an app that a restart took down is
   up again when no restart is under way, unless DeckBridge is quitting or the last restart gave
   up (ElgatoAutoRestart.restart, restartNow and dispose). *)
THEOREM AppAlwaysComesBack == RestartSpec => []AppComesBack
<1>1. ASSUME RestartInit PROVE RestartInv
  <2>1. PICK e \in [up : BOOLEAN, told : {FALSE}, byUs : {FALSE}, events : {0}] : elgato = e
    BY <1>1 DEF RestartInit
  <2>2. ~elgato.told /\ ~elgato.byUs /\ elgato.up \in BOOLEAN
    BY <2>1
  <2>3. elgato = [up |-> elgato.up, told |-> elgato.told, byUs |-> elgato.byUs,
                  events |-> elgato.events]
    BY <2>1
  <2> QED BY <1>1, <2>2, <2>3 DEF RestartInit, RestartInv, ControlTyped
<1>2. RestartInv => AppComesBack
  BY DEF RestartInv, AppComesBack
<1> QED BY <1>1, <1>2, RestartKept, PTL DEF RestartSpec

-----------------------------------------------------------------------------
(* The process.                                                            *)

(* Every record has its fields. *)
AppFields ==
    /\ app = [run |-> app.run, setup |-> app.setup, up |-> app.up, step |-> app.step,
              quit |-> app.quit, stopped |-> app.stopped, waits |-> app.waits,
              writers |-> app.writers, ok |-> app.ok, handle |-> app.handle,
              truth |-> app.truth, pushed |-> app.pushed, dwelt |-> app.dwelt,
              changes |-> app.changes]
    /\ app.setup \in AppSetups /\ app.up \in BOOLEAN /\ app.handle \in BOOLEAN
    /\ app.step \in {"webui", "traybin", "cora", "started"}
    /\ app.quit \in {"no", "closing", "persisted"} /\ app.truth \in AppStates
TrayFields ==
    /\ tray = [st |-> tray.st, alive |-> tray.alive, signalled |-> tray.signalled,
               writer |-> tray.writer, writing |-> tray.writing, pending |-> tray.pending,
               shown |-> tray.shown, failed |-> tray.failed, closed |-> tray.closed]
    /\ tray.alive \in BOOLEAN /\ tray.writer \in BOOLEAN /\ tray.failed \in BOOLEAN
    /\ tray.closed \in BOOLEAN /\ tray.signalled \in BOOLEAN
IsMarks(m) ==
    /\ m = [day |-> m.day, dismissed |-> m.dismissed, notified |-> m.notified, cache |-> m.cache]
    /\ m.day \in Int /\ m.dismissed \in Int /\ m.notified \in BOOLEAN
KeptFields ==
    /\ kept = [mem |-> kept.mem, disk |-> kept.disk, closed |-> kept.closed]
    /\ IsMarks(kept.mem) /\ IsMarks(kept.disk)
ToldFields ==
    /\ told = [today |-> told.today, beacons |-> told.beacons, lost |-> told.lost,
               dismissed |-> told.dismissed, raced |-> told.raced, notices |-> told.notices]
    /\ told.today \in 1 .. MaxDays /\ told.beacons \in [1 .. MaxDays -> Int]
    /\ told.dismissed \in Int /\ told.raced \in BOOLEAN
TaskFields ==
    \A t \in tasks :
      /\ t = [n |-> t.n, k |-> t.k, stage |-> t.stage, day |-> t.day, old |-> t.old,
              tracked |-> t.tracked, child |-> t.child]
      /\ t.k \in {"ping", "check"} /\ t.stage \in {"os", "elgato", "curl"} /\ t.old \in Int
      /\ t.k = "ping" => t.day \in 1 .. MaxDays

(* The day of a beacon, and that of a ping under way, is over or marked. *)
DaysPast == kept.mem.day <= told.today /\ kept.disk.day <= told.today
PingsAreMarked ==
    app.up => \A t \in tasks : t.k = "ping" => (t.day < told.today \/ kept.mem.day = t.day)
Saved == IF app.up THEN kept.mem ELSE kept.disk
BeaconsAreMarked ==
    \A d \in (1 .. MaxDays) \ told.lost :
        told.beacons[d] > 0 => (d < told.today \/ Saved.day = d)
PingsApart ==
    \A t, u \in tasks : t.k = "ping" /\ u.k = "ping" /\ t.day = u.day => t = u
BeaconsOnce ==
    \A d \in (1 .. MaxDays) \ told.lost :
      /\ told.beacons[d] <= 1
      /\ (app.up /\ told.beacons[d] > 0) =>
           \A t \in tasks : t.k = "ping" /\ t.day = d => t.stage = "curl"

(* What the user was told and dismissed is in memory, and after an exit on disk. *)
NoticesOnce ==
    /\ told.notices = IF Saved.notified THEN 1 ELSE 0
    /\ app.up /\ kept.disk.notified => kept.mem.notified
DismissalHeld == ~told.raced => Saved.dismissed = told.dismissed
LastSaveHolds ==
    app.quit = "persisted" =>
        /\ kept.disk.day = kept.mem.day /\ kept.disk.notified = kept.mem.notified
        /\ (~told.raced => kept.disk.dismissed = told.dismissed)

(* What a quit has told to go, and waited for. *)
QuitStopsAll ==
    /\ app.stopped <=> app.quit # "no"
    /\ app.quit = "no" /\ tray.alive => app.handle
    /\ app.quit # "no" /\ tray.alive => tray.signalled
OwnedStopped ==
    app.stopped => \A t \in tasks : Owned(t.stage) => t.child # "runs"
WritersDone ==
    /\ app.quit # "no" /\ "writers" \notin app.waits => {t.n : t \in tasks} \cap app.writers = {}
    /\ app.quit = "persisted" /\ app.ok => {t.n : t \in tasks} \cap app.writers = {}

(* The newest state that the tray was sent, or will be, is the one pushed. *)
Newest == IF tray.pending # 0 THEN tray.pending ELSE IF tray.writing # 0 THEN tray.writing ELSE tray.shown
TrayFollows ==
    /\ app.pushed = IF app.handle THEN app.truth ELSE 0
    /\ app.handle => app.step \in {"cora", "started"}
    /\ tray.alive /\ ~tray.closed => app.handle
    /\ ~tray.closed => /\ (tray.st = "open") <=> tray.writer
                       /\ ~tray.writer => tray.writing = 0
                       /\ tray.writer /\ tray.writing = 0 => tray.pending = 0
    /\ app.handle /\ ~tray.closed /\ (tray.pending # 0 \/ tray.writing # 0 \/ ~tray.failed) =>
         Newest = app.pushed

TrayInv == AppFields /\ TrayFields /\ QuitStopsAll /\ TrayFollows
KeptInv ==
    /\ KeptFields /\ ToldFields /\ TaskFields
    /\ DaysPast /\ PingsAreMarked /\ BeaconsAreMarked /\ PingsApart /\ BeaconsOnce
    /\ NoticesOnce /\ DismissalHeld /\ LastSaveHolds /\ OwnedStopped /\ WritersDone
AppInv == TrayInv /\ KeptInv

LEMMA CountTyped ==
    ASSUME NEW S, NEW b \in [S -> Int], NEW x \in S
    PROVE  b[x] \in Int /\ b[x] + 1 \in Int
OBVIOUS

LEMMA KeptSame ==
    ASSUME KeptInv,
           UNCHANGED <<kept, tasks, told, app.up, app.quit, app.stopped, app.waits, app.writers, app.ok>>
    PROVE  KeptInv'
BY DEF KeptInv, KeptFields, IsMarks, ToldFields, TaskFields, DaysPast, PingsAreMarked,
       BeaconsAreMarked, PingsApart, BeaconsOnce, NoticesOnce, DismissalHeld, LastSaveHolds,
       OwnedStopped, WritersDone, Saved

LEMMA TraySame ==
    ASSUME TrayInv, UNCHANGED <<app, tray>>
    PROVE  TrayInv'
BY DEF TrayInv, AppFields, TrayFields, QuitStopsAll, TrayFollows, Newest

(* The sidecar's own steps. *)
LEMMA TrayWorks ==
    ASSUME AppInv, TrayReady \/ TrayConnected \/ TrayOpened \/ TrayWrote \/ TrayWriteFails \/ TrayExits
    PROVE  AppInv'
<1> USE DEF AppInv, TrayInv
<1> USE DEF TrayReady, TrayConnected, TrayOpened, TrayWrote, TrayWriteFails, TrayExits
<1>1. UNCHANGED <<app, kept, tasks, told>>
  OBVIOUS
<1>2. TrayFields'
  BY DEF TrayFields
<1>3. QuitStopsAll'
  BY <1>1 DEF TrayFields, QuitStopsAll
<1>4. TrayFollows'
  BY <1>1 DEF TrayFields, TrayFollows, Newest
<1> QED BY <1>1, <1>2, <1>3, <1>4, KeptSame DEF AppFields

(* What is pushed is what the sidecar shows last. *)
LEMMA PushKept ==
    ASSUME TrayFields, NEW v
    PROVE  LET p == Pushed(tray, v)
           IN  /\ p = [st |-> tray.st, alive |-> tray.alive, signalled |-> tray.signalled,
                       writer |-> tray.writer, writing |-> p.writing, pending |-> p.pending,
                       shown |-> tray.shown, failed |-> FALSE, closed |-> tray.closed]
               /\ tray.writer /\ tray.writing = 0 => p.writing = v /\ p.pending = 0
               /\ ~(tray.writer /\ tray.writing = 0) => p.writing = tray.writing /\ p.pending = v
BY DEF Pushed, TrayFields

LEMMA StateChangesKept ==
    ASSUME AppInv, NEW v \in AppStates, StateChanges(v)
    PROVE  AppInv'
<1> USE DEF AppInv, TrayInv
<1>1. PICK a : /\ a = [app EXCEPT !.truth = v, !.changes = @ + 1] /\ PushTrayState(a, tray)
               /\ app.up /\ UNCHANGED <<kept, tasks, told>>
  BY DEF StateChanges, AppRunning
<1>2. /\ a.handle = app.handle /\ a.truth = v /\ a.pushed = app.pushed
      /\ a.up = app.up /\ a.quit = app.quit /\ a.stopped = app.stopped /\ a.waits = app.waits
      /\ a.writers = app.writers /\ a.ok = app.ok /\ a.step = app.step /\ a.setup = app.setup
  BY <1>1 DEF AppFields
<1>3. v # 0 /\ app.truth # 0
  BY AppAssumption DEF AppFields
<1>4. CASE ~(app.handle /\ v # app.pushed)
  <2>1. app' = a /\ tray' = tray
    BY <1>1, <1>2, <1>4 DEF PushTrayState
  <2>2. AppFields'
    BY <1>1, <1>2, <2>1 DEF AppFields
  <2>3. TrayFields' /\ QuitStopsAll' /\ TrayFollows'
    BY <1>2, <1>4, <2>1 DEF TrayFields, QuitStopsAll, TrayFollows, Newest
  <2> QED BY <1>1, <1>2, <2>1, <2>2, <2>3, KeptSame
<1>5. CASE app.handle /\ v # app.pushed
  <2>1. app' = [a EXCEPT !.pushed = v] /\ tray' = Pushed(tray, v)
    BY <1>1, <1>2, <1>5 DEF PushTrayState
  <2>2. /\ AppFields' /\ app'.up = app.up /\ app'.quit = app.quit /\ app'.stopped = app.stopped
        /\ app'.waits = app.waits /\ app'.writers = app.writers /\ app'.ok = app.ok
        /\ app'.handle = app.handle /\ app'.step = app.step /\ app'.truth = v /\ app'.pushed = v
    BY <1>1, <1>2, <2>1 DEF AppFields
  <2>3. PICK p : /\ tray' = p
                 /\ p = [st |-> tray.st, alive |-> tray.alive, signalled |-> tray.signalled,
                         writer |-> tray.writer, writing |-> p.writing, pending |-> p.pending,
                         shown |-> tray.shown, failed |-> FALSE, closed |-> tray.closed]
                 /\ tray.writer /\ tray.writing = 0 => p.writing = v /\ p.pending = 0
                 /\ ~(tray.writer /\ tray.writing = 0) => p.writing = tray.writing /\ p.pending = v
    BY <2>1, PushKept
  <2>4. TrayFields' /\ QuitStopsAll'
    <3>1. /\ tray'.alive = tray.alive /\ tray'.signalled = tray.signalled
          /\ tray'.writer = tray.writer /\ tray'.failed = FALSE /\ tray'.closed = tray.closed
      BY <2>3
    <3>2. tray' = [st |-> tray'.st, alive |-> tray'.alive, signalled |-> tray'.signalled,
                   writer |-> tray'.writer, writing |-> tray'.writing, pending |-> tray'.pending,
                   shown |-> tray'.shown, failed |-> tray'.failed, closed |-> tray'.closed]
      BY ONLY <2>3
    <3> QED BY <2>2, <3>1, <3>2 DEF TrayFields, QuitStopsAll
  <2>5. TrayFollows'
    BY <1>3, <1>5, <2>2, <2>3 DEF TrayFields, TrayFollows, Newest
  <2> QED BY <1>1, <2>2, <2>4, <2>5, KeptSame
<1> QED BY <1>4, <1>5

(* A task goes on to its next child, and a ping sends its beacon on the way. *)
LEMMA TaskReplaced ==
    ASSUME AppInv, app.up, UNCHANGED <<app, kept, tray>>, NEW t \in tasks, NEW u,
           tasks' = (tasks \ {t}) \cup {u},
           u = [n |-> t.n, k |-> t.k, stage |-> u.stage, day |-> t.day, old |-> t.old,
                tracked |-> t.tracked, child |-> u.child],
           u.stage \in {"os", "elgato", "curl"}, t.stage = "curl" => u.stage = "curl",
           app.stopped /\ Owned(u.stage) => u.child # "runs",
           \/ told' = told
           \/ /\ t.k = "ping" /\ t.stage # "curl" /\ u.stage = "curl"
              /\ told' = [told EXCEPT !.beacons[t.day] = @ + 1]
    PROVE  AppInv'
<1> USE DEF AppInv, KeptInv
<1>1. /\ t.k \in {"ping", "check"} /\ t.old \in Int
      /\ t.k = "ping" => t.day \in 1 .. MaxDays
  BY DEF TaskFields
<1>2. TaskFields' /\ PingsApart' /\ OwnedStopped'
  <2>1. TaskFields'
    BY <1>1 DEF TaskFields
  <2>2. PingsApart'
    BY DEF PingsApart
  <2>3. OwnedStopped'
    BY DEF OwnedStopped
  <2> QED BY <2>1, <2>2, <2>3
<1>3. WritersDone'
  <2>1. {x.n : x \in tasks'} = {x.n : x \in tasks}
    OBVIOUS
  <2> QED BY <2>1 DEF WritersDone
<1>4. /\ UNCHANGED <<told.today, told.lost, told.dismissed, told.raced, told.notices>>
      /\ ToldFields'
  <2>1. CASE told' = told
    BY <2>1 DEF ToldFields
  <2>2. CASE t.k = "ping" /\ told' = [told EXCEPT !.beacons[t.day] = @ + 1]
    <3>1. told.beacons[t.day] + 1 \in Int
      <4>1. told.beacons \in [1 .. MaxDays -> Int] /\ t.day \in 1 .. MaxDays
        BY <1>1, <2>2 DEF ToldFields
      <4> QED BY ONLY <4>1, CountTyped
    <3>2. PICK b : /\ b = [told.beacons EXCEPT ![t.day] = @ + 1] /\ told' = [told EXCEPT !.beacons = b]
      BY <2>2 DEF ToldFields
    <3>3. b \in [1 .. MaxDays -> Int]
      BY <3>1, <3>2 DEF ToldFields
    <3> QED BY <3>2, <3>3 DEF ToldFields
  <2> QED BY <2>1, <2>2
<1>5. KeptFields' /\ DaysPast' /\ NoticesOnce' /\ DismissalHeld' /\ LastSaveHolds'
  BY <1>4 DEF KeptFields, IsMarks, DaysPast, NoticesOnce, DismissalHeld, LastSaveHolds, Saved
<1>6. PingsAreMarked'
  BY <1>4 DEF PingsAreMarked
<1>7. CASE told' = told
  <2>1. BeaconsAreMarked' /\ BeaconsOnce'
    BY <1>7 DEF BeaconsAreMarked, BeaconsOnce, Saved
  <2> QED BY <1>2, <1>3, <1>4, <1>5, <1>6, <2>1, TraySame
<1>8. CASE /\ t.k = "ping" /\ t.stage # "curl" /\ u.stage = "curl"
           /\ told' = [told EXCEPT !.beacons[t.day] = @ + 1]
  <2>1. \A d \in 1 .. MaxDays :
           told'.beacons[d] = IF d = t.day THEN told.beacons[d] + 1 ELSE told.beacons[d]
    BY <1>1, <1>8 DEF ToldFields
  <2>2. BeaconsAreMarked'
    BY <1>4, <1>8, <2>1 DEF BeaconsAreMarked, PingsAreMarked, Saved
  <2>3. \A d \in (1 .. MaxDays) \ told.lost : d = t.day => told.beacons[d] <= 0
    <3>1. \A d \in (1 .. MaxDays) \ told.lost : d = t.day => ~(told.beacons[d] > 0)
      BY <1>8 DEF BeaconsOnce
    <3>2. \A d \in 1 .. MaxDays : told.beacons[d] \in Int
      BY CountTyped DEF ToldFields
    <3> QED BY ONLY <3>1, <3>2
  <2>4. BeaconsOnce'
    BY <1>1, <1>4, <1>8, <2>1, <2>3 DEF BeaconsOnce, PingsApart, ToldFields
  <2> QED BY <1>2, <1>3, <1>4, <1>5, <1>6, <2>2, <2>4, TraySame
<1> QED BY <1>7, <1>8

LEMMA ChildExitsKept ==
    ASSUME AppInv, NEW t \in tasks, ChildExits(t)
    PROVE  AppInv'
<1>1. PICK u : u = [t EXCEPT !.child = "none"]
  OBVIOUS
<1>2. /\ u = [n |-> t.n, k |-> t.k, stage |-> u.stage, day |-> t.day, old |-> t.old,
              tracked |-> t.tracked, child |-> u.child]
      /\ u.stage = t.stage /\ u.child = "none" /\ t.stage \in {"os", "elgato", "curl"}
  BY <1>1 DEF AppInv, KeptInv, TaskFields
<1> QED BY <1>1, <1>2, TaskReplaced DEF ChildExits, AppRunning

LEMMA TaskMovesOnKept ==
    ASSUME AppInv, NEW t \in tasks, TaskMovesOn(t)
    PROVE  AppInv'
<1>1. PICK s : s = NextStage(t) /\ s # "done"
  BY DEF TaskMovesOn
<1>2. t.k = "ping" /\ s \in {"elgato", "curl"} /\ t.stage # "curl"
  BY <1>1 DEF NextStage
<1>3. PICK spawn : spawn = (~Owned(s) \/ ~app.stopped)
  OBVIOUS
<1>4. PICK u : u = [t EXCEPT !.stage = s, !.child = IF spawn THEN "runs" ELSE @]
  OBVIOUS
<1>5. /\ u = [n |-> t.n, k |-> t.k, stage |-> u.stage, day |-> t.day, old |-> t.old,
              tracked |-> t.tracked, child |-> u.child]
      /\ u.stage = s /\ u.child = IF spawn THEN "runs" ELSE t.child
  <2>1. PICK c : c = (IF spawn THEN "runs" ELSE t.child) /\ u = [t EXCEPT !.stage = s, !.child = c]
    BY <1>4 DEF AppInv, KeptInv, TaskFields
  <2>2. /\ t = [n |-> t.n, k |-> t.k, stage |-> t.stage, day |-> t.day, old |-> t.old,
                tracked |-> t.tracked, child |-> t.child]
    BY DEF AppInv, KeptInv, TaskFields
  <2> QED BY ONLY <2>1, <2>2
<1>6. /\ app.up /\ t.child = "none" /\ tasks' = (tasks \ {t}) \cup {u} /\ UNCHANGED <<app, kept, tray>>
      /\ told' = IF t.k = "ping" /\ s = "curl" /\ spawn
                   THEN [told EXCEPT !.beacons[t.day] = @ + 1] ELSE told
  BY <1>1, <1>3, <1>4 DEF TaskMovesOn, AppRunning
<1>7. app.stopped /\ Owned(u.stage) => u.child # "runs"
  BY <1>3, <1>5, <1>6
<1> QED BY <1>2, <1>5, <1>6, <1>7, TaskReplaced

(* The last child of a task is gone: a check that got an answer writes what it read before it. *)
LEMMA TaskEndsKept ==
    ASSUME AppInv, NEW t \in tasks, TaskEnds(t)
    PROVE  AppInv'
<1> USE DEF AppInv, KeptInv
<1>1. app.up /\ tasks' = tasks \ {t} /\ UNCHANGED <<app, tray>>
  BY DEF TaskEnds, AppRunning, Settled
<1>2. TaskFields' /\ PingsApart'
  BY <1>1 DEF TaskFields, PingsApart
<1>3. OwnedStopped' /\ WritersDone'
  BY <1>1 DEF OwnedStopped, WritersDone
<1>4. CASE UNCHANGED <<kept, told>>
  <2>1. PingsAreMarked' /\ BeaconsOnce'
    BY <1>1, <1>4 DEF PingsAreMarked, BeaconsOnce
  <2>2. KeptFields' /\ ToldFields' /\ DaysPast' /\ BeaconsAreMarked'
    BY <1>1, <1>4 DEF KeptFields, IsMarks, ToldFields, DaysPast, BeaconsAreMarked, Saved
  <2>3. NoticesOnce' /\ DismissalHeld' /\ LastSaveHolds'
    BY <1>1, <1>4 DEF NoticesOnce, DismissalHeld, LastSaveHolds, Saved
  <2> QED BY <1>1, <1>2, <1>3, <2>1, <2>2, <2>3, TraySame
<1>5. CASE /\ kept' = [kept EXCEPT !.mem.cache = "warm", !.mem.dismissed = t.old]
           /\ told' = [told EXCEPT !.raced = @ \/ t.old # kept.mem.dismissed]
  <2>1. /\ kept' = [mem |-> kept'.mem, disk |-> kept.disk, closed |-> kept.closed]
        /\ kept'.mem = [day |-> kept.mem.day, dismissed |-> t.old, notified |-> kept.mem.notified,
                        cache |-> "warm"]
    BY <1>5 DEF KeptFields, IsMarks
  <2>2. PICK r \in BOOLEAN : /\ r <=> (told.raced \/ t.old # kept.mem.dismissed)
                             /\ told' = [told EXCEPT !.raced = r]
    BY <1>5 DEF ToldFields
  <2>3. /\ told'.today = told.today /\ told'.beacons = told.beacons /\ told'.lost = told.lost
        /\ told'.dismissed = told.dismissed /\ told'.raced = r /\ told'.notices = told.notices
        /\ ToldFields'
    BY <2>2 DEF ToldFields
  <2>4. KeptFields' /\ t.old \in Int
    BY <2>1 DEF KeptFields, IsMarks, TaskFields
  <2>5. DaysPast' /\ PingsAreMarked' /\ BeaconsAreMarked' /\ BeaconsOnce'
    BY <1>1, <2>1, <2>3 DEF DaysPast, PingsAreMarked, BeaconsAreMarked, BeaconsOnce, Saved
  <2>6. NoticesOnce' /\ DismissalHeld' /\ LastSaveHolds'
    BY <1>1, <2>1, <2>2, <2>3 DEF NoticesOnce, DismissalHeld, LastSaveHolds, Saved
  <2> QED BY <1>1, <1>2, <1>3, <2>3, <2>4, <2>5, <2>6, TraySame
<1> QED BY <1>4, <1>5 DEF TaskEnds

(* A ping begins: its day is marked, and no other ping is of that day. *)
LEMMA StartPingKept ==
    ASSUME AppInv, StartPing
    PROVE  AppInv'
<1> USE DEF AppInv, KeptInv
<1>1. PICK u : /\ u = [n |-> u.n, k |-> "ping", stage |-> "os", day |-> told.today, old |-> 0,
                       tracked |-> TRUE, child |-> "runs"]
               /\ tasks' = tasks \cup {u}
  <2>1. PICK n : n = Fresh
    OBVIOUS
  <2> QED BY <2>1 DEF StartPing
<1>2. /\ app.up /\ app.quit = "no" /\ kept.mem.day # told.today /\ UNCHANGED <<app, tray, told>>
      /\ kept' = [kept EXCEPT !.mem.day = told.today]
  BY DEF StartPing, CanStart, AppRunning
<1>3. /\ kept' = [mem |-> kept'.mem, disk |-> kept.disk, closed |-> kept.closed]
      /\ kept'.mem = [day |-> told.today, dismissed |-> kept.mem.dismissed,
                      notified |-> kept.mem.notified, cache |-> kept.mem.cache]
  BY <1>2 DEF KeptFields, IsMarks
<1>4. told.today \in 1 .. MaxDays /\ told.today \in Int /\ ToldFields'
  BY <1>2, AppAssumption DEF ToldFields
<1>5. KeptFields' /\ TaskFields'
  BY <1>1, <1>3, <1>4 DEF KeptFields, IsMarks, TaskFields
<1>6. \A t \in tasks : t.k = "ping" => t.day < told.today
  BY <1>2, <1>4 DEF PingsAreMarked, DaysPast, KeptFields, IsMarks
<1>7. DaysPast' /\ PingsAreMarked' /\ BeaconsAreMarked'
  <2>1. DaysPast'
    BY <1>2, <1>3, <1>4 DEF DaysPast
  <2>2. PingsAreMarked'
    BY <1>1, <1>2, <1>3, <1>6 DEF PingsAreMarked
  <2>3. BeaconsAreMarked'
    BY <1>2, <1>3, <1>4 DEF BeaconsAreMarked, DaysPast, KeptFields, IsMarks, Saved
  <2> QED BY <2>1, <2>2, <2>3
<1>8. PingsApart'
  <2>1. u.k = "ping" /\ u.day = told.today
    BY <1>1
  <2>2. \A t \in tasks : t.k = "ping" => t.day \in Int
    BY AppAssumption DEF TaskFields
  <2>3. \A t \in tasks : t.k = "ping" => t.day # u.day
    BY <1>4, <1>6, <2>1, <2>2
  <2> QED BY <1>1, <2>3 DEF PingsApart
<1>9. BeaconsOnce'
  BY <1>1, <1>2, <1>4 DEF BeaconsOnce, BeaconsAreMarked, ToldFields, Saved
<1>10. NoticesOnce' /\ DismissalHeld' /\ LastSaveHolds'
  BY <1>2, <1>3 DEF NoticesOnce, DismissalHeld, LastSaveHolds, Saved
<1>11. OwnedStopped' /\ WritersDone'
  BY <1>2 DEF OwnedStopped, WritersDone, TrayInv, QuitStopsAll
<1> QED BY <1>2, <1>4, <1>5, <1>7, <1>8, <1>9, <1>10, <1>11, TraySame

LEMMA StartCheckKept ==
    ASSUME AppInv, NEW force \in BOOLEAN, StartCheck(force)
    PROVE  AppInv'
<1> USE DEF AppInv, KeptInv
<1>1. PICK u : /\ u = [n |-> u.n, k |-> "check", stage |-> "curl", day |-> 0,
                       old |-> kept.mem.dismissed, tracked |-> ~force, child |-> "runs"]
               /\ tasks' = tasks \cup {u}
  <2>1. PICK n : n = Fresh
    OBVIOUS
  <2> QED BY <2>1 DEF StartCheck
<1>2. app.up /\ app.quit = "no" /\ UNCHANGED <<app, kept, tray, told>>
  BY DEF StartCheck, CanStart, AppRunning
<1>3. TaskFields' /\ PingsAreMarked' /\ PingsApart' /\ BeaconsOnce'
  BY <1>1, <1>2 DEF KeptFields, IsMarks, TaskFields, PingsAreMarked, PingsApart, BeaconsOnce
<1>4. KeptFields' /\ ToldFields' /\ DaysPast' /\ BeaconsAreMarked'
  BY <1>2 DEF KeptFields, IsMarks, ToldFields, DaysPast, BeaconsAreMarked, Saved
<1>5. NoticesOnce' /\ DismissalHeld' /\ LastSaveHolds' /\ OwnedStopped' /\ WritersDone'
  BY <1>2 DEF NoticesOnce, DismissalHeld, LastSaveHolds, OwnedStopped, WritersDone, Saved, TrayInv,
              QuitStopsAll
<1> QED BY <1>2, <1>3, <1>4, <1>5, TraySame

LEMMA DismissKept ==
    ASSUME AppInv, Dismiss
    PROVE  AppInv'
<1> USE DEF AppInv, KeptInv
<1>1. /\ app.up /\ app.quit = "no" /\ UNCHANGED <<tasks, tray>>
      /\ app' = [app EXCEPT !.changes = @ + 1]
  BY DEF Dismiss, AppRunning
<1>2. /\ app'.up = app.up /\ app'.quit = app.quit /\ app'.stopped = app.stopped
      /\ app'.waits = app.waits /\ app'.writers = app.writers /\ app'.ok = app.ok
  BY <1>1 DEF TrayInv, AppFields
<1>3. TrayInv'
  <2>1. /\ app'.step = app.step /\ app'.handle = app.handle /\ app'.truth = app.truth
        /\ app'.pushed = app.pushed /\ AppFields'
    BY <1>1 DEF TrayInv, AppFields
  <2> QED BY <1>1, <1>2, <2>1 DEF TrayInv, TrayFields, QuitStopsAll, TrayFollows, Newest
<1>4. PICK m : /\ m = [day |-> kept.mem.day, dismissed |-> told.dismissed + 1,
                       notified |-> kept.mem.notified, cache |-> m.cache]
               /\ kept' = [mem |-> m, disk |-> kept.disk, closed |-> kept.closed]
  <2>1. PICK c : c = IF kept.mem.cache = "never" THEN "warm" ELSE kept.mem.cache
    OBVIOUS
  <2>2. kept' = [kept EXCEPT !.mem.dismissed = told.dismissed + 1, !.mem.cache = c]
    BY <2>1 DEF Dismiss, KeptFields, IsMarks
  <2> QED BY <2>2 DEF KeptFields, IsMarks
<1>5. /\ told' = [today |-> told.today, beacons |-> told.beacons, lost |-> told.lost,
                  dismissed |-> told.dismissed + 1, raced |-> FALSE, notices |-> told.notices]
      /\ told.dismissed + 1 \in Int
  <2>1. told' = [told EXCEPT !.dismissed = @ + 1, !.raced = FALSE]
    BY DEF Dismiss
  <2>2. told = [today |-> told.today, beacons |-> told.beacons, lost |-> told.lost,
                dismissed |-> told.dismissed, raced |-> told.raced, notices |-> told.notices]
    BY DEF ToldFields
  <2>3. told.dismissed + 1 \in Int
    BY DEF ToldFields
  <2> QED BY ONLY <2>1, <2>2, <2>3
<1>6. KeptFields' /\ ToldFields' /\ TaskFields'
  BY <1>1, <1>4, <1>5 DEF KeptFields, IsMarks, ToldFields, TaskFields
<1>7. DaysPast' /\ PingsAreMarked' /\ BeaconsAreMarked' /\ PingsApart' /\ BeaconsOnce'
  BY <1>1, <1>2, <1>4, <1>5 DEF DaysPast, PingsAreMarked, BeaconsAreMarked, PingsApart, BeaconsOnce, Saved
<1>8. NoticesOnce' /\ DismissalHeld' /\ LastSaveHolds' /\ OwnedStopped' /\ WritersDone'
  BY <1>1, <1>2, <1>4, <1>5 DEF NoticesOnce, DismissalHeld, LastSaveHolds, OwnedStopped, WritersDone,
                                Saved
<1> QED BY <1>3, <1>6, <1>7, <1>8

(* The survey's notice goes with the state pushed last, once it is marked. *)
LEMMA NotifySurveyKept ==
    ASSUME AppInv, NotifySurvey
    PROVE  AppInv'
<1> USE DEF AppInv, KeptInv
<1>1. /\ app.up /\ app.quit = "no" /\ app.handle /\ ~kept.mem.notified /\ UNCHANGED <<app, tasks>>
      /\ kept' = [kept EXCEPT !.mem.notified = TRUE]
      /\ told' = [told EXCEPT !.notices = @ + 1] /\ tray' = Pushed(tray, app.pushed)
  BY DEF NotifySurvey, AppRunning
<1>2. /\ kept' = [mem |-> kept'.mem, disk |-> kept.disk, closed |-> kept.closed]
      /\ kept'.mem = [day |-> kept.mem.day, dismissed |-> kept.mem.dismissed, notified |-> TRUE,
                      cache |-> kept.mem.cache]
  BY <1>1 DEF KeptFields, IsMarks
<1>3. /\ told' = [today |-> told.today, beacons |-> told.beacons, lost |-> told.lost,
                  dismissed |-> told.dismissed, raced |-> told.raced, notices |-> 1]
  BY <1>1 DEF ToldFields, NoticesOnce, Saved
<1>4. KeptFields' /\ ToldFields' /\ TaskFields'
  BY <1>1, <1>2, <1>3 DEF KeptFields, IsMarks, ToldFields, TaskFields
<1>5. DaysPast' /\ PingsAreMarked' /\ BeaconsAreMarked' /\ PingsApart' /\ BeaconsOnce'
  BY <1>1, <1>2, <1>3 DEF DaysPast, PingsAreMarked, BeaconsAreMarked, PingsApart, BeaconsOnce, Saved
<1>6. NoticesOnce' /\ DismissalHeld' /\ LastSaveHolds' /\ OwnedStopped' /\ WritersDone'
  BY <1>1, <1>2, <1>3 DEF NoticesOnce, DismissalHeld, LastSaveHolds, OwnedStopped, WritersDone,
                          Saved
<1>7. TrayInv'
  <2>1. app.pushed = app.truth /\ app.truth # 0 /\ AppFields'
    BY <1>1, AppAssumption DEF TrayInv, AppFields, TrayFollows
  <2>2. PICK p : /\ tray' = p
                 /\ p = [st |-> tray.st, alive |-> tray.alive, signalled |-> tray.signalled,
                         writer |-> tray.writer, writing |-> p.writing, pending |-> p.pending,
                         shown |-> tray.shown, failed |-> FALSE, closed |-> tray.closed]
                 /\ tray.writer /\ tray.writing = 0 => p.writing = app.pushed /\ p.pending = 0
                 /\ ~(tray.writer /\ tray.writing = 0) =>
                      p.writing = tray.writing /\ p.pending = app.pushed
    BY <1>1, PushKept DEF TrayInv
  <2>3. /\ tray'.alive = tray.alive /\ tray'.signalled = tray.signalled
        /\ tray'.writer = tray.writer /\ tray'.failed = FALSE /\ tray'.closed = tray.closed
    BY ONLY <2>2
  <2>4. tray' = [st |-> tray'.st, alive |-> tray'.alive, signalled |-> tray'.signalled,
                 writer |-> tray'.writer, writing |-> tray'.writing, pending |-> tray'.pending,
                 shown |-> tray'.shown, failed |-> tray'.failed, closed |-> tray'.closed]
    BY ONLY <2>2
  <2>5. TrayFields' /\ QuitStopsAll'
    BY <1>1, <2>3, <2>4 DEF TrayInv, TrayFields, QuitStopsAll
  <2>6. TrayFollows'
    BY <1>1, <2>1, <2>2 DEF TrayInv, TrayFields, TrayFollows, Newest
  <2> QED BY <2>1, <2>5, <2>6 DEF TrayInv
<1> QED BY <1>4, <1>5, <1>6, <1>7

LEMMA SaveSettingsKept ==
    ASSUME AppInv, SaveSettings
    PROVE  AppInv'
<1> USE DEF AppInv, KeptInv
<1>1. app.up /\ UNCHANGED <<app, tasks, tray, told>> /\ kept' = [kept EXCEPT !.disk = kept.mem]
  BY DEF SaveSettings, AppRunning
<1>2. kept' = [mem |-> kept.mem, disk |-> kept.mem, closed |-> kept.closed]
  BY <1>1 DEF KeptFields
<1>3. KeptFields' /\ ToldFields' /\ TaskFields'
  BY <1>1, <1>2 DEF KeptFields, IsMarks, ToldFields, TaskFields
<1>4. DaysPast' /\ PingsAreMarked' /\ BeaconsAreMarked' /\ PingsApart' /\ BeaconsOnce'
  BY <1>1, <1>2 DEF DaysPast, PingsAreMarked, BeaconsAreMarked, PingsApart, BeaconsOnce, Saved
<1>5. NoticesOnce' /\ DismissalHeld' /\ LastSaveHolds' /\ OwnedStopped' /\ WritersDone'
  BY <1>1, <1>2 DEF NoticesOnce, DismissalHeld, LastSaveHolds, OwnedStopped, WritersDone, Saved
<1> QED BY <1>1, <1>3, <1>4, <1>5, TraySame

(* The start goes on, and the sidecar that a quit overtook is closed. *)
LEMMA StartStepKept ==
    ASSUME AppInv, StartStep
    PROVE  AppInv'
<1> USE DEF AppInv, TrayInv
<1>1. UNCHANGED <<kept, tasks, told>> /\ app.up
  BY DEF StartStep, AppRunning
<1>2. CASE UNCHANGED tray /\ \E s \in {"traybin", "cora", "started"} :
             /\ app' = [app EXCEPT !.step = s]
             /\ app.step \in {"webui", "traybin", "cora"} /\ (app.step = "cora" => s = "started")
  <2>1. PICK s \in {"traybin", "cora", "started"} :
             /\ app' = [app EXCEPT !.step = s]
             /\ app.step \in {"webui", "traybin", "cora"} /\ (app.step = "cora" => s = "started")
    BY <1>2
  <2>2. /\ app'.up = app.up /\ app'.quit = app.quit /\ app'.stopped = app.stopped
        /\ app'.waits = app.waits /\ app'.writers = app.writers /\ app'.ok = app.ok
        /\ app'.handle = app.handle /\ app'.truth = app.truth /\ app'.pushed = app.pushed
        /\ app'.step = s /\ AppFields'
    BY <2>1 DEF AppFields
  <2>3. TrayFields' /\ QuitStopsAll' /\ TrayFollows'
    BY <1>2, <2>1, <2>2 DEF TrayFields, QuitStopsAll, TrayFollows, Newest
  <2> QED BY <1>1, <2>2, <2>3, KeptSame
<1>3. CASE app.step = "traybin" /\ app.quit # "no" /\ app' = [app EXCEPT !.step = "cora"]
           /\ tray' = TrayClosed([NoTray EXCEPT !.st = "spawned", !.alive = TRUE])
  <2>1. tray' = [st |-> "spawned", alive |-> TRUE, signalled |-> TRUE, writer |-> FALSE,
                 writing |-> 0, pending |-> 0, shown |-> 0, failed |-> FALSE, closed |-> TRUE]
    BY <1>3 DEF TrayClosed, NoTray
  <2>2. /\ app'.up = app.up /\ app'.quit = app.quit /\ app'.stopped = app.stopped
        /\ app'.waits = app.waits /\ app'.writers = app.writers /\ app'.ok = app.ok
        /\ app'.handle = app.handle /\ app'.truth = app.truth /\ app'.pushed = app.pushed
        /\ app'.step = "cora" /\ AppFields'
    BY <1>3 DEF AppFields
  <2>3. /\ tray'.alive = TRUE /\ tray'.signalled = TRUE /\ tray'.closed = TRUE
        /\ tray'.writer = FALSE /\ tray'.failed = FALSE
    BY <2>1
  <2>4. TrayFields'
    BY <2>1 DEF TrayFields
  <2>5. QuitStopsAll' /\ TrayFollows'
    BY <1>3, <2>2, <2>3 DEF QuitStopsAll, TrayFollows
  <2> QED BY <1>1, <2>2, <2>4, <2>5, KeptSame
<1>4. CASE app.step = "traybin" /\ app.quit = "no"
           /\ PushTrayState([app EXCEPT !.step = "cora", !.handle = TRUE],
                            [NoTray EXCEPT !.st = "spawned", !.alive = TRUE])
  <2>1. ~app.handle /\ app.pushed = 0 /\ app.truth # 0
    BY <1>4, AppAssumption DEF AppFields, TrayFollows
  <2>2. PICK a : a = [app EXCEPT !.step = "cora", !.handle = TRUE]
    OBVIOUS
  <2>3. a.handle /\ a.truth = app.truth /\ a.pushed = app.pushed
    BY <2>2 DEF AppFields
  <2>4. PICK t : t = [NoTray EXCEPT !.st = "spawned", !.alive = TRUE]
    OBVIOUS
  <2>5. /\ app' = [a EXCEPT !.pushed = app.truth] /\ tray' = Pushed(t, app.truth)
        /\ tray' = [st |-> "spawned", alive |-> TRUE, signalled |-> FALSE, writer |-> FALSE,
                    writing |-> 0, pending |-> app.truth, shown |-> 0, failed |-> FALSE,
                    closed |-> FALSE]
    <3>1. t = [st |-> "spawned", alive |-> TRUE, signalled |-> FALSE, writer |-> FALSE,
               writing |-> 0, pending |-> 0, shown |-> 0, failed |-> FALSE, closed |-> FALSE]
      BY <2>4 DEF NoTray
    <3>2. app' = [a EXCEPT !.pushed = a.truth] /\ tray' = Pushed(t, a.truth)
      BY <1>4, <2>1, <2>2, <2>3, <2>4 DEF PushTrayState
    <3>3. Pushed(t, app.truth) = [t EXCEPT !.pending = app.truth, !.failed = FALSE]
      BY <3>1 DEF Pushed
    <3> QED BY ONLY <2>3, <3>1, <3>2, <3>3
  <2>6. /\ app'.up = app.up /\ app'.quit = app.quit /\ app'.stopped = app.stopped
        /\ app'.waits = app.waits /\ app'.writers = app.writers /\ app'.ok = app.ok
        /\ app'.handle = TRUE /\ app'.truth = app.truth /\ app'.pushed = app.truth
        /\ app'.step = "cora" /\ AppFields'
    BY <2>2, <2>5 DEF AppFields
  <2>7. TrayFields' /\ QuitStopsAll' /\ TrayFollows'
    BY <1>4, <2>1, <2>5, <2>6 DEF TrayFields, QuitStopsAll, TrayFollows, Newest
  <2> QED BY <1>1, <2>6, <2>7, KeptSame
<1> QED BY <1>2, <1>3, <1>4 DEF StartStep

(* A quit tells the sidecar and every owned child to go, and waits for the tasks that write. *)
LEMMA RequestQuitKept ==
    ASSUME AppInv, RequestQuit
    PROVE  AppInv'
<1> USE DEF AppInv, KeptInv, TrayInv
<1>1. /\ app.up /\ app.quit = "no" /\ UNCHANGED <<kept, told>>
  BY DEF RequestQuit, AppRunning
<1>2. PICK w : w = {t.n : t \in {x \in tasks : x.tracked}}
  OBVIOUS
<1>3. PICK o : o = {"spawns", "writers"} \cup (IF app.handle THEN {"tray"} ELSE {})
  OBVIOUS
<1>4. app' = [app EXCEPT !.quit = "closing", !.stopped = TRUE, !.writers = w, !.waits = o]
  BY <1>2, <1>3 DEF RequestQuit
<1>5. /\ app'.up = app.up /\ app'.quit = "closing" /\ app'.stopped = TRUE /\ app'.waits = o
      /\ app'.handle = app.handle /\ app'.truth = app.truth /\ app'.pushed = app.pushed
      /\ app'.step = app.step /\ AppFields'
  BY <1>4 DEF AppFields
<1>6. TrayFields' /\ QuitStopsAll' /\ TrayFollows'
  <2>1. CASE app.handle
    <3>1. tray' = [tray EXCEPT !.closed = TRUE, !.writer = FALSE, !.pending = 0, !.writing = 0,
                               !.signalled = tray.alive]
      BY <2>1 DEF RequestQuit, TrayClosed
    <3>2. /\ tray'.alive = tray.alive /\ tray'.signalled = tray.alive /\ tray'.closed = TRUE
          /\ TrayFields'
      BY <3>1 DEF TrayFields
    <3> QED BY <1>5, <2>1, <3>2 DEF QuitStopsAll, TrayFollows
  <2>2. CASE ~app.handle
    <3>1. tray' = tray
      BY <2>2 DEF RequestQuit
    <3> QED BY <1>1, <1>5, <2>2, <3>1 DEF TrayFields, QuitStopsAll, TrayFollows, Newest
  <2> QED BY <2>1, <2>2
<1>7. \A u \in tasks' : \E t \in tasks :
           /\ u = [n |-> t.n, k |-> t.k, stage |-> t.stage, day |-> t.day, old |-> t.old,
                   tracked |-> t.tracked, child |-> u.child]
           /\ Owned(t.stage) => u.child # "runs"
           /\ u = IF t.child = "runs" /\ Owned(t.stage) THEN [t EXCEPT !.child = "signalled"] ELSE t
  <2> SUFFICES ASSUME NEW u \in tasks'
               PROVE  \E t \in tasks :
                        /\ u = [n |-> t.n, k |-> t.k, stage |-> t.stage, day |-> t.day,
                                old |-> t.old, tracked |-> t.tracked, child |-> u.child]
                        /\ Owned(t.stage) => u.child # "runs"
                        /\ u = IF t.child = "runs" /\ Owned(t.stage)
                                 THEN [t EXCEPT !.child = "signalled"] ELSE t
    OBVIOUS
  <2>1. PICK t \in tasks : u = IF t.child = "runs" /\ Owned(t.stage)
                                 THEN [t EXCEPT !.child = "signalled"] ELSE t
    BY DEF RequestQuit
  <2>2. t = [n |-> t.n, k |-> t.k, stage |-> t.stage, day |-> t.day, old |-> t.old,
             tracked |-> t.tracked, child |-> t.child]
    BY DEF TaskFields
  <2> QED BY ONLY <2>1, <2>2, t \in tasks
<1>8. TaskFields' /\ OwnedStopped'
  <2>1. \A u \in tasks' : \E t \in tasks :
           /\ u = [n |-> u.n, k |-> u.k, stage |-> u.stage, day |-> u.day, old |-> u.old,
                   tracked |-> u.tracked, child |-> u.child]
           /\ u.k = t.k /\ u.stage = t.stage /\ u.day = t.day /\ u.old = t.old
           /\ Owned(u.stage) => u.child # "runs"
    BY ONLY <1>7
  <2>2. TaskFields'
    BY <2>1 DEF TaskFields
  <2> QED BY <2>1, <2>2 DEF OwnedStopped
<1>9. PingsAreMarked' /\ BeaconsOnce'
  <2>1. \A u \in tasks' : \E t \in tasks : u.k = t.k /\ u.stage = t.stage /\ u.day = t.day
    BY ONLY <1>7
  <2> QED BY <1>1, <1>5, <2>1 DEF PingsAreMarked, BeaconsOnce
<1>10. PingsApart'
  <2>1. \A u \in tasks' : \E t \in tasks :
           /\ u.k = t.k /\ u.day = t.day
           /\ u = IF t.child = "runs" /\ Owned(t.stage) THEN [t EXCEPT !.child = "signalled"] ELSE t
    BY ONLY <1>7
  <2> QED BY <2>1 DEF PingsApart
<1>11. KeptFields' /\ ToldFields' /\ DaysPast' /\ BeaconsAreMarked'
  BY <1>1, <1>5 DEF KeptFields, IsMarks, ToldFields, DaysPast, BeaconsAreMarked, Saved
<1>12. NoticesOnce' /\ DismissalHeld' /\ LastSaveHolds'
  BY <1>1, <1>5 DEF NoticesOnce, DismissalHeld, LastSaveHolds, Saved
<1>13. WritersDone'
  BY <1>3, <1>5 DEF WritersDone
<1> QED BY <1>5, <1>6, <1>8, <1>9, <1>10, <1>11, <1>12, <1>13

LEMMA CloseSettlesKept ==
    ASSUME AppInv, NEW o \in {"spawns", "tray", "writers"}, CloseSettles(o)
    PROVE  AppInv'
<1> USE DEF AppInv, KeptInv, TrayInv
<1>1. /\ app.up /\ app.quit = "closing" /\ UNCHANGED <<kept, tasks, tray, told>>
      /\ app' = [app EXCEPT !.waits = @ \ {o}]
      /\ o = "writers" => {t.n : t \in tasks} \cap app.writers = {}
  BY DEF CloseSettles, AppRunning
<1>2. /\ app'.up = app.up /\ app'.quit = app.quit /\ app'.stopped = app.stopped
      /\ app'.waits = app.waits \ {o} /\ app'.writers = app.writers /\ app'.ok = app.ok
      /\ app'.handle = app.handle /\ app'.truth = app.truth /\ app'.pushed = app.pushed
      /\ app'.step = app.step /\ AppFields'
  BY <1>1 DEF AppFields
<1>3. TrayFields' /\ QuitStopsAll' /\ TrayFollows'
  BY <1>1, <1>2 DEF TrayFields, QuitStopsAll, TrayFollows, Newest
<1>4. WritersDone'
  BY <1>1, <1>2 DEF WritersDone
<1>5. KeptFields' /\ ToldFields' /\ TaskFields' /\ DaysPast' /\ BeaconsAreMarked'
  BY <1>1, <1>2 DEF KeptFields, IsMarks, ToldFields, TaskFields, DaysPast, BeaconsAreMarked, Saved
<1>6. PingsAreMarked' /\ PingsApart' /\ BeaconsOnce'
  BY <1>1, <1>2 DEF PingsAreMarked, PingsApart, BeaconsOnce
<1>7. NoticesOnce' /\ DismissalHeld' /\ LastSaveHolds' /\ OwnedStopped'
  BY <1>1, <1>2 DEF NoticesOnce, DismissalHeld, LastSaveHolds, OwnedStopped, Saved
<1> QED BY <1>2, <1>3, <1>4, <1>5, <1>6, <1>7

(* The process goes on, without its timers' dwell, or ends. *)
LEMMA DwellsKept ==
    ASSUME AppInv, Dwells
    PROVE  AppInv'
<1> USE DEF AppInv, TrayInv
<1>1. /\ app' = [app EXCEPT !.dwelt = TRUE] /\ UNCHANGED <<kept, tasks, tray, told>>
  BY DEF Dwells
<1>2. /\ app'.up = app.up /\ app'.quit = app.quit /\ app'.stopped = app.stopped
      /\ app'.waits = app.waits /\ app'.writers = app.writers /\ app'.ok = app.ok
      /\ app'.handle = app.handle /\ app'.truth = app.truth /\ app'.pushed = app.pushed
      /\ app'.step = app.step /\ AppFields'
  BY <1>1 DEF AppFields
<1>3. TrayFields' /\ QuitStopsAll' /\ TrayFollows'
  BY <1>1, <1>2 DEF TrayFields, QuitStopsAll, TrayFollows, Newest
<1> QED BY <1>1, <1>2, <1>3, KeptSame

(* The last save puts everything in memory on disk. *)
LEMMA PersistLastKept ==
    ASSUME AppInv, PersistLast
    PROVE  AppInv'
<1> USE DEF AppInv, KeptInv, TrayInv
<1>1. /\ app.up /\ app.quit = "closing" /\ UNCHANGED <<tasks, tray, told>>
      /\ app' = [app EXCEPT !.quit = "persisted", !.ok = app.waits = {}]
      /\ kept' = [kept EXCEPT !.closed = TRUE, !.disk = kept.mem]
  BY DEF PersistLast, AppRunning
<1>2. /\ app'.up = app.up /\ app'.quit = "persisted" /\ app'.stopped = app.stopped
      /\ app'.waits = app.waits /\ app'.writers = app.writers /\ app'.ok = (app.waits = {})
      /\ app'.handle = app.handle /\ app'.truth = app.truth /\ app'.pushed = app.pushed
      /\ app'.step = app.step /\ AppFields'
  BY <1>1 DEF AppFields
<1>3. kept' = [mem |-> kept.mem, disk |-> kept.mem, closed |-> TRUE]
  BY <1>1 DEF KeptFields
<1>4. TrayFields' /\ QuitStopsAll' /\ TrayFollows'
  BY <1>1, <1>2 DEF TrayFields, QuitStopsAll, TrayFollows, Newest
<1>5. KeptFields' /\ ToldFields' /\ TaskFields'
  BY <1>1, <1>3 DEF KeptFields, IsMarks, ToldFields, TaskFields
<1>6. DaysPast' /\ PingsAreMarked' /\ BeaconsAreMarked' /\ PingsApart' /\ BeaconsOnce'
  BY <1>1, <1>2, <1>3 DEF DaysPast, PingsAreMarked, BeaconsAreMarked, PingsApart, BeaconsOnce, Saved
<1>7. NoticesOnce' /\ DismissalHeld' /\ LastSaveHolds'
  BY <1>1, <1>2, <1>3 DEF NoticesOnce, DismissalHeld, LastSaveHolds, Saved
<1>8. OwnedStopped' /\ WritersDone'
  BY <1>1, <1>2 DEF OwnedStopped, WritersDone, QuitStopsAll
<1> QED BY <1>2, <1>4, <1>5, <1>6, <1>7, <1>8

LEMMA ProcessExitsKept ==
    ASSUME AppInv, ProcessExits
    PROVE  AppInv'
<1> USE DEF AppInv, KeptInv, TrayInv
<1>1. /\ app.up /\ app.quit = "persisted" /\ UNCHANGED <<kept, tasks, tray, told>>
      /\ app' = [app EXCEPT !.up = FALSE]
  BY DEF ProcessExits, AppRunning
<1>2. /\ ~app'.up /\ app'.quit = app.quit /\ app'.stopped = app.stopped
      /\ app'.waits = app.waits /\ app'.writers = app.writers /\ app'.ok = app.ok
      /\ app'.handle = app.handle /\ app'.truth = app.truth /\ app'.pushed = app.pushed
      /\ app'.step = app.step /\ AppFields'
  BY <1>1 DEF AppFields
<1>3. TrayFields' /\ QuitStopsAll' /\ TrayFollows'
  BY <1>1, <1>2 DEF TrayFields, QuitStopsAll, TrayFollows, Newest
<1>4. KeptFields' /\ ToldFields' /\ TaskFields' /\ DaysPast' /\ PingsApart'
  BY <1>1 DEF KeptFields, IsMarks, ToldFields, TaskFields, DaysPast, PingsApart
<1>5. PingsAreMarked' /\ BeaconsAreMarked' /\ BeaconsOnce'
  BY <1>1, <1>2 DEF PingsAreMarked, BeaconsAreMarked, BeaconsOnce, LastSaveHolds, Saved
<1>6. NoticesOnce' /\ DismissalHeld' /\ LastSaveHolds' /\ OwnedStopped' /\ WritersDone'
  BY <1>1, <1>2 DEF NoticesOnce, DismissalHeld, LastSaveHolds, OwnedStopped, WritersDone, Saved
<1> QED BY <1>2, <1>3, <1>4, <1>5, <1>6

(* A crash loses what was not saved, and the ghosts say so. *)
LEMMA ProcessCrashesKept ==
    ASSUME AppInv, ProcessCrashes
    PROVE  AppInv'
<1> USE DEF AppInv, KeptInv, TrayInv
<1>1. /\ app.up /\ app.quit = "no" /\ UNCHANGED <<kept, tasks, tray>>
      /\ app' = [app EXCEPT !.up = FALSE]
  BY DEF ProcessCrashes, AppRunning
<1>2. /\ ~app'.up /\ app'.quit = app.quit /\ app'.stopped = app.stopped
      /\ app'.waits = app.waits /\ app'.writers = app.writers /\ app'.ok = app.ok
      /\ app'.handle = app.handle /\ app'.truth = app.truth /\ app'.pushed = app.pushed
      /\ app'.step = app.step /\ AppFields'
  BY <1>1 DEF AppFields
<1>3. TrayFields' /\ QuitStopsAll' /\ TrayFollows'
  BY <1>1, <1>2 DEF TrayFields, QuitStopsAll, TrayFollows, Newest
<1>4. PICK l : l = IF kept.disk.day # kept.mem.day THEN told.lost \cup {kept.mem.day} ELSE told.lost
  OBVIOUS
<1>5. PICK n : n = IF kept.mem.notified /\ ~kept.disk.notified THEN told.notices - 1 ELSE told.notices
  OBVIOUS
<1>6. told' = [today |-> told.today, beacons |-> told.beacons, lost |-> l,
               dismissed |-> kept.disk.dismissed, raced |-> told.raced, notices |-> n]
  <2>1. told' = [told EXCEPT !.lost = l, !.notices = n, !.dismissed = kept.disk.dismissed]
    BY <1>4, <1>5 DEF ProcessCrashes, ToldFields
  <2>2. told = [today |-> told.today, beacons |-> told.beacons, lost |-> told.lost,
                dismissed |-> told.dismissed, raced |-> told.raced, notices |-> told.notices]
    BY DEF ToldFields
  <2> QED BY ONLY <2>1, <2>2
<1>7. KeptFields' /\ ToldFields' /\ TaskFields'
  BY <1>1, <1>6 DEF KeptFields, IsMarks, ToldFields, TaskFields
<1>8. DaysPast' /\ PingsAreMarked' /\ PingsApart'
  BY <1>1, <1>2, <1>6 DEF DaysPast, PingsAreMarked, PingsApart
<1>9. BeaconsAreMarked' /\ BeaconsOnce'
  BY <1>1, <1>2, <1>4, <1>6 DEF BeaconsAreMarked, BeaconsOnce, Saved
<1>10. NoticesOnce' /\ DismissalHeld' /\ LastSaveHolds'
  BY <1>1, <1>2, <1>5, <1>6 DEF NoticesOnce, DismissalHeld, LastSaveHolds, Saved
<1>11. OwnedStopped' /\ WritersDone'
  BY <1>1, <1>2 DEF OwnedStopped, WritersDone
<1> QED BY <1>2, <1>3, <1>7, <1>8, <1>9, <1>10, <1>11

(* A process that begins has nothing under way and no sidecar. *)
LEMMA FreshTray ==
    ASSUME NEW run, NEW s \in AppSetups, app' = FreshApp(run, s), tray' = NoTray
    PROVE  /\ TrayInv' /\ app'.up /\ app'.quit = "no" /\ ~app'.stopped
<1>1. PICK v \in AppStates : v = CHOOSE x \in AppStates : TRUE
  BY AppAssumption
<1>2. app' = [run |-> run, setup |-> s, up |-> TRUE,
              step |-> IF s.tray THEN "webui" ELSE "started", quit |-> "no", stopped |-> FALSE,
              waits |-> {}, writers |-> {}, ok |-> TRUE, handle |-> FALSE, truth |-> v,
              pushed |-> 0, dwelt |-> FALSE, changes |-> 0]
  BY <1>1 DEF FreshApp
<1>3. PICK p \in {"webui", "started"} : p = IF s.tray THEN "webui" ELSE "started"
  OBVIOUS
<1>4. /\ app'.up /\ app'.quit = "no" /\ ~app'.stopped /\ ~app'.handle /\ app'.pushed = 0
      /\ AppFields'
  BY <1>2, <1>3 DEF AppFields
<1>5. /\ ~tray'.alive /\ ~tray'.writer /\ ~tray'.closed /\ tray'.st = "none" /\ tray'.writing = 0
      /\ TrayFields'
  BY DEF NoTray, TrayFields
<1> QED BY <1>4, <1>5 DEF TrayInv, QuitStopsAll, TrayFollows

LEMMA StartProcessKept ==
    ASSUME AppInv, StartProcess
    PROVE  AppInv'
<1> USE DEF AppInv, KeptInv
<1>1. /\ ~app.up /\ app' = FreshApp(app.run + 1, app.setup) /\ tasks' = {} /\ tray' = NoTray
      /\ kept' = [mem |-> kept.disk, disk |-> kept.disk, closed |-> FALSE] /\ UNCHANGED told
  BY DEF StartProcess
<1>2. TrayInv' /\ app'.up /\ app'.quit = "no" /\ ~app'.stopped
  BY <1>1, FreshTray DEF TrayInv, AppFields
<1>3. KeptFields' /\ ToldFields' /\ TaskFields'
  BY <1>1 DEF KeptFields, IsMarks, ToldFields, TaskFields
<1>4. DaysPast' /\ PingsAreMarked' /\ BeaconsAreMarked' /\ PingsApart' /\ BeaconsOnce'
  BY <1>1, <1>2 DEF DaysPast, PingsAreMarked, BeaconsAreMarked, PingsApart, BeaconsOnce, Saved
<1>5. NoticesOnce' /\ DismissalHeld' /\ LastSaveHolds' /\ OwnedStopped' /\ WritersDone'
  BY <1>1, <1>2 DEF NoticesOnce, DismissalHeld, LastSaveHolds, OwnedStopped, WritersDone, Saved
<1> QED BY <1>2, <1>3, <1>4, <1>5

LEMMA DayPassesKept ==
    ASSUME AppInv, DayPasses
    PROVE  AppInv'
<1> USE DEF AppInv, KeptInv
<1>1. /\ app.up /\ UNCHANGED <<app, tasks, tray>> /\ told.today < app.setup.days
      /\ told' = [told EXCEPT !.today = @ + 1]
  BY DEF DayPasses, AppRunning
<1>2. PICK c : kept' = [kept EXCEPT !.mem.cache = c]
  BY DEF DayPasses
<1>3. /\ kept' = [mem |-> kept'.mem, disk |-> kept.disk, closed |-> kept.closed]
      /\ kept'.mem = [day |-> kept.mem.day, dismissed |-> kept.mem.dismissed,
                      notified |-> kept.mem.notified, cache |-> c]
  BY <1>2 DEF KeptFields, IsMarks
<1>4. told.today \in 1 .. MaxDays /\ told.today + 1 \in 1 .. MaxDays
  <2>1. app.setup.days \in 1 .. MaxDays
    BY AppAssumption DEF TrayInv, AppFields
  <2>2. told.today \in 1 .. MaxDays
    BY DEF ToldFields
  <2> QED BY <1>1, <2>1, <2>2, AppAssumption
<1>5. told' = [today |-> told.today + 1, beacons |-> told.beacons, lost |-> told.lost,
               dismissed |-> told.dismissed, raced |-> told.raced, notices |-> told.notices]
  <2>1. told = [today |-> told.today, beacons |-> told.beacons, lost |-> told.lost,
                dismissed |-> told.dismissed, raced |-> told.raced, notices |-> told.notices]
    BY DEF ToldFields
  <2> QED BY ONLY <1>1, <2>1
<1>6. KeptFields' /\ TaskFields' /\ ToldFields'
  BY <1>1, <1>3, <1>4, <1>5 DEF KeptFields, IsMarks, TaskFields, ToldFields
<1>7. DaysPast' /\ PingsAreMarked'
  BY <1>1, <1>3, <1>4, <1>5, AppAssumption
     DEF DaysPast, PingsAreMarked, KeptFields, IsMarks, TaskFields
<1>8. BeaconsAreMarked' /\ PingsApart' /\ BeaconsOnce'
  BY <1>1, <1>3, <1>4, <1>5, AppAssumption DEF BeaconsAreMarked, PingsApart, BeaconsOnce, Saved
<1>9. NoticesOnce' /\ DismissalHeld' /\ LastSaveHolds' /\ OwnedStopped' /\ WritersDone'
  BY <1>1, <1>3, <1>5 DEF NoticesOnce, DismissalHeld, LastSaveHolds, OwnedStopped, WritersDone, Saved
<1> QED BY <1>1, <1>6, <1>7, <1>8, <1>9, TraySame

LEMMA AppInvInit ==
    ASSUME AppInit
    PROVE  AppInv
<1> USE DEF AppInv, KeptInv
<1>1. PICK s \in AppSetups : app = FreshApp(1, s)
  BY DEF AppInit
<1>2. PICK v \in AppStates : v = CHOOSE x \in AppStates : TRUE
  BY AppAssumption
<1>3. app = [run |-> 1, setup |-> s, up |-> TRUE,
             step |-> IF s.tray THEN "webui" ELSE "started", quit |-> "no", stopped |-> FALSE,
             waits |-> {}, writers |-> {}, ok |-> TRUE, handle |-> FALSE, truth |-> v,
             pushed |-> 0, dwelt |-> FALSE, changes |-> 0]
  BY <1>1, <1>2 DEF FreshApp
<1>4. PICK p \in {"webui", "started"} : p = IF s.tray THEN "webui" ELSE "started"
  OBVIOUS
<1>5. /\ app.up /\ app.quit = "no" /\ ~app.stopped /\ ~app.handle /\ app.pushed = 0
      /\ AppFields
  BY <1>3, <1>4 DEF AppFields
<1>6. /\ ~tray.alive /\ ~tray.writer /\ ~tray.closed /\ tray.st = "none" /\ tray.writing = 0
      /\ TrayFields
  BY DEF AppInit, NoTray, TrayFields
<1>7. TrayInv
  BY <1>5, <1>6 DEF TrayInv, QuitStopsAll, TrayFollows
<1>8. /\ tasks = {} /\ kept.disk = kept.mem /\ kept.mem.day = 0 /\ kept.mem.dismissed = 0
      /\ ~kept.mem.notified /\ KeptFields
  <2>1. kept = [mem |-> kept.mem, disk |-> kept.disk, closed |-> kept.closed]
    BY DEF AppInit
  <2>2. tasks = {} /\ kept.mem = NothingKept /\ kept.disk = NothingKept
    BY DEF AppInit
  <2>3. IsMarks(NothingKept)
    BY DEF NothingKept, IsMarks
  <2>4. NothingKept.day = 0 /\ NothingKept.dismissed = 0 /\ ~NothingKept.notified
    BY DEF NothingKept
  <2> QED BY <2>1, <2>2, <2>3, <2>4 DEF KeptFields
<1>9. /\ told.today = 1 /\ told.beacons = [d \in 1 .. MaxDays |-> 0] /\ told.dismissed = 0
      /\ told.notices = 0 /\ ToldFields
  BY AppAssumption DEF AppInit, ToldFields
<1>10. TaskFields /\ DaysPast /\ PingsAreMarked /\ BeaconsAreMarked /\ PingsApart /\ BeaconsOnce
  BY <1>8, <1>9 DEF TaskFields, DaysPast, PingsAreMarked, BeaconsAreMarked, PingsApart, BeaconsOnce
<1>11. NoticesOnce /\ DismissalHeld /\ LastSaveHolds /\ OwnedStopped /\ WritersDone
  BY <1>5, <1>8, <1>9 DEF NoticesOnce, DismissalHeld, LastSaveHolds, OwnedStopped, WritersDone, Saved
<1> QED BY <1>7, <1>8, <1>9, <1>10, <1>11

LEMMA AppInvKept ==
    ASSUME AppInv, [AppNext]_appVars
    PROVE  AppInv'
<1>1. CASE \E v \in AppStates : StateChanges(v)
  BY <1>1, StateChangesKept
<1>2. CASE TrayReady \/ TrayConnected \/ TrayOpened \/ TrayWrote \/ TrayWriteFails \/ TrayExits
  BY <1>2, TrayWorks
<1>3. CASE Dwells \/ StartPing \/ Dismiss \/ NotifySurvey
  BY <1>3, DwellsKept, StartPingKept, DismissKept, NotifySurveyKept
<1>4. CASE \E f \in BOOLEAN : StartCheck(f)
  BY <1>4, StartCheckKept
<1>5. CASE \E t \in tasks : ChildExits(t) \/ TaskMovesOn(t) \/ TaskEnds(t)
  BY <1>5, ChildExitsKept, TaskMovesOnKept, TaskEndsKept
<1>6. CASE SaveSettings \/ StartStep \/ RequestQuit \/ PersistLast
  BY <1>6, SaveSettingsKept, StartStepKept, RequestQuitKept, PersistLastKept
<1>7. CASE ProcessExits \/ ProcessCrashes \/ StartProcess \/ DayPasses
  BY <1>7, ProcessExitsKept, ProcessCrashesKept, StartProcessKept, DayPassesKept
<1>8. CASE \E o \in {"spawns", "tray", "writers"} : CloseSettles(o)
  BY <1>8, CloseSettlesKept
<1>9. CASE UNCHANGED appVars
  BY <1>9, KeptSame, TraySame DEF appVars, AppInv
<1> QED BY <1>1, <1>2, <1>3, <1>4, <1>5, <1>6, <1>7, <1>8, <1>9 DEF AppNext

(* Whatever awaits of the start a quit overtakes, whenever children end, settings are saved and
   processes crash or end and follow one another: one beacon goes out a day and one survey
   notice in all unless a crash lost its mark (runPing, notifyTick), a dismissed release stays
   dismissed unless a check was under way meanwhile (dismiss, check), an exit leaves no sidecar
   or owned child that was not told to go (quiesce, stopSpawns, TrayProcess.close), and the
   tray shows the current state (pushTrayState, TrayProcess.push). *)
THEOREM ProcessStaysTidy == AppSpec => []ProcessIsTidy
<1>1. AppInv => ProcessIsTidy
  <2> SUFFICES ASSUME AppInv PROVE ProcessIsTidy
    OBVIOUS
  <2> USE DEF AppInv, TrayInv, KeptInv
  <2>1. OnceOnly
    BY DEF OnceOnly, BeaconsOnce, NoticesOnce
  <2>2. DismissalKept
    BY DEF DismissalKept, DismissalHeld, Saved, AppRunning
  <2>3. NothingIsOrphaned
    BY DEF NothingIsOrphaned, QuitStopsAll, OwnedStopped, WritersDone, AppRunning
  <2>4. TrayShowsState
    BY AppAssumption DEF TrayShowsState, TrayFollows, TrayFields, AppFields, AppRunning, Newest
  <2> QED BY <2>1, <2>2, <2>3, <2>4 DEF ProcessIsTidy
<1> QED BY <1>1, AppInvInit, AppInvKept, PTL DEF AppSpec
=============================================================================
