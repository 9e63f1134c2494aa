---------------------------- MODULE CoraAssembly ----------------------------
(***************************************************************************)
(* Pictures from chunks on the CORA child (cora/child-server.ts,           *)
(* cora/image-assembler.ts, cora/touch-strip-assembler.ts) and the sockets *)
(* that carry them (cora/server-base.ts, platform/tcp.ts).                 *)
(*                                                                         *)
(* A picture for a key or for the touch strip arrives in parts, parts of   *)
(* different pictures interleave, and a picture may never be finished.     *)
(* The assemblies of a connection share one byte budget, kept in order of  *)
(* the last touch: a new chunk evicts the least recently touched others, a *)
(* new assembly first drops the stale ones.  A newcomer's socket may       *)
(* replace a silent client whose last bytes are still on their way.        *)
(*                                                                         *)
(* Every chunk has one byte, so one eviction makes room for one chunk.     *)
(***************************************************************************)
EXTENDS Integers, Sequences, FiniteSets, SequencesExt, FiniteSetsExt

CONSTANTS
    KeySlots,       \* keys of the advertised grid
    StripSlots,     \* window ids the app uses for the strip
    StrayKey,       \* a key outside the advertised grid
    PartsOf,        \* slot -> parts of its pictures
    KeyCap,         \* MAX_IMAGE_ASSEMBLY_BYTES
    TotalCap,       \* MAX_TOTAL_ASSEMBLY_BYTES
    WindowCap,      \* MAX_WINDOW_ASSEMBLIES
    MaxInFlight,    \* chunks the app sends ahead of their ACK
    MaxConnects,    \* bound: connections
    MaxChunks       \* bound: chunks the app sends

ASSUME AssemblyAssumption ==
    /\ {KeyCap, TotalCap, WindowCap, MaxInFlight} \subseteq Nat \ {0}
    /\ StrayKey \notin KeySlots \cup StripSlots
    /\ KeySlots \cap StripSlots = {}

Slots == KeySlots \cup StripSlots \cup {StrayKey}
ImageSlots == KeySlots \cup StripSlots
Connections == 1..MaxConnects
NoConnection == 0

VARIABLES
    childClient,  \* the connection that is CoraServerBase.client
    pumps,        \* connection -> its socket: new, open, closing, closed, and chunks to come
    pages,        \* slot -> chunks of its unfinished picture (all maps of the child)
    windows,      \* the strip's map in insertion order
    budget,       \* AssemblyBudget: live in order of touch, total, which are stale
    picture,      \* the last picture emitted
    drawing,      \* the app's side: slot -> picture (0 or 1) and its next part
    spoilt,       \* slots whose picture in progress has lost a part
    chunksSent    \* bounded

asmVars == <<childClient, pumps, pages, windows, budget, picture, drawing, spoilt, chunksSent>>

NoPicture == [slot |-> StrayKey, chunks |-> << >>, spoilt |-> FALSE]
FreshDrawing == [s \in Slots |-> [img |-> 0, next |-> 1]]
EmptyPages == [s \in ImageSlots |-> << >>]
EmptyBudget == [live |-> << >>, total |-> 0, stale |-> {}]

AssemblyInit ==
    /\ childClient = NoConnection
    /\ pumps = [c \in Connections |-> [st |-> "new", inflight |-> << >>]]
    /\ pages = EmptyPages /\ windows = << >> /\ budget = EmptyBudget
    /\ picture = NoPicture /\ drawing = FreshDrawing /\ spoilt = {}
    /\ chunksSent = 0

-----------------------------------------------------------------------------
(* image-assembler.ts.  `a' is [pages, windows, budget, lost]: lost collects the slots
   whose unfinished picture was dropped. *)

Without(seq, x) == SelectSeq(seq, LAMBDA y : y # x)

(* discard() and the release() it makes; evict() is the same, from the budget's side. *)
Discard(a, slot) ==
    IF a.pages[slot] = << >> THEN a
    ELSE [pages |-> [a.pages EXCEPT ![slot] = << >>],
          windows |-> Without(a.windows, slot),
          budget |-> [live |-> Without(a.budget.live, slot),
                      total |-> a.budget.total - Len(a.pages[slot]),
                      stale |-> a.budget.stale \ {slot}],
          lost |-> a.lost \cup {slot}]

Drop(a, slot) == [Discard(a, slot) EXCEPT !.lost = @ \cup {slot}]

ExpireStale(a) == FoldSet(LAMBDA slot, b : Discard(b, slot), a, a.budget.stale)

(* A new strip assembly displaces the oldest window when there are WindowCap of them. *)
MakeRoomForWindow(a, slot) ==
    IF slot \in StripSlots /\ a.pages[slot] = << >> /\ Len(a.windows) >= WindowCap
    THEN Discard(a, Head(a.windows)) ELSE a

(* charge(): stale assemblies go first when this one is new, then the oldest others. *)
Charge(a, slot) ==
    LET isLive == slot \in ToSet(a.budget.live)
        b == IF isLive THEN a ELSE ExpireStale(a)
        c == [b EXCEPT !.budget = [live |-> Append(Without(@.live, slot), slot),
                                   total |-> @.total + 1, stale |-> @.stale \ {slot}]]
    IN  IF c.budget.total <= TotalCap THEN [ok |-> TRUE, a |-> c]
        ELSE IF Head(c.budget.live) # slot
        THEN [ok |-> TRUE, a |-> Discard(c, Head(c.budget.live))]
        ELSE [ok |-> FALSE,
              a |-> [c EXCEPT !.budget = [live |-> Without(@.live, slot), stale |-> @.stale,
                                          total |-> @.total - Len(c.pages[slot]) - 1]]]

(* accumulateChunk() *)
AccumulateChunk(a0, chunk) ==
    LET slot == chunk.slot
        a == MakeRoomForWindow(a0, slot)
        paid == Charge(a, slot)
        b == paid.a
    IN  IF Len(a.pages[slot]) + 1 > KeyCap THEN Drop(a, slot)
        ELSE IF ~paid.ok
        THEN [b EXCEPT !.pages[slot] = << >>, !.windows = Without(@, slot),
                       !.lost = @ \cup {slot}]
        ELSE [b EXCEPT !.pages[slot] = Append(@, chunk),
                       !.windows = IF slot \in StripSlots /\ slot \notin ToSet(@)
                                   THEN Append(@, slot) ELSE @]

Assembler == [pages |-> pages, windows |-> windows, budget |-> budget, lost |-> {}]
Assembled(a) ==
    /\ pages' = a.pages /\ windows' = a.windows /\ budget' = a.budget

ResetAssemblies == pages' = EmptyPages /\ windows' = << >> /\ budget' = EmptyBudget

(* handleOutputReport() for one chunk: a key outside the grid is ignored, a malformed
   chunk drops its picture, a last chunk that fits emits it. *)
HandleOutputReport(chunk) ==
    LET slot == chunk.slot
        first == spoilt \ (IF chunk.part = 1 THEN {slot} ELSE {})
        a == IF chunk.bad THEN Drop(Assembler, slot) ELSE AccumulateChunk(Assembler, chunk)
        done == chunk.last /\ ~chunk.bad /\ a.pages[slot] # << >>
        after == IF done THEN [Discard(a, slot) EXCEPT !.lost = a.lost] ELSE a
    IN  IF slot = StrayKey THEN UNCHANGED <<pages, windows, budget, picture, spoilt>>
        ELSE /\ Assembled(after)
             /\ spoilt' = first \cup after.lost
             /\ picture' = IF done
                           THEN [slot |-> slot, chunks |-> a.pages[slot],
                                 spoilt |-> slot \in first]
                           ELSE picture

-----------------------------------------------------------------------------
(* The app writes the next part of a picture (rarely a malformed one). *)
SendChunk(slot, bad) ==
    /\ childClient # NoConnection /\ pumps[childClient].st = "open"
    /\ Len(pumps[childClient].inflight) < MaxInFlight
    /\ LET d == drawing[slot]
           last == d.next = PartsOf[slot]
           chunk == [slot |-> slot, img |-> d.img, part |-> d.next, last |-> last,
                     bad |-> bad, from |-> childClient]
       IN  /\ pumps' = [pumps EXCEPT ![childClient].inflight = Append(@, chunk)]
           /\ drawing' = [drawing EXCEPT
                  ![slot] = IF last THEN [img |-> 1 - d.img, next |-> 1]
                            ELSE [img |-> d.img, next |-> d.next + 1]]
    /\ chunksSent < MaxChunks /\ chunksSent' = chunksSent + 1
    /\ UNCHANGED <<childClient, pages, windows, budget, picture, spoilt>>

(* Mutant: a read that settles after destroy() is handed on all the same. *)
PumpAfterDestroy(c) ==
    /\ pumps[c].inflight # << >>
    /\ pumps' = [pumps EXCEPT ![c].inflight = Tail(@)]
    /\ HandleOutputReport(Head(pumps[c].inflight))
    /\ UNCHANGED <<childClient, drawing, chunksSent>>

(* NodeLikeSocket._pump: a read that settles after destroy() is thrown away; any other
   goes to the server's reader, whoever its client is by now. *)
Pump(c) ==
    /\ pumps[c].inflight # << >>
    /\ IF pumps[c].st = "closing"
       THEN /\ pumps' = [pumps EXCEPT ![c].inflight = << >>]
            /\ UNCHANGED <<pages, windows, budget, picture, spoilt>>
       ELSE /\ pumps[c].st = "open"
            /\ pumps' = [pumps EXCEPT ![c].inflight = Tail(@)]
            /\ HandleOutputReport(Head(pumps[c].inflight))
    /\ UNCHANGED <<childClient, drawing, chunksSent>>

(* acceptConnection(): a silent client is destroyed and replaced. *)
AcceptChild(c) ==
    /\ pumps[c].st = "new" /\ \A d \in Connections : pumps[d].st = "new" => c <= d
    /\ pumps' = [d \in Connections |->
          CASE d = c -> [st |-> "open", inflight |-> << >>]
            [] d = childClient -> [pumps[d] EXCEPT !.st = "closing"]
            [] OTHER -> pumps[d]]
    /\ childClient' = c
    /\ ResetAssemblies /\ drawing' = FreshDrawing /\ spoilt' = {}
    /\ UNCHANGED <<picture, chunksSent>>

(* dropClient() after an overload, or the peer's FIN: client stays set until the close
   handler runs. *)
DropClient ==
    /\ childClient # NoConnection /\ pumps[childClient].st = "open"
    /\ pumps' = [pumps EXCEPT ![childClient].st = "closing"]
    /\ UNCHANGED <<childClient, pages, windows, budget, picture, drawing, spoilt, chunksSent>>

CloseHandler(c) ==
    /\ pumps[c].st = "closing"
    /\ pumps' = [pumps EXCEPT ![c].st = "closed", ![c].inflight = << >>]
    /\ IF childClient = c
       THEN childClient' = NoConnection /\ ResetAssemblies /\ spoilt' = {}
       ELSE UNCHANGED <<childClient, pages, windows, budget, spoilt>>
    /\ UNCHANGED <<picture, drawing, chunksSent>>

(* ASSEMBLY_STALE_MS pass without a chunk. *)
AssembliesGoStale ==
    /\ budget.live # << >>
    /\ budget' = [budget EXCEPT !.stale = ToSet(budget.live)]
    /\ UNCHANGED <<childClient, pumps, pages, windows, picture, drawing, spoilt, chunksSent>>

AssemblyNext ==
    \/ \E s \in Slots, b \in BOOLEAN : SendChunk(s, b)
    \/ \E c \in Connections : Pump(c) \/ AcceptChild(c) \/ CloseHandler(c)
    \/ DropClient
    \/ AssembliesGoStale

AssemblySpec == AssemblyInit /\ [][AssemblyNext]_asmVars

-----------------------------------------------------------------------------
(* The budget's books match the maps on every path a picture can leave by (finished,
   malformed, over a cap, evicted, stale, displaced, session over), so no assembly is
   leaked or counted twice and the caps hold (AssemblyBudget, discard(), evict()). *)
BudgetMatchesPages ==
    LET unfinished == {s \in ImageSlots : pages[s] # << >>}
    IN  /\ ToSet(budget.live) = unfinished /\ Len(budget.live) = Cardinality(unfinished)
        /\ budget.total = FoldSet(LAMBDA s, n : n + Len(pages[s]), 0, ImageSlots)
        /\ budget.total <= TotalCap
        /\ ToSet(windows) = unfinished \cap StripSlots /\ Len(windows) <= WindowCap

(* A picture reaches the panel as the app sent it: every part of one picture of the
   current session, in order, never mixed with a part of another picture or with late
   bytes of a replaced connection.  The exception is a picture that lost a part to a cap:
   its remaining parts are assembled as if they were a picture of their own.  And the
   budget knows what is unfinished. *)
PicturesAreWhole ==
    /\ BudgetMatchesPages
    /\ picture.chunks # << >> /\ ~picture.spoilt =>
          /\ Len(picture.chunks) = PartsOf[picture.slot]
          /\ \A i \in DOMAIN picture.chunks :
                /\ picture.chunks[i].part = i
                /\ picture.chunks[i].img = picture.chunks[1].img
                /\ picture.chunks[i].from = picture.chunks[1].from
    /\ \A s \in ImageSlots : \A i \in DOMAIN pages[s] : pages[s][i].from = childClient
=============================================================================
