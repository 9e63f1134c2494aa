----------------------------- MODULE CoraFrames -----------------------------
(***************************************************************************)
(* The CORA frame reader (cora/frame.ts): TCP delivers the app's byte      *)
(* stream in arbitrary pieces, the reader cuts frames out of it and finds  *)
(* the next magic again when bytes were lost to the receive cap or a       *)
(* header declares an impossible length.                                   *)
(*                                                                         *)
(* Bytes are abstracted to what the reader tells apart: the magic is the   *)
(* two bytes C and R (so  a piece can split it), the header is the magic   *)
(* and a length, and a payload byte may look like the first byte of a      *)
(* magic.                                                                  *)
(***************************************************************************)
EXTENDS Integers, Sequences, SequencesExt

CONSTANTS
    FramePayloads,   \* payloads the app sends (sequences of bytes)
    MaxReceive,      \* MAX_RECEIVE_BUFFER
    MaxFrames,       \* bound: frames the app sends
    MaxPiece         \* largest piece TCP delivers

ByteC == 67
ByteR == 147
Magic == <<ByteC, ByteR>>
HeaderSize == 3
TooLong == MaxReceive - HeaderSize + 1

(* A read that finds the reader idle may carry a whole frame and more. *)
ASSUME FramesAssumption ==
    /\ MaxReceive \in Nat /\ MaxFrames \in Nat /\ MaxPiece \in Nat \ {0}
    /\ \A p \in FramePayloads : HeaderSize + Len(p) <= MaxReceive

VARIABLES
    sentFrames,   \* payloads of the frames the app has sent
    stream,       \* bytes on their way
    rxBuffer,     \* CoraFrameReader.buffer
    gotFrames,    \* payloads handed to handleCoraPacket
    overran,      \* the receive cap has cost bytes
    junk          \* a header with an impossible length has been sent

framesVars == <<sentFrames, stream, rxBuffer, gotFrames, overran, junk>>

FramesInit ==
    /\ sentFrames = << >> /\ stream = << >> /\ rxBuffer = << >> /\ gotFrames = << >>
    /\ overran = FALSE /\ junk = FALSE

EncodeCoraFrame(payload) == Magic \o <<Len(payload)>> \o payload

From(s, i) == SubSeq(s, i, Len(s))

(* append(): the cap is on what is buffered and what comes in; the oldest bytes go. *)
Append0(buffer, chunk) ==
    LET all == buffer \o chunk
    IN  From(all, IF Len(all) > MaxReceive THEN Len(all) - MaxReceive + 1 ELSE 1)

HasMagicAt(s, i) == i + 1 <= Len(s) /\ s[i] = ByteC /\ s[i + 1] = ByteR

(* Mutant: nothing is kept when no magic is found. *)
ResyncToMagicKeepingNothing(s) ==
    LET found == {i \in 2..Len(s) : HasMagicAt(s, i)}
    IN  IF found # {} THEN From(s, CHOOSE i \in found : \A j \in found : i <= j) ELSE << >>

(* Skip to the next magic, else keep only what may be the start of one. *)
ResyncToMagic(s) ==
    LET found == {i \in 2..Len(s) : HasMagicAt(s, i)}
    IN  IF found # {} THEN From(s, CHOOSE i \in found : \A j \in found : i <= j)
        ELSE From(s, Len(s))

DeclaredLength(s) == s[HeaderSize]

RECURSIVE DrainFrames(_, _)
DrainFrames(s, frames) ==
    IF Len(s) < HeaderSize THEN [buffer |-> s, frames |-> frames]
    ELSE IF ~HasMagicAt(s, 1)
    THEN LET t == ResyncToMagic(s)
         IN  IF HasMagicAt(t, 1) THEN DrainFrames(t, frames)
             ELSE [buffer |-> t, frames |-> frames]
    ELSE IF DeclaredLength(s) > MaxReceive - HeaderSize
    THEN DrainFrames(From(s, HeaderSize + 1), frames)
    ELSE IF Len(s) < HeaderSize + DeclaredLength(s)
    THEN [buffer |-> s, frames |-> frames]
    ELSE DrainFrames(From(s, HeaderSize + DeclaredLength(s) + 1),
                     Append(frames, SubSeq(s, HeaderSize + 1, HeaderSize + DeclaredLength(s))))

(* The app writes a frame. *)
SendFrame(payload) ==
    /\ Len(sentFrames) < MaxFrames
    /\ sentFrames' = Append(sentFrames, payload)
    /\ stream' = stream \o EncodeCoraFrame(payload)
    /\ UNCHANGED <<rxBuffer, gotFrames, overran, junk>>

(* What follows a header that is skipped; the last one ends like a magic begins. *)
JunkTails == {<< >>, <<1, 1>>, <<1, ByteC>>}

(* The app writes a header whose length is beyond the receive cap. *)
SendOversizedHeader(tail) ==
    /\ ~junk /\ Len(sentFrames) < MaxFrames
    /\ junk' = TRUE
    /\ stream' = stream \o Magic \o <<TooLong>> \o tail
    /\ UNCHANGED <<sentFrames, rxBuffer, gotFrames, overran>>

(* socket.on('data'): one piece of the stream. *)
ReceivePiece(n) ==
    /\ n <= Len(stream)
    /\ LET drained == DrainFrames(Append0(rxBuffer, SubSeq(stream, 1, n)), << >>)
       IN  /\ rxBuffer' = drained.buffer
           /\ gotFrames' = gotFrames \o drained.frames
    /\ stream' = From(stream, n + 1)
    /\ overran' = (overran \/ Len(rxBuffer) + n > MaxReceive)
    /\ UNCHANGED <<sentFrames, junk>>

FramesNext ==
    \/ \E p \in FramePayloads : SendFrame(p)
    \/ \E tail \in JunkTails : SendOversizedHeader(tail)
    \/ \E n \in 1..MaxPiece : ReceivePiece(n)

FramesSpec == FramesInit /\ [][FramesNext]_framesVars

-----------------------------------------------------------------------------
(* The receive cap holds.  However TCP cuts the stream, and whatever the payloads look
   like, the frames come out whole and in order, and none is still held back once its bytes
   have arrived, also after a header whose declared length had to be skipped
   (drainFrames(), resyncToMagic()). *)
FramesComeOutWhole ==
    /\ Len(rxBuffer) <= MaxReceive
    /\ ~overran => /\ IsPrefix(gotFrames, sentFrames)
                   /\ stream = << >> => gotFrames = sentFrames
=============================================================================
