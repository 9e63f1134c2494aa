--------------------------- MODULE WorkerContract ---------------------------
(***************************************************************************)
(* What the main thread relies on of a USB worker thread: messages are     *)
(* answered in the order they arrive, one or several at a time, each       *)
(* exactly once, and none is left for ever.  HidWorkQueue's credits        *)
(* (workDone) and the host's open and close calls ('opened', 'closed')     *)
(* both rest on it.                                                        *)
(***************************************************************************)
EXTENDS Naturals, Sequences

CONSTANT Numbers  \* arrival numbers

VARIABLES
    backlog,  \* arrived and not answered, oldest first
    answered  \* answered, in the order of the answers

vars == <<backlog, answered>>

Elements(s) == {s[i] : i \in DOMAIN s}

Init == backlog = << >> /\ answered = << >>

Arrive(n) ==
    /\ n \notin Elements(backlog) \cup Elements(answered)
    /\ backlog' = Append(backlog, n)
    /\ UNCHANGED answered

AnswerFirst(k) ==
    /\ answered' = answered \o SubSeq(backlog, 1, k)
    /\ backlog' = SubSeq(backlog, k + 1, Len(backlog))

AnswerSome == \E k \in DOMAIN backlog : AnswerFirst(k)

Next == (\E n \in Numbers : Arrive(n)) \/ AnswerSome

(* Every arrival is answered in its turn, if the worker keeps running. *)
Spec == Init /\ [][Next]_vars /\ WF_vars(AnswerSome)
=============================================================================
