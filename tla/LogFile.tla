------------------------------- MODULE LogFile -------------------------------
(***************************************************************************)
(* The log file (infra/log-file.ts, LogFileSink): lines wait in memory,    *)
(* one drain at a time appends them, a file that has grown too large is    *)
(* rotated away.  A write may be short or fail, a rename may fail, the     *)
(* process may crash and start again on the files it left.                 *)
(*                                                                         *)
(* Lines are numbered as they are logged; an item of a file is such a      *)
(* number, Header (the date line a process or a fresh file starts with) or *)
(* a negative number, which says how many lines were dropped there.        *)
(***************************************************************************)
EXTENDS Integers, Sequences, FiniteSets, SequencesExt

CONSTANTS
  LogRotateSize,   \* LOG_ROTATE_BYTES, in items
  LogPendingMax,   \* LOG_PENDING_MAX_BYTES, in lines
  MaxLogLines,     \* bound: lines logged
  MaxLogFaults     \* bound: failed opens, writes and renames, and crashes

ASSUME LogAssumption == LogRotateSize \in Nat \ {0} /\ LogPendingMax \in Nat \ {0}

VARIABLES
  sink,   \* the LogFileSink
  files,  \* deckbridge.log, .1.log and .2.log (LOG_FILES_KEPT = 3)
  logged  \* ghosts: lines so far, the first line of each process, has a rename failed;
          \* faults so far

logVars == <<sink, files, logged>>

Header == 0
NoDrain == [step |-> "none", items |-> << >>]

FreshSink ==
  [pending |-> << >>, dropped |-> 0, timer |-> FALSE, queued |-> FALSE, drain |-> NoDrain,
   handle |-> FALSE, size |-> 0, disabled |-> FALSE, header |-> TRUE, close |-> "open"]

LogInit ==
  /\ sink = FreshSink
  /\ files = << << >>, << >>, << >> >>
  /\ logged = [n |-> 0, starts |-> {1}, torn |-> FALSE, faults |-> 0]

LogFault == logged.faults < MaxLogFaults /\ logged' = [logged EXCEPT !.faults = @ + 1]

-----------------------------------------------------------------------------
(* Lines.                                                                  *)

\* flush(): the drain that waits behind the running one is shared
Flushed(s) == [s EXCEPT !.timer = FALSE, !.queued = TRUE]

\* Mutant: the oldest lines go without being counted
CappedSilently(s) ==
  IF Len(s.pending) > LogPendingMax /\ Len(s.pending) > 1
    THEN [s EXCEPT !.pending = Tail(@)] ELSE s

\* the oldest line goes when too much waits
Capped(s) ==
  IF Len(s.pending) > LogPendingMax /\ Len(s.pending) > 1
    THEN [s EXCEPT !.pending = Tail(@), !.dropped = @ + 1] ELSE s

\* write(): warnings and errors flush at once, the rest rides the timer
WriteLine(urgent) ==
  /\ sink.close = "open" /\ logged.n < MaxLogLines
  /\ logged' = [logged EXCEPT !.n = @ + 1]
  /\ LET s == Capped([sink EXCEPT !.pending = Append(@, logged.n + 1)])
     IN  sink' = IF sink.disabled THEN sink ELSE IF urgent THEN Flushed(s) ELSE [s EXCEPT !.timer = TRUE]
  /\ UNCHANGED files

LogTimer ==
  /\ sink.timer /\ sink' = Flushed(sink)
  /\ UNCHANGED <<files, logged>>

-----------------------------------------------------------------------------
(* drain(), one step per await.                                            *)

\* the queued flush runs: it takes every line that waits
DrainStarts ==
  /\ sink.queued /\ sink.drain = NoDrain
  /\ sink' = IF sink.disabled \/ sink.pending = << >> THEN [sink EXCEPT !.queued = FALSE]
             ELSE [sink EXCEPT !.queued = FALSE, !.pending = << >>, !.dropped = 0,
                     !.drain = [step |-> "open",
                                items |-> (IF sink.dropped > 0 THEN <<-sink.dropped>> ELSE << >>)
                                            \o sink.pending]]
  /\ UNCHANGED <<files, logged>>

\* ensureOpen(), and the date line before the first line of this file
DrainOpens ==
  /\ sink.drain.step = "open"
  /\ sink' = [sink EXCEPT !.handle = TRUE, !.header = FALSE,
                !.size = IF sink.handle THEN @ ELSE Len(files[1]),
                !.drain = [step |-> "write",
                           items |-> (IF sink.header THEN <<Header>> ELSE << >>) \o @.items]]
  /\ UNCHANGED <<files, logged>>

\* write() takes some of the bytes; when all are out the file may be due for rotation
DrainWrites(n) ==
  /\ sink.drain.step = "write" /\ n \in 1..Len(sink.drain.items)
  /\ files' = [files EXCEPT ![1] = @ \o SubSeq(sink.drain.items, 1, n)]
  /\ LET rest == SubSeq(sink.drain.items, n + 1, Len(sink.drain.items))
         size == sink.size + n
     IN  sink' = [sink EXCEPT !.size = size,
                    !.drain = IF rest # << >> THEN [step |-> "write", items |-> rest]
                              ELSE IF size >= LogRotateSize THEN [step |-> "rotate", items |-> << >>]
                              ELSE NoDrain]
  /\ UNCHANGED logged

\* the directory, the open or a write fails: the sink is off for good
DrainFails ==
  /\ sink.drain.step \in {"open", "write"} /\ LogFault
  /\ sink' = [sink EXCEPT !.disabled = TRUE, !.handle = FALSE, !.pending = << >>, !.drain = NoDrain]
  /\ UNCHANGED files

\* Mutant: the next file starts without a date line
RotatedUnmarked(s) == [s EXCEPT !.handle = FALSE, !.size = 0, !.drain = NoDrain]

Rotated(s) == [s EXCEPT !.handle = FALSE, !.size = 0, !.header = TRUE, !.drain = NoDrain]

\* rotate(): .1 becomes .2 and the active file .1
DrainRotates ==
  /\ sink.drain.step = "rotate"
  /\ files' = << << >>, files[1], files[2] >>
  /\ sink' = Rotated(sink)
  /\ UNCHANGED logged

\* ... where a remove or a rename fails, which nobody hears of: a target is gone or not,
\* and only what could be moved is
DrainRotatesPartly ==
  /\ sink.drain.step = "rotate" /\ logged.faults < MaxLogFaults
  /\ \E two \in {files[3], << >>} :
       \/ files' = << << >>, files[1], two >>                \* .1 was in the way and is replaced
       \/ \E one \in {files[2], << >>} : files' = <<files[1], one, two>>
       \/ files' = <<files[1], << >>, files[2] >>            \* the active file stays
  /\ sink' = Rotated(sink)
  /\ logged' = [logged EXCEPT !.faults = @ + 1, !.torn = TRUE]

-----------------------------------------------------------------------------
(* The end.                                                                *)

\* stopLogFile(): the logger lets go of the sink, close() flushes
StopLogFile ==
  /\ sink.close = "open"
  /\ sink' = [Flushed(sink) EXCEPT !.close = "draining"]
  /\ UNCHANGED <<files, logged>>

\* the flush is over: the handle is closed; a failure is what close() rejects with
SinkCloses ==
  /\ sink.close = "draining" /\ ~sink.queued /\ sink.drain = NoDrain
  /\ sink' = [sink EXCEPT !.handle = FALSE, !.close = IF sink.disabled THEN "failed" ELSE "closed"]
  /\ UNCHANGED <<files, logged>>

\* the process crashes, or exits after close(), and starts again
StartAgain ==
  /\ sink.close \in {"closed", "failed"} \/ logged.faults < MaxLogFaults
  /\ sink # FreshSink
  /\ logged' = [logged EXCEPT !.starts = @ \cup {logged.n + 1},
                              !.faults = IF sink.close \in {"closed", "failed"} THEN @ ELSE @ + 1]
  /\ sink' = FreshSink
  /\ UNCHANGED files

LogNext ==
  \/ \E u \in BOOLEAN : WriteLine(u)
  \/ LogTimer \/ DrainStarts \/ DrainOpens \/ DrainFails
  \/ \E n \in 1..(MaxLogLines + 2) : DrainWrites(n)
  \/ DrainRotates \/ DrainRotatesPartly
  \/ StopLogFile \/ SinkCloses \/ StartAgain

LogSpec == LogInit /\ [][LogNext]_logVars

-----------------------------------------------------------------------------
(* Properties.                                                             *)

\* Lines are in order, and where some are missing the item before the next one says how many:
\* a count of dropped lines, or the header of a process that started there.
Whole(s) ==
  LET before(j) == IF j > 1 /\ s[j - 1] < 0 THEN -s[j - 1] ELSE 0
      lines     == {i \in DOMAIN s : s[i] > 0}
      adjacent  == {p \in lines \X lines :
                      p[1] < p[2] /\ \A k \in lines : ~(p[1] < k /\ k < p[2])}
  IN  \A p \in adjacent :
        \/ s[p[2]] - before(p[2]) = s[p[1]] + 1
        \/ /\ s[p[2]] > s[p[1]]
           /\ s[p[2]] - before(p[2]) \in logged.starts
           /\ \E k \in p[1]..p[2] : s[k] = Header

\* The log can be trusted: every file is whole and starts with a date line, the files together
\* are whole unless a rename has failed, a line that waits has a flush coming, and a sink that
\* closed without an error has its last line on disk.
LogIsFaithful ==
  LET all == files[3] \o files[2] \o files[1]
      lines == SelectSeq(all, LAMBDA x : x > 0)
  IN  /\ \A f \in 1..3 : Whole(files[f]) /\ (files[f] # << >> => Head(files[f]) = Header)
      /\ ~logged.torn => Whole(all)
      /\ sink.pending # << >> => sink.timer \/ sink.queued
      /\ sink.close = "closed" /\ logged.n \notin {x - 1 : x \in logged.starts} =>
           lines # << >> /\ Last(lines) = logged.n
=============================================================================
