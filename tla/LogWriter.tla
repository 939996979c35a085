------------------------------- MODULE LogWriter -------------------------------
(***************************************************************************)
(* How a line gets into the log file (src/easylogging++.h, built with      *)
(* ELPP_THREAD_SAFE).  A statement makes a Writer, which looks its logger  *)
(* up and keeps the logger's mutex while the pieces of the message go into *)
(* the one stream of the logger, until its destructor has dispatched it    *)
(* under the mutex of Storage.  A statement may name two loggers, or one   *)
(* that is not registered; a Fatal one aborts the program; Logger::info    *)
(* and the like come through another door; and a crash signal makes a      *)
(* Writer of its own, wherever its thread is.                              *)
(*                                                                         *)
(* All loggers write to one file, as they do by default.  A mutex that is  *)
(* unlocked is free whoever held it, as the platform's is.                 *)
(***************************************************************************)
EXTENDS Integers, Sequences, SequencesExt, FiniteSets

CONSTANTS
  Thread,
  Logger,      \* the registered loggers
  DefaultId,   \* kDefaultLoggerId
  Stranger,    \* an id that is not registered
  Settings,    \* the settings tried, see Setting below
  MaxWriters,  \* bound on the Writers of a thread, see Setting
  MaxFile,     \* bound on the limits of files and flush thresholds
  FormatSize,  \* what the format of a level and the end of the line add, in bytes
  Null

Level == {"Info", "Fatal", "Debug", "Warning"}

ASSUME WriterAssumption ==
  /\ DefaultId \in Logger /\ Stranger \notin Logger
  /\ Null \notin Thread /\ MaxWriters \in Nat /\ MaxFile \in Nat
  /\ Logger \cap {"Storage", "Registry"} = {}
  /\ FormatSize \in [Level -> Nat \ {0}]

\* multi: MultiLoggerSupport; abort: not DisableApplicationAbortOnFatalLog;
\* maxFile: MaxLogFileSize in bytes, or 0 without StrictLogFileSizeCheck;
\* threshold: LogFlushThreshold; quiet: the loggers that are not enabled; api:
\* the program calls Logger::info and the like; full: the disk may be full;
\* signals: a crash signal may come.  levels, ids and writers are bounds: the
\* levels of statements, the loggers they name, and when a thread has made so many
\* Writers that it begins no more.
Setting == [multi : BOOLEAN, abort : BOOLEAN, maxFile : 0..MaxFile,
            threshold : 0..MaxFile, quiet : SUBSET Logger, api : BOOLEAN, full : BOOLEAN,
            signals : BOOLEAN, levels : SUBSET {"Info", "Fatal"},
            ids : SUBSET (Logger \cup {Stranger}), writers : 0..MaxWriters]

ASSUME SettingsAssumption == Settings \subseteq Setting

Mutex == Logger \cup {"Storage", "Registry"}

VARIABLES
  settings,
  lock,     \* lock[m]: the thread that holds mutex m
  stack,    \* stack[t]: the Writers of thread t, the innermost last
  made,     \* made[t]: how many Writers it has made
  stream,   \* stream[l]: Logger::m_stream, a sequence of pieces
  log,      \* all lines ever written to the file
  start,    \* how many of them were rolled out of the file
  size,     \* the size of the file in bytes
  disk,     \* how many have been flushed
  count,    \* count[l][level]: m_unflushedCount
  failed,   \* the failbit of the file stream
  spoilt,   \* the loggers whose mutex was unlocked under another thread, or whose
            \* stream was left with a piece in it
  signal,   \* the crash signal: [thread, stuck], or Null
  aborted

sinks == <<log, start, size, disk, count, failed>>
vars == <<settings, lock, stack, made, stream, sinks, spoilt, signal, aborted>>

\* The two pieces of a message
Piece(w, k) == <<w.by, k>>
Message(by) == <<<<by, 1>>, <<by, 2>>>>

\* What a line takes in the file, a piece being one byte
Size(line) == FormatSize[line.level] + Len(line.text)

\* A Writer: i is the index of the logger it deals with, first firstDispatched,
\* saved logMessage, and text what is in its LogMessage.
NewWriter(t, kind, level, ids) ==
  [kind |-> kind, by |-> <<t, made[t] + 1>>, level |-> level, ids |-> ids, i |-> 1,
   at |-> IF kind = "api" THEN "scope" ELSE "get", proceed |-> FALSE,
   first |-> FALSE, saved |-> <<>>, text |-> <<>>]

Init ==
  /\ settings \in Settings
  /\ lock = [m \in Mutex |-> Null]
  /\ stack = [t \in Thread |-> <<>>]
  /\ made = [t \in Thread |-> 0]
  /\ stream = [l \in Logger |-> <<>>]
  /\ log = <<>> /\ start = 0 /\ size = 0 /\ disk = 0
  /\ count = [l \in Logger |-> [v \in Level |-> 0]]
  /\ failed = FALSE
  /\ spoilt = {}
  /\ signal = Null
  /\ aborted = FALSE

\* The innermost Writer of t, and the logger it deals with
Top(t) == Last(stack[t])
LoggerOf(w) == w.ids[w.i]

At(t, place) == ~aborted /\ stack[t] # <<>> /\ Top(t).at = place

Become(t, w) == stack' = [stack EXCEPT ![t] = Append(Front(@), w)]
Goto(t, place) == Become(t, [Top(t) EXCEPT !.at = place])
Push(t, below, kind, level, ids) ==
  /\ stack' = [stack EXCEPT ![t] = below \o <<NewWriter(t, kind, level, ids)>>]
  /\ made' = [made EXCEPT ![t] = @ + 1]

Acquire(t, m) == lock[m] = Null /\ lock' = [lock EXCEPT ![m] = t]
Release(ms) == lock' = [m \in Mutex |-> IF m \in ms THEN Null ELSE lock[m]]

\* A logger's mutex is unlocked, perhaps under another thread.
Unlock(t, l) ==
  /\ Release({l})
  /\ spoilt' = IF lock[l] \in {t, Null} THEN spoilt ELSE spoilt \cup {l}
-----------------------------------------------------------------------------
(* Faulty variants of the actions below, one slip each; the runs must reject *)
(* them.                                                                     *)

\* The logger's stream keeps the message that has been written.
Clear_KeepsText(t) ==
  LET w == Top(t) IN
  /\ At(t, "clear")
  /\ Unlock(t, LoggerOf(w))
  /\ IF w.proceed /\ w.level = "Fatal" /\ settings.abort
     THEN Push(t, Append(Front(stack[t]), [w EXCEPT !.at = "abort"]),
               "nested", "Warning", <<DefaultId>>)
     ELSE Goto(t, "next") /\ UNCHANGED made
  /\ UNCHANGED <<settings, stream, sinks, signal, aborted>>

\* A Fatal message's warning is written before the logger is released.
Clear_TooLate(t) ==
  LET w == Top(t) IN
  /\ At(t, "clear")
  /\ IF w.proceed /\ w.level = "Fatal" /\ settings.abort
     THEN /\ Push(t, Append(Front(stack[t]), [w EXCEPT !.at = "abort"]),
                  "nested", "Warning", <<DefaultId>>)
          /\ UNCHANGED <<lock, spoilt, stream>>
     ELSE /\ Goto(t, "next") /\ UNCHANGED made
          /\ Unlock(t, LoggerOf(w))
          /\ stream' = [stream EXCEPT ![LoggerOf(w)] = <<>>]
  /\ UNCHANGED <<settings, sinks, signal, aborted>>

\* The file is checked without the mutex of Storage.
Dispatch_Unlocked(t) ==
  /\ At(t, "dispatch")
  /\ IF settings.maxFile > 0 /\ (failed \/ size >= settings.maxFile)
     THEN start' = Len(log) /\ size' = 0 /\ disk' = Len(log) /\ failed' = FALSE
     ELSE UNCHANGED <<start, size, disk, failed>>
  /\ Goto(t, "write")
  /\ UNCHANGED <<settings, lock, made, stream, log, count, spoilt, signal, aborted>>

\* "++count > threshold"
FlushNeeded_Late(l, v) == count[l][v] + 1 > settings.threshold

\* Storage stays locked while the line about the unregistered logger is written.
Complain_Locked(t) ==
  /\ At(t, "complain")
  /\ Release({"Registry"})
  /\ Push(t, Append(Front(stack[t]), [Top(t) EXCEPT !.at = "next"]),
          "nested", "Debug", <<DefaultId>>)
  /\ UNCHANGED <<settings, stream, sinks, spoilt, signal, aborted>>
-----------------------------------------------------------------------------
(* The statement, and Writer::initializeLogger *)

\* LOG, CLOG with one logger or more, or Logger::log of some logger
Statement(t) ==
  /\ ~aborted
  /\ stack[t] = <<>>
  /\ made[t] < settings.writers
  /\ \E level \in settings.levels :
       \/ \E id \in settings.ids : Push(t, <<>>, "log", level, <<id>>)
       \/ /\ settings.multi
          /\ \E id1, id2 \in settings.ids :
               Push(t, <<>>, "log", level, <<id1, id2>>)
       \/ settings.api /\ \E l \in settings.ids \cap Logger : Push(t, <<>>, "api", level, <<l>>)
  /\ UNCHANGED <<settings, lock, stream, sinks, spoilt, signal, aborted>>

\* Logger::log, Logger::verbose: the ScopedLock
LockScope(t) ==
  /\ At(t, "scope")
  /\ Acquire(t, LoggerOf(Top(t)))
  /\ Goto(t, "piece1")
  /\ UNCHANGED <<settings, made, stream, sinks, spoilt, signal, aborted>>

\* RegisteredLoggers::get, which does not register a logger
LookUp(t) ==
  /\ At(t, "get")
  /\ Acquire(t, "Registry")
  /\ Goto(t, "got")
  /\ UNCHANGED <<settings, made, stream, sinks, spoilt, signal, aborted>>

LookedUp(t) ==
  /\ At(t, "got")
  /\ Release({"Registry"})
  /\ Goto(t, IF LoggerOf(Top(t)) \in Logger THEN "lock" ELSE "missing")
  /\ UNCHANGED <<settings, made, stream, sinks, spoilt, signal, aborted>>

\* m_logger == nullptr: has() asks for the default logger, with Storage locked.
LockMissing(t) ==
  \/ /\ At(t, "missing")
     /\ Acquire(t, "Storage")
     /\ Goto(t, "has")
     /\ UNCHANGED <<settings, made, stream, sinks, spoilt, signal, aborted>>
  \/ /\ At(t, "has")
     /\ Acquire(t, "Registry")
     /\ Goto(t, "complain")
     /\ UNCHANGED <<settings, made, stream, sinks, spoilt, signal, aborted>>

\* "Need to unlock it for next writer", which says that the logger is not
\* registered; nothing is written for it.
Complain(t) ==
  /\ At(t, "complain")
  /\ Release({"Storage", "Registry"})
  /\ Push(t, Append(Front(stack[t]), [Top(t) EXCEPT !.at = "next"]),
          "nested", "Debug", <<DefaultId>>)
  /\ UNCHANGED <<settings, stream, sinks, spoilt, signal, aborted>>

\* The logger is locked unless Logger::log has done so, and asked if it is enabled.
LockLogger(t) ==
  LET w == Top(t) IN
  /\ At(t, "lock")
  /\ IF w.kind = "api" THEN UNCHANGED lock ELSE Acquire(t, LoggerOf(w))
  /\ Become(t, [w EXCEPT !.proceed = LoggerOf(w) \notin settings.quiet,
                         !.at = IF w.kind = "api" THEN "piece2"
                                ELSE IF w.i = 1 THEN "piece1" ELSE "process"])
  /\ UNCHANGED <<settings, made, stream, sinks, spoilt, signal, aborted>>

\* Logger::verbose of a level that is not allowed makes no Writer.
NotAllowed(t) ==
  /\ At(t, "lock") /\ Top(t).kind = "api"
  /\ stream' = [stream EXCEPT ![LoggerOf(Top(t))] = <<>>]
  /\ Goto(t, "unlock")
  /\ UNCHANGED <<settings, lock, made, sinks, spoilt, signal, aborted>>

\* "Too many arguments provided": the format has fewer places than there are
\* arguments, and what was put into the stream stays there.
TooManyArguments(t) ==
  /\ At(t, "lock") /\ Top(t).kind = "api"
  /\ spoilt' = spoilt \cup {LoggerOf(Top(t))}
  /\ Goto(t, "unlock")
  /\ UNCHANGED <<settings, lock, made, stream, sinks, signal, aborted>>

\* operator<<: the message goes to the stream of the first logger piece by piece.
\* Logger::log_ puts the first one there before it makes its Writer.
PutPiece(t, k) ==
  LET w == Top(t) IN
  /\ At(t, IF k = 1 THEN "piece1" ELSE "piece2")
  /\ stream' = IF w.proceed \/ (w.kind = "api" /\ k = 1)
               THEN [stream EXCEPT ![LoggerOf(w)] = Append(@, Piece(w, k))] ELSE stream
  /\ Goto(t, IF k = 2 THEN "process" ELSE IF w.kind = "api" THEN "lock" ELSE "piece2")
  /\ UNCHANGED <<settings, lock, made, sinks, spoilt, signal, aborted>>
-----------------------------------------------------------------------------
(* The destructor: Writer::processDispatch *)

\* The LogMessage takes what is in the stream.  What the first logger that is
\* dispatched to has there is saved for the loggers after it.
Process(t) ==
  LET w == Top(t)
      l == LoggerOf(w)
      all == stream[l] \o w.saved
  IN
  /\ At(t, "process")
  /\ IF w.proceed
     THEN /\ stream' = [stream EXCEPT ![l] = all]
          /\ Become(t, [w EXCEPT !.first = TRUE, !.text = all, !.at = "dispatch",
                                 !.saved = IF w.first THEN @ ELSE all])
     ELSE Goto(t, "clear") /\ UNCHANGED stream
  /\ UNCHANGED <<settings, lock, made, sinks, spoilt, signal, aborted>>

\* LogDispatcher::dispatch with validateFileRolling: the file is truncated when it has
\* reached its limit, before the line is written and whatever its length.  A stream
\* that has failed says that its size is -1, which is more than any, and works again
\* when it is reopened.
Dispatch(t) ==
  /\ At(t, "dispatch")
  /\ Acquire(t, "Storage")
  /\ IF settings.maxFile > 0 /\ (failed \/ size >= settings.maxFile)
     THEN start' = Len(log) /\ size' = 0 /\ disk' = Len(log) /\ failed' = FALSE
     ELSE UNCHANGED <<start, size, disk, failed>>
  /\ Goto(t, "write")
  /\ UNCHANGED <<settings, made, stream, log, count, spoilt, signal, aborted>>

\* isFlushNeeded
FlushNeeded(l, v) == count[l][v] + 1 >= settings.threshold

\* DefaultLogDispatchCallback::dispatch: the stream takes the line or fails, and
\* is flushed if that is due, or fails then; once failed it takes nothing.
Write(t, taken, flushed) ==
  LET w == Top(t)
      l == LoggerOf(w)
      flush == FlushNeeded(l, w.level)
      line == [by |-> w.by, i |-> w.i, logger |-> l, level |-> w.level, text |-> w.text]
  IN
  /\ At(t, "write")
  /\ failed => ~taken
  /\ ~failed /\ ~(taken /\ flushed) => settings.full
  /\ failed' = ~(taken /\ flushed)
  /\ IF taken THEN log' = Append(log, line) /\ size' = size + Size(line)
     ELSE UNCHANGED <<log, size>>
  /\ disk' = IF taken /\ flushed /\ flush THEN Len(log') ELSE disk
  /\ count' = IF taken THEN [count EXCEPT ![l][w.level] = IF flush THEN 0 ELSE @ + 1]
              ELSE count
  /\ taken \/ flushed
  /\ flushed \/ flush
  /\ Goto(t, "release")
  /\ UNCHANGED <<settings, lock, made, stream, start, spoilt, signal, aborted>>

\* The end of dispatch
Dispatched(t) ==
  /\ At(t, "release")
  /\ Release({"Storage"})
  /\ Goto(t, "clear")
  /\ UNCHANGED <<settings, made, stream, sinks, spoilt, signal, aborted>>

\* The stream is emptied and the logger unlocked; then a Fatal message is followed
\* by a warning in the default logger, and the end.
Clear(t) ==
  LET w == Top(t) IN
  /\ At(t, "clear")
  /\ stream' = [stream EXCEPT ![LoggerOf(w)] = <<>>]
  /\ Unlock(t, LoggerOf(w))
  /\ IF w.proceed /\ w.level = "Fatal" /\ settings.abort
     THEN Push(t, Append(Front(stack[t]), [w EXCEPT !.at = "abort"]),
               "nested", "Warning", <<DefaultId>>)
     ELSE Goto(t, "next") /\ UNCHANGED made
  /\ UNCHANGED <<settings, sinks, signal, aborted>>

\* The next logger of the statement, or the end of the Writer
NextLogger(t) ==
  LET w == Top(t) IN
  /\ At(t, "next")
  /\ IF w.i < Len(w.ids)
     THEN Become(t, [w EXCEPT !.i = @ + 1, !.proceed = FALSE, !.at = "get"])
     ELSE CASE w.kind = "api" -> Goto(t, "unlock")
            [] w.kind = "crash" -> Goto(t, "abort")
            [] OTHER -> stack' = [stack EXCEPT ![t] = Front(@)]
  /\ UNCHANGED <<settings, lock, made, stream, sinks, spoilt, signal, aborted>>

\* The end of Logger::log: the ScopedLock unlocks what the Writer has unlocked.
UnlockScope(t) ==
  /\ At(t, "unlock")
  /\ Unlock(t, LoggerOf(Top(t)))
  /\ stack' = [stack EXCEPT ![t] = Front(@)]
  /\ UNCHANGED <<settings, made, stream, sinks, signal, aborted>>

\* utils::abort
Abort(t) ==
  /\ At(t, "abort")
  /\ aborted' = TRUE
  /\ UNCHANGED <<settings, lock, stack, made, stream, sinks, spoilt, signal>>

\* A crash signal: defaultCrashHandler writes a line to the default logger, and
\* aborts.  It can do neither with a mutex that its own thread has locked.
Crash(t) ==
  /\ ~aborted /\ settings.signals /\ signal = Null
  /\ signal' = [thread |-> t,
                stuck |-> \E m \in {DefaultId, "Storage", "Registry"} : lock[m] = t]
  /\ Push(t, stack[t], "crash", "Fatal", <<DefaultId>>)
  /\ UNCHANGED <<settings, lock, stream, sinks, spoilt, aborted>>
-----------------------------------------------------------------------------
ThreadStep(t) ==
  \/ LockScope(t) \/ LookUp(t) \/ LookedUp(t) \/ LockMissing(t) \/ Complain(t)
  \/ LockLogger(t) \/ NotAllowed(t) \/ TooManyArguments(t)
  \/ \E k \in 1..2 : PutPiece(t, k)
  \/ Process(t) \/ Dispatch(t) \/ Dispatched(t)
  \/ \E taken, flushed \in BOOLEAN : Write(t, taken, flushed)
  \/ Clear(t) \/ NextLogger(t) \/ UnlockScope(t) \/ Abort(t)

Next == \E t \in Thread : Statement(t) \/ ThreadStep(t) \/ Crash(t)

Spec == Init /\ [][Next]_vars

\* Every thread runs; the bound on statements lets each get every mutex at last.
FairSpec == Spec /\ \A t \in Thread : WF_vars(ThreadStep(t))
-----------------------------------------------------------------------------
\* Every line is the whole message of its statement and nothing else, once for
\* each logger, unless Logger::log has let two threads into one stream, by its
\* second unlock, or left a piece of another message there.  When the first
\* logger is not dispatched to, the second gets an empty line.
WholeLines ==
  spoilt = {} =>
    \A k \in DOMAIN log :
      LET first == \E j \in DOMAIN log : log[j].by = log[k].by /\ log[j].i = 1 IN
      /\ log[k].text \in {Message(log[k].by)} \cup (IF log[k].i = 1 THEN {} ELSE {<<>>})
      /\ first => log[k].text = Message(log[k].by)
      /\ \A j \in DOMAIN log :
           j # k => <<log[j].by, log[j].i>> # <<log[k].by, log[k].i>>

\* With the strict check a file outgrows its limit by its last line at most: what
\* was there before that line is below the limit, although threads and loggers take
\* turns at one file, and it is looked at before a line is written.
OneLineOver ==
  settings.maxFile > 0 /\ start < Len(log) => size - Size(Last(log)) < settings.maxFile

\* Between two dispatches no logger has more lines of a level unflushed than its
\* threshold allows, though loggers flush each other's file.
FlushedInTime ==
  lock["Storage"] = Null /\ ~failed =>
    \A l \in Logger, v \in Level :
      Cardinality({k \in disk+1..Len(log) : log[k].logger = l /\ log[k].level = v})
        < IF settings.threshold = 0 THEN 1 ELSE settings.threshold

\* Without a crash signal every statement comes to its end, and a Fatal one to
\* that of the program.
StatementsEnd ==
  \A t \in Thread : stack[t] # <<>> ~> (stack[t] = <<>> \/ aborted \/ signal # Null)

\* "writes log using 'default' logger [...] and aborts program": so it does, but
\* in a thread that was not itself in the middle of logging.
CrashEnds == (signal # Null /\ ~signal.stuck) ~> aborted
=============================================================================
