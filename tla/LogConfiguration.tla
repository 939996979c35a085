--------------------------- MODULE LogConfiguration ---------------------------
(***************************************************************************)
(* How a logger of src/easylogging++.h comes to its configuration.  A      *)
(* Configurations is a list of settings, which are set one by one, all at  *)
(* once through the level Global, from another list, from a text, or to    *)
(* the defaults.  A logger keeps such a list and builds its                *)
(* TypedConfigurations from it: for each type of setting a map that holds  *)
(* the value of Global and only those of other levels that differ.  The    *)
(* file streams are shared by all loggers through logStreamsReference.     *)
(*                                                                         *)
(* The types of settings are ToFile, for those that are kept level by      *)
(* level (Enabled, ToStandardOutput, MaxLogFileSize, LogFlushThreshold are *)
(* treated alike), Filename, and PerformanceTracking, for those that do    *)
(* not depend on the level (MillisecondsWidth).  A stream is named by the  *)
(* file that it was opened for.                                            *)
(***************************************************************************)
EXTENDS Integers, Sequences, SequencesExt, TLC

CONSTANTS
  LevelList,      \* the levels in the order of forEachLevel
  Global,      \* Level::Global
  Unknown,     \* Level::Unknown
  Id,          \* the ids of loggers
  DefaultId,   \* kDefaultLoggerId
  Short,       \* an id of one character, which a configuration file cannot name
  File,        \* the names of files
  DefaultFile, \* kDefaultLogFile
  Bad,         \* the files that cannot be opened
  Null,        \* no logger, or a null stream
  MaxSteps     \* bound: the number of calls

ASSUME ConfigurationAssumption ==
  /\ LevelList \in Seq(ToSet(LevelList))
  /\ {Global, Unknown} \cap ToSet(LevelList) = {} /\ Global # Unknown
  /\ {DefaultId, Short} \subseteq Id /\ DefaultId # Short
  /\ DefaultFile \in File /\ Bad \subseteq File /\ Null \notin File \cup Id
  /\ MaxSteps \in Nat

Level == {Global} \cup ToSet(LevelList)
Type == {"ToFile", "Filename", "PerformanceTracking"}
Value(t) == IF t = "Filename" THEN File ELSE BOOLEAN
Default(t) == IF t = "Filename" THEN DefaultFile ELSE TRUE

VARIABLES
  defaults,  \* RegisteredLoggers::m_defaultConfigurations
  loggers,   \* the registered loggers: id -> [list, typed]
  streams,   \* m_logStreamsReference: the files opened so far -> their streams
  conf,      \* a Configurations of the program's own, or that of a text
  reader,    \* configureFromGlobal: [logger, level, text], the text being lines
             \* since the logger, and the level Null after them
  loop,      \* a loop over the loggers: [todo, settings]
  steps      \* calls made so far

confVars == <<defaults, loggers, streams, conf, reader, loop, steps>>

Idle == [logger |-> Null, level |-> Null, text |-> FALSE]
NoLoop == [todo |-> {}, settings |-> <<>>]
-----------------------------------------------------------------------------
(* Configurations *)

Matches(c, l, t) == {k \in DOMAIN c : c[k].level = l /\ c[k].type = t}

\* unsafeSet: there is one setting at most of a level and type, and a new one goes to
\* the end of the list.
UnsafeSet(c, l, t, v) ==
  IF Matches(c, l, t) = {} THEN Append(c, [level |-> l, type |-> t, value |-> v])
  ELSE [k \in DOMAIN c |-> IF k \in Matches(c, l, t) THEN [c[k] EXCEPT !.value = v] ELSE c[k]]

\* It is called for some levels in turn.
SetLevels(c, levels, t, v) ==
  LET d[k \in 0..Len(levels)] ==
        IF k = 0 THEN c ELSE UnsafeSet(d[k - 1], levels[k], t, v)
  IN d[Len(levels)]

\* Faulty variant of Set: Global is set after the levels it stands for.
Set_GlobalLast(c, l, t, v) ==
  SetLevels(c, IF l = Global THEN Append(LevelList, l) ELSE <<l>>, t, v)

\* set: a value for Global is one for all levels.
Set(c, l, t, v) == SetLevels(c, IF l = Global THEN <<l>> \o LevelList ELSE <<l>>, t, v)

SetDefault(c, t) == Set(c, Global, t, Default(t))

SetToDefault(c) ==
  SetDefault(SetDefault(SetDefault(c, "Filename"), "ToFile"), "PerformanceTracking")

\* unsafeSetIfNotExist: it asks for Level::Global only, and sets all levels.
SetIfNotExist(c, t) == IF Matches(c, Global, t) = {} THEN SetDefault(c, t) ELSE c

SetRemainingToDefault(c) ==
  SetIfNotExist(SetIfNotExist(SetIfNotExist(c, "Filename"), "ToFile"), "PerformanceTracking")

\* setFromBase: the settings of base one after the other
SetFromBase(c, base) ==
  LET d[k \in 0..Len(base)] ==
        IF k = 0 THEN c ELSE Set(d[k - 1], base[k].level, base[k].type, base[k].value)
  IN d[Len(base)]
-----------------------------------------------------------------------------
(* TypedConfigurations *)

Put(map, l, v) == [x \in DOMAIN map \cup {l} |-> IF x = l THEN v ELSE map[x]]

\* std::map::insert changes nothing at a key that is there.
InsertKey(map, l, v) == IF l \in DOMAIN map THEN map ELSE Put(map, l, v)

\* setValue: the first value goes to Global whatever its level, and none is
\* added that Global has already.
SetValue(map, l, v) ==
  IF DOMAIN map = {} THEN Put(map, Global, v)
  ELSE IF Global \in DOMAIN map /\ map[Global] = v THEN map
  ELSE Put(map, l, v)

\* Faulty variant of InsertFile: a new file is entered with the stream of Global.
InsertFile_OfGlobal(b, level, f) ==
  LET l == IF DOMAIN b.name = {} /\ DOMAIN b.stream = {} THEN Global ELSE level
      known == f \in DOMAIN b.streams
      got == IF known THEN b.streams[f] ELSE IF f \in Bad THEN Null ELSE f
      stream == InsertKey(b.stream, l, got)
  IN [b EXCEPT !.name = InsertKey(@, l, f),
               !.stream = stream,
               !.streams = IF known THEN @ ELSE InsertKey(@, f, stream[Global]),
               !.toFile = IF got = Null THEN SetValue(@, l, FALSE) ELSE @]

\* insertFile: when the stream is null, ToFile is set to false.
InsertFile(b, level, f) ==
  LET l == IF DOMAIN b.name = {} /\ DOMAIN b.stream = {} THEN Global ELSE level
      known == f \in DOMAIN b.streams
      got == IF known THEN b.streams[f] ELSE IF f \in Bad THEN Null ELSE f
      stream == InsertKey(b.stream, l, got)
  IN [name    |-> InsertKey(b.name, l, f),
      stream  |-> stream,
      streams |-> IF known THEN b.streams ELSE InsertKey(b.streams, f, stream[l]),
      toFile  |-> IF got = Null THEN SetValue(b.toFile, l, FALSE) ELSE b.toFile]

\* The first loop of build: MillisecondsWidth and PerformanceTracking are set for
\* Global, whatever the level.
BuildValue(m, s) ==
  CASE s.type = "ToFile" -> [m EXCEPT !.toFile = SetValue(@, s.level, s.value)]
    [] s.type = "PerformanceTracking" -> [m EXCEPT !.tracking = SetValue(@, Global, s.value)]
    [] s.type = "Filename" -> m

Values(c) ==
  LET m[k \in 0..Len(c)] ==
        IF k = 0 THEN [toFile |-> <<>>, tracking |-> <<>>] ELSE BuildValue(m[k - 1], c[k])
  IN m[Len(c)]

\* The second loop is for the names of files.
BuildFile(b, s) == IF s.type = "Filename" THEN InsertFile(b, s.level, s.value) ELSE b

Files(c, shared) ==
  LET b[k \in 0..Len(c)] ==
        IF k = 0 THEN [name |-> <<>>, stream |-> <<>>, streams |-> shared,
                       toFile |-> Values(c).toFile]
        ELSE BuildFile(b[k - 1], c[k])
  IN b[Len(c)]

\* The third loop, unsafeValidateFileRolling, truncates files that are over their
\* limit through the streams they have, and changes no map.
Build(c, shared) ==
  LET b == Files(c, shared) IN
  [logger |-> [list |-> c,
               typed |-> [name |-> b.name, stream |-> b.stream, toFile |-> b.toFile,
                          tracking |-> Values(c).tracking]],
   streams |-> b.streams]

\* getConfigByVal, getConfigByRef
Get(map, l) == IF l \in DOMAIN map THEN map[l] ELSE map[Global]
-----------------------------------------------------------------------------
(* Logger and RegisteredLoggers *)

\* Logger::configure of a logger that has the list c: it is built anew.
Configured(id, c) ==
  LET b == Build(c, streams) IN
  /\ loggers' = Put(loggers, id, b.logger)
  /\ streams' = b.streams

\* Storage::Storage registers the default logger, with the defaults.
ConfInit ==
  /\ defaults = SetToDefault(<<>>)
  /\ LET b == Build(defaults, <<>>) IN loggers = Put(<<>>, DefaultId, b.logger) /\ streams = b.streams
  /\ conf = <<>>
  /\ reader = Idle
  /\ loop = NoLoop
  /\ steps = 0

\* The program, or the reader of a file, is at work.
Turn(reading) == (reader # Idle) = reading /\ loop = NoLoop

\* It makes one more call, or reads one more line.
OneCall(reading) ==
  /\ Turn(reading)
  /\ steps < MaxSteps
  /\ steps' = steps + 1
-----------------------------------------------------------------------------
(* Calls of the program: a Configurations of its own *)

\* set, setGlobally (without Level::Global), clear, setToDefault,
\* setRemainingToDefault, setFromBase
Edit(c) ==
  /\ OneCall(FALSE)
  /\ conf' = c
  /\ UNCHANGED <<defaults, loggers, streams, reader, loop>>

EditConf ==
  \/ \E l \in Level, t \in Type : \E v \in Value(t) : Edit(Set(conf, l, t, v))
  \/ \E t \in Type : \E v \in Value(t) : Edit(SetLevels(conf, LevelList, t, v))
  \/ Edit(<<>>)
  \/ Edit(SetToDefault(conf))
  \/ Edit(SetRemainingToDefault(conf))
  \/ Edit(SetFromBase(conf, defaults))
-----------------------------------------------------------------------------
(* Calls of the program: Loggers *)

\* getLogger: RegisteredLoggers::get configures a new logger with the defaults.
GetLogger(id) ==
  /\ OneCall(FALSE)
  /\ id \notin DOMAIN loggers
  /\ Configured(id, SetFromBase(<<>>, defaults))
  /\ UNCHANGED <<defaults, conf, reader, loop>>

\* unregisterLogger: the default logger stays.
UnregisterLogger(id) ==
  /\ OneCall(FALSE)
  /\ id \in DOMAIN loggers \ {DefaultId}
  /\ loggers' = [k \in DOMAIN loggers \ {id} |-> loggers[k]]
  /\ UNCHANGED <<defaults, streams, conf, reader, loop>>

\* reconfigureLogger of some loggers, or reconfigureAllLoggers, which is a loop.
Reconfigure(ids, settings) ==
  /\ OneCall(FALSE)
  /\ loop' = [todo |-> ids, settings |-> settings]
  /\ UNCHANGED <<defaults, loggers, streams, conf, reader>>

\* The next logger of the loop
ReconfigureNext(id) ==
  /\ id \in loop.todo
  /\ Configured(id, SetFromBase(loggers[id].list, loop.settings))
  /\ loop' = IF loop.todo = {id} THEN NoLoop ELSE [loop EXCEPT !.todo = @ \ {id}]
  /\ UNCHANGED <<defaults, conf, reader, steps>>

\* setDefaultConfigurations(conf, existing); setApplicationArguments does so, with
\* existing set, when an argument names the default log file.
SetDefaultConfigurations(existing) ==
  /\ OneCall(FALSE)
  /\ defaults' = SetFromBase(defaults, conf)
  /\ loop' = IF existing THEN [todo |-> DOMAIN loggers, settings |-> conf] ELSE NoLoop
  /\ UNCHANGED <<loggers, streams, conf, reader>>
-----------------------------------------------------------------------------
(* Loggers::configureFromGlobal *)

OpenFile ==
  /\ Turn(FALSE)
  /\ reader' = [Idle EXCEPT !.level = Unknown]
  /\ conf' = <<>>
  /\ UNCHANGED <<defaults, loggers, streams, loop, steps>>

\* Before the next logger, or at the end of the file, the logger read last is
\* configured with the text since then.
Pending == reader.text /\ reader.logger # Null

EndOfSection ==
  /\ Turn(TRUE)
  /\ Pending
  /\ Configured(reader.logger, SetFromBase(loggers[reader.logger].list, conf))
  /\ reader' = [reader EXCEPT !.level = Null, !.text = FALSE]
  /\ UNCHANGED <<defaults, conf, loop, steps>>

\* "-- id": an id of one character does not count, an invalid one is no logger.
ReadLogger(id) ==
  /\ OneCall(TRUE)
  /\ ~Pending
  /\ IF id \in {Short, Null} \cup DOMAIN loggers THEN UNCHANGED <<loggers, streams>>
     ELSE Configured(id, SetFromBase(<<>>, defaults))
  /\ reader' = [logger |-> IF id = Short THEN reader.logger ELSE id,
                level |-> Unknown, text |-> FALSE]
  /\ conf' = <<>>
  /\ UNCHANGED <<defaults, loop>>

\* "* LEVEL:", or one that convertFromString does not know
ReadLevel(l) ==
  /\ OneCall(TRUE) /\ reader.level # Null
  /\ reader' = [reader EXCEPT !.level = l, !.text = TRUE]
  /\ UNCHANGED <<defaults, loggers, streams, conf, loop>>

\* "TYPE = value"; parseLine fails when the level is unknown.
ReadSetting(t, v) ==
  /\ OneCall(TRUE) /\ reader.level # Null
  /\ conf' = IF reader.level = Unknown THEN conf ELSE Set(conf, reader.level, t, v)
  /\ reader' = [reader EXCEPT !.text = TRUE]
  /\ UNCHANGED <<defaults, loggers, streams, loop>>

CloseFile ==
  /\ Turn(TRUE)
  /\ ~Pending
  /\ reader' = Idle
  /\ UNCHANGED <<defaults, loggers, streams, conf, loop, steps>>
-----------------------------------------------------------------------------
ConfNext ==
  \/ EditConf
  \/ \E id \in Id \ {Short} :
       \/ GetLogger(id) \/ UnregisterLogger(id)
       \/ id \in DOMAIN loggers /\ Reconfigure({id}, conf)
  \/ \E l \in Level, t \in Type : \E v \in Value(t) :
       Reconfigure(DOMAIN loggers, <<[level |-> l, type |-> t, value |-> v]>>)
  \/ \E existing \in BOOLEAN : SetDefaultConfigurations(existing)
  \/ \E id \in Id : ReconfigureNext(id)
  \/ OpenFile \/ EndOfSection \/ CloseFile
  \/ \E id \in Id \cup {Null} : ReadLogger(id)
  \/ \E l \in Level \cup {Unknown} : ReadLevel(l)
  \/ \E t \in Type : \E v \in Value(t) : ReadSetting(t, v)

ConfSpec == ConfInit /\ [][ConfNext]_confVars
-----------------------------------------------------------------------------
\* What a list says of a level.
Says(c, l, t) == c[CHOOSE k \in Matches(c, l, t) : TRUE].value

\* The maps b return what the list c says, for every level.
AsListed(c, b) ==
  \A l \in Level :
    /\ Get(b.name, l) = Says(c, l, "Filename")
    /\ Get(b.toFile, l) => Says(c, l, "ToFile")
    /\ Says(c, l, "ToFile") /\ (\A k \in DOMAIN b.stream : b.stream[k] # Null) =>
         Get(b.toFile, l)
    /\ Get(b.stream, l) = Null /\ Says(c, Global, "ToFile") => ~Get(b.toFile, l)

\* The getters of every logger return what its list says, for every level,
\* although values are left out of the maps and the first of a type goes to
\* Global: true as long as Global comes first in the list.  A file that cannot be
\* opened turns ToFile off as long as it is on for Global; where Global has it off,
\* setValue leaves a level alone that is on, contrary to the comment in build().
Faithful == \A id \in DOMAIN loggers : AsListed(loggers[id].list, loggers[id].typed)

\* All loggers and levels that name a file share one stream, which is that of the
\* file, and every file is opened once: two streams would overwrite each other.
OneStreamPerFile ==
  /\ \A f \in DOMAIN streams : streams[f] = IF f \in Bad THEN Null ELSE f
  /\ \A id \in DOMAIN loggers : \A l \in Level :
       LET b == loggers[id].typed IN
       Get(b.name, l) \in DOMAIN streams /\ Get(b.stream, l) = streams[Get(b.name, l)]
=============================================================================
