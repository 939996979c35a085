------------------------------ MODULE LogFilters ------------------------------
(***************************************************************************)
(* Which statements get as far as a Writer (src/easylogging++.h): those    *)
(* that count their hits (LOG_EVERY_N, LOG_AFTER_N, LOG_N_TIMES), and the  *)
(* verbose ones (VLOG), which depend on one level, or on those of the      *)
(* modules their file belongs to.  VLOG_EVERY_N and the like are both, and *)
(* count only the hits that their level lets through.                      *)
(*                                                                         *)
(* One statement is followed: each has a counter of its own, and all calls *)
(* hold the lock of the registry they work on.  A text is a sequence of    *)
(* characters, as the names of modules are patterns.                       *)
(***************************************************************************)
EXTENDS Integers, Sequences, SequencesExt, TLC

CONSTANTS
  MaxLogPerCounter, \* kMaxLogPerCounter
  MaxLevel,         \* kMaxVerboseLevel
  Alphabet,         \* the characters in their order
  SuffixList,       \* the suffixes of setModules in their order
  Statements,       \* the statements tried: [kind, n, vlevel, file], the level
                    \* being -1 for LOG
  Levels,           \* the levels tried
  Texts,            \* the texts for setModules tried
  Arguments,        \* the command lines tried: sequences of [key, value], the
                    \* value being NoValue without '='
  NoValue,
  MaxHits,          \* bound on the hits
  MaxCalls          \* bound on the calls that change settings

Char == ToSet(Alphabet)
Kind == {"every", "after", "times"}

ASSUME FiltersAssumption ==
  /\ MaxLogPerCounter \in Nat /\ MaxLevel \in 0..9
  /\ \A s \in Statements : s.kind \in Kind /\ s.n \in Nat /\ s.file \in Seq(Char)
  /\ Levels \subseteq Int /\ MaxHits \in Nat /\ MaxCalls \in Nat

ASSUME TextAssumption ==
  /\ Alphabet \in Seq(Char)
  /\ \A j, k \in DOMAIN Alphabet : Alphabet[j] = Alphabet[k] => j = k
  /\ SuffixList \in Seq(Seq(Char)) /\ Texts \subseteq Seq(Char)
  /\ \A args \in Arguments :
       /\ DOMAIN args \subseteq Nat
       /\ \A k \in DOMAIN args : args[k].key \in {"-vmodule", "-VMODULE"} =>
            args[k].value = NoValue \/ args[k].value \in Seq(Char)

Flag == {"DisableVModules", "DisableVModulesExtensions",
         "AllowVerboseIfModuleNotSpecified"}

VARIABLES
  statement, \* the statement followed
  count,     \* HitCounter::m_hitCounts
  hits,      \* how often it was reached at a level that is allowed
  logged,    \* how often it came through
  level,     \* VRegistry::m_level
  modules,   \* VRegistry::m_modules: name -> level
  flags,     \* the flags of Flag that are set
  calls      \* calls made so far

counter == <<statement, count, hits, logged>>
vars == <<counter, level, modules, flags, calls>>

Init ==
  /\ statement \in Statements
  /\ count = 0 /\ hits = 0 /\ logged = 0
  /\ level = 0 /\ modules = <<>>
  /\ flags = {"AllowVerboseIfModuleNotSpecified"}
  /\ calls = 0
-----------------------------------------------------------------------------
(* Faulty variants of the definitions below, one slip each; the runs must    *)
(* reject them.                                                              *)

\* '*' stands for one character at least.
WildCardMatch_NotEmpty(str, pattern) ==
  LET from[at \in (1..Len(str) + 1) \X (1..Len(pattern) + 1)] ==
        LET i == at[1]
            j == at[2]
        IN
        IF j > Len(pattern) THEN i > Len(str)
        ELSE IF pattern[j] = "*"
        THEN i <= Len(str) /\ (from[<<i + 1, j + 1>>] \/ from[<<i + 1, j>>])
        ELSE /\ i <= Len(str)
             /\ pattern[j] \in {"?", str[i]}
             /\ from[<<i + 1, j + 1>>]
  IN from[<<1, 1>>]

\* The counter starts again from zero.
ValidateHitCounts_FromZero(c, n) == (IF c >= MaxLogPerCounter THEN 0 ELSE c) + 1
-----------------------------------------------------------------------------
(* VRegistry *)

Rank(c) == CHOOSE k \in DOMAIN Alphabet : Alphabet[k] = c

\* operator< of std::string
Before(a, b) ==
  \/ IsStrictPrefix(a, b)
  \/ \E k \in DOMAIN a \cap DOMAIN b :
       (\A j \in 1..k-1 : a[j] = b[j]) /\ Rank(a[k]) < Rank(b[k])

\* wildCardMatch from the places that its two pointers have reached
WildCardMatch(str, pattern) ==
  LET from[at \in (1..Len(str) + 1) \X (1..Len(pattern) + 1)] ==
        LET i == at[1]
            j == at[2]
        IN
        IF j > Len(pattern) THEN i > Len(str)
        ELSE IF pattern[j] = "*"
        THEN from[<<i, j + 1>>] \/ (i <= Len(str) /\ from[<<i + 1, j>>])
        ELSE /\ i <= Len(str)
             /\ pattern[j] \in {"?", str[i]}
             /\ from[<<i + 1, j + 1>>]
  IN from[<<1, 1>>]

\* allowed: the first module that matches in the order of the map decides.
Allowed(vlevel, file) ==
  LET match == {m \in DOMAIN modules : WildCardMatch(file, m)} IN
  IF modules = <<>> THEN vlevel <= level
  ELSE IF match = {} THEN "AllowVerboseIfModuleNotSpecified" \in flags
  ELSE vlevel <= modules[CHOOSE m \in match : \A o \in match \ {m} : Before(m, o)]

\* std::map::insert of some names with a level each: the first level counts.
Insert(map, entries) ==
  [m \in DOMAIN map \cup UNION {e.names : e \in ToSet(entries)} |->
     IF m \in DOMAIN map THEN map[m]
     ELSE LET given == {k \in DOMAIN entries : m \in entries[k].names} IN
          entries[CHOOSE k \in given : \A j \in given : k <= j].level]

Without(s, sfx) == IF IsSuffix(sfx, s) THEN SubSeq(s, 1, Len(s) - Len(sfx)) ELSE s

\* The lambdas insert and addSuffix: each suffix in turn takes the place of the one
\* before it.
Variants(name) ==
  LET v[k \in 0..Len(SuffixList)] ==
        IF k = 0 THEN name
        ELSE LET bare == IF k = 1 THEN name ELSE Without(v[k - 1], SuffixList[k - 1]) IN
             Without(bare, SuffixList[k]) \o SuffixList[k]
  IN IF "DisableVModulesExtensions" \in flags THEN {name}
     ELSE {v[k] : k \in DOMAIN SuffixList}

Digit(c) == Rank(c) - Rank("0")

\* What has been read is entered if there is a name and a level, and stays otherwise.
Enter(r) ==
  IF r.name = <<>> \/ r.level = -1 THEN r
  ELSE [r EXCEPT !.entries = Append(@, [names |-> Variants(r.name), level |-> r.level]),
                 !.name = <<>>, !.level = -1]

\* One character of the loop of setModules; of a level the last digit counts.
Read(r, c) ==
  CASE c = "=" -> [r EXCEPT !.isLevel = TRUE]
    [] c = "," -> [Enter(r) EXCEPT !.isLevel = FALSE]
    [] c \notin {"=", ","} /\ ~r.isLevel -> [r EXCEPT !.name = Append(@, c)]
    [] c \notin {"=", ","} /\ r.isLevel ->
         IF Digit(c) \in 0..9 THEN [r EXCEPT !.level = Digit(c)] ELSE r

\* The loop, and what is entered at the end of the text
Entries(text) ==
  LET read[k \in 0..Len(text)] ==
        IF k = 0 THEN [isLevel |-> FALSE, name |-> <<>>, level |-> -1, entries |-> <<>>]
        ELSE Read(read[k - 1], text[k])
  IN Enter(read[Len(text)]).entries

SetModules(text) == Insert(modules, Entries(text))

\* setLevel
Clamp(l) == IF l < 0 THEN 0 ELSE IF l > 9 THEN MaxLevel ELSE l
-----------------------------------------------------------------------------
(* Calls *)

Call ==
  /\ calls < MaxCalls
  /\ calls' = calls + 1
  /\ UNCHANGED counter

SetVerboseLevel(l) ==
  /\ Call
  /\ level' = Clamp(l)
  /\ UNCHANGED <<modules, flags>>

SetVModules(text) ==
  /\ Call
  /\ "DisableVModules" \notin flags
  /\ modules' = SetModules(text)
  /\ UNCHANGED <<level, flags>>

ClearVModules ==
  /\ Call
  /\ modules' = <<>>
  /\ UNCHANGED <<level, flags>>

\* addFlag, removeFlag
ChangeFlag(f) ==
  /\ Call
  /\ flags' = IF f \in flags THEN flags \ {f} ELSE flags \cup {f}
  /\ UNCHANGED <<level, modules>>

\* CommandLineArgs::setArgs: of a key with values the first one counts.
HasParam(args, key) == \E k \in DOMAIN args : args[k] = [key |-> key, value |-> NoValue]
HasParamWithValue(args, key) ==
  \E k \in DOMAIN args : args[k].key = key /\ args[k].value # NoValue
GetParamValue(args, key) ==
  LET given == {k \in DOMAIN args : args[k].key = key /\ args[k].value # NoValue} IN
  args[CHOOSE k \in given : \A j \in given : k <= j].value

\* setApplicationArguments and setFromArgs: the first kind of argument in this
\* order is the only one that is looked at.
SetFromArgs(args) ==
  LET has(key) == HasParamWithValue(args, key)
      get(key) == GetParamValue(args, key)
      enabled == "DisableVModules" \notin flags
  IN
  /\ Call
  /\ UNCHANGED flags
  /\ CASE \E key \in {"-v", "--verbose", "-V", "--VERBOSE"} : HasParam(args, key) ->
            level' = Clamp(MaxLevel) /\ UNCHANGED modules
       [] OTHER ->
            IF has("--v") THEN level' = Clamp(get("--v")) /\ UNCHANGED modules
            ELSE IF has("--V") THEN level' = Clamp(get("--V")) /\ UNCHANGED modules
            ELSE IF has("-vmodule") /\ enabled
                 THEN modules' = SetModules(get("-vmodule")) /\ UNCHANGED level
            ELSE IF has("-VMODULE") /\ enabled
                 THEN modules' = SetModules(get("-VMODULE")) /\ UNCHANGED level
            ELSE UNCHANGED <<level, modules>>
-----------------------------------------------------------------------------
(* The statement *)

\* HitCounter::validateHitCounts
ValidateHitCounts(c, n) ==
  (IF c >= MaxLogPerCounter THEN IF n >= 1 THEN MaxLogPerCounter % n ELSE 0 ELSE c) + 1

\* validateEveryN, validateAfterN, validateNTimes: the counter after the hit, and
\* whether it comes through.
Validated(kind, c, n) ==
  CASE kind = "every" ->
         LET d == ValidateHitCounts(c, n) IN [count |-> d, result |-> n >= 1 /\ d % n = 0]
    [] kind = "after" -> IF c >= n THEN [count |-> c, result |-> TRUE]
                         ELSE [count |-> c + 1, result |-> FALSE]
    [] kind = "times" -> [count |-> c + 1, result |-> c + 1 <= n]

\* The statement is reached, at a level that is allowed if it is a verbose one.
Reach ==
  LET v == Validated(statement.kind, count, statement.n) IN
  /\ hits < MaxHits
  /\ statement.vlevel = -1 \/ Allowed(statement.vlevel, statement.file)
  /\ hits' = hits + 1
  /\ count' = v.count
  /\ logged' = IF v.result THEN logged + 1 ELSE logged
  /\ UNCHANGED <<statement, level, modules, flags, calls>>
-----------------------------------------------------------------------------
Next ==
  \/ Reach
  \/ \E l \in Levels : SetVerboseLevel(l)
  \/ \E t \in Texts : SetVModules(t)
  \/ ClearVModules
  \/ \E f \in Flag : ChangeFlag(f)
  \/ \E args \in Arguments : SetFromArgs(args)

Spec == Init /\ [][Next]_vars
-----------------------------------------------------------------------------
Over(a, b) == IF a > b THEN a - b ELSE 0

\* A statement comes through every n hits, after n hits, or n times, though the
\* counter of the first starts again after MaxLogPerCounter hits.  For a larger n
\* it never does, or, when n is larger by one, at every hit from the n-th on.
Occasional ==
  LET n == statement.n IN
  logged = CASE statement.kind = "after" -> Over(hits, n)
             [] statement.kind = "times" -> hits - Over(hits, n)
             [] statement.kind = "every" ->
                  IF n = 0 \/ n > MaxLogPerCounter + 1 THEN 0
                  ELSE IF n = MaxLogPerCounter + 1 THEN Over(hits, MaxLogPerCounter)
                  ELSE hits \div n

\* The places of a string that each part of a pattern can lead to, from the first:
\* the string matches if its end is one for the whole pattern.
Matching(str, pattern) ==
  LET to[k \in 0..Len(pattern)] ==
        IF k = 0 THEN {0}
        ELSE IF pattern[k] = "*"
        THEN {j \in 0..Len(str) : \E i \in to[k - 1] : i <= j}
        ELSE {j \in 1..Len(str) : j - 1 \in to[k - 1] /\ pattern[k] \in {"?", str[j]}}
  IN Len(str) \in to[Len(pattern)]

\* The recursion of wildCardMatch, with its early returns, is no other match.
WildCards ==
  \A str \in UNION {[1..n -> {"a", "b"}] : n \in 0..4} :
    \A pattern \in UNION {[1..n -> {"a", "b", "?", "*"}] : n \in 0..4} :
      WildCardMatch(str, pattern) <=> Matching(str, pattern)

\* A file finds exactly the modules that it matches in this sense: they decide if a
\* level is allowed where they agree, and a flag does when there are none.
MatchesAsDefined ==
  /\ WildCards
  /\ \A file \in {s.file : s \in Statements} :
       LET match == {m \in DOMAIN modules : Matching(file, m)} IN
       \A l \in Levels :
         /\ match # {} /\ (\A m \in match : l <= modules[m]) => Allowed(l, file)
         /\ match # {} /\ (\A m \in match : l > modules[m]) => ~Allowed(l, file)
         /\ match = {} /\ modules # <<>> =>
              (Allowed(l, file) <=> "AllowVerboseIfModuleNotSpecified" \in flags)
=============================================================================
