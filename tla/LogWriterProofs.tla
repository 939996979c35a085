--------------------------- MODULE LogWriterProofs ---------------------------
(***************************************************************************)
(* Proofs about LogWriter, for any threads, loggers and settings: as long  *)
(* as no logger is spoilt, the lines in the file are whole; a file grows   *)
(* beyond its limit by one line at most; and no more lines wait to be      *)
(* flushed than the threshold allows.                                      *)
(***************************************************************************)
EXTENDS LogWriter, FiniteSetTheorems, SequenceTheorems, TLAPS

-----------------------------------------------------------------------------
(* The invariant.  A frame of thread t is a Writer in its stack.             *)

Name == Thread \X Nat
Text == Seq(Name \X {1, 2})
Id == Logger \cup {Stranger}
Place == {"get", "got", "missing", "has", "complain", "scope", "lock", "piece1", "piece2",
          "process", "dispatch", "write", "release", "clear", "next", "unlock", "abort"}

Writer == [kind : {"log", "api", "nested", "crash"}, by : Name, level : Level,
           ids : Seq(Id), i : Nat, at : Place, proceed : BOOLEAN, first : BOOLEAN,
           saved : Text, text : Text]
Line == [by : Name, i : Nat \ {0}, logger : Logger, level : Level, text : Text]

Types ==
  /\ settings \in Setting
  /\ lock \in [Mutex -> Thread \cup {Null}]
  /\ stack \in [Thread -> Seq(Writer)]
  /\ made \in [Thread -> Nat]
  /\ stream \in [Logger -> Text]
  /\ log \in Seq(Line)
  /\ start \in Nat /\ size \in Nat /\ disk \in Nat
  /\ count \in [Logger -> [Level -> Nat]]
  /\ failed \in BOOLEAN
  /\ spoilt \subseteq Logger

\* The places at which a logger has been found
Found == {"lock", "piece1", "piece2", "process", "dispatch", "write", "release", "clear",
          "unlock"}

\* What is true of any Writer at the place where it is
Usual(w) ==
  /\ w.i \in 1..Len(w.ids)
  /\ w.at \in Found => LoggerOf(w) \in Logger
  /\ w.kind = "api" => Len(w.ids) = 1 /\ LoggerOf(w) \in Logger
  /\ w.at \in {"scope", "unlock"} => w.kind = "api"
  /\ w.at \in {"piece1", "piece2"} => w.i = 1
  /\ w.kind = "api" => w.at \notin {"get", "got", "missing", "has", "complain"}

\* Writers are numbered as they are made, and Logger::log is called outside of any.
Frames ==
  \A t \in Thread : \A k \in DOMAIN stack[t] :
    LET w == stack[t][k] IN
    /\ Usual(w)
    /\ w.by[1] = t /\ w.by[2] \in 1..made[t]
    /\ \A j \in 1..k-1 : stack[t][j].by[2] < w.by[2]
    /\ w.kind = "api" => k = 1

\* The mutexes that a Writer holds, where it is
HoldsStorage(w) == w.at \in {"has", "complain", "write", "release"}
HoldsLogger(w) ==
  \/ w.at \in {"piece1", "piece2", "process", "dispatch", "write", "release", "clear"}
  \/ w.at = "lock" /\ w.kind = "api"

StorageKept ==
  \A t \in Thread : \A k \in DOMAIN stack[t] : HoldsStorage(stack[t][k]) =>
    /\ lock["Storage"] = t
    /\ \A j \in DOMAIN stack[t] \ {k} : ~HoldsStorage(stack[t][j])

LoggersKept ==
  \A t \in Thread : \A k \in DOMAIN stack[t] : HoldsLogger(stack[t][k]) =>
    /\ lock[LoggerOf(stack[t][k])] = t
    /\ \A j \in DOMAIN stack[t] \ {k} :
         HoldsLogger(stack[t][j]) => LoggerOf(stack[t][j]) # LoggerOf(stack[t][k])

\* What is in the stream of a logger that Writer w holds
Fits(w, s) ==
  /\ w.at = "piece1" => s = <<>>
  /\ w.at = "lock" => s = <<Piece(w, 1)>>
  /\ w.at = "piece2" => s = IF w.kind = "api" \/ w.proceed THEN <<Piece(w, 1)>> ELSE <<>>
  /\ w.at = "process" /\ w.proceed => s = IF w.i = 1 THEN Message(w.by) ELSE <<>>

\* What a Writer keeps of its message
Keeps(w) ==
  /\ w.saved \in {<<>>, Message(w.by)}
  /\ w.i = 1 /\ w.at \notin {"dispatch", "write", "release", "clear", "next", "unlock", "abort"}
       => w.saved = <<>> /\ ~w.first
  /\ ~w.first => w.saved = <<>>
  /\ w.at \in {"dispatch", "write"} =>
       /\ w.text = w.saved
       /\ w.i = 1 => w.text = Message(w.by)

Streams ==
  /\ \A l \in Logger :
       (\A t \in Thread : \A k \in DOMAIN stack[t] :
          HoldsLogger(stack[t][k]) => LoggerOf(stack[t][k]) # l) => stream[l] = <<>>
  /\ \A t \in Thread : \A k \in DOMAIN stack[t] :
       LET w == stack[t][k] IN
       Keeps(w) /\ (HoldsLogger(w) => Fits(w, stream[LoggerOf(w)]))

\* A line that a Writer has written is that of a logger it has dealt with, and if it
\* is the first, the Writer has saved the message.
Wrote(w, line) ==
  line.by = w.by =>
    /\ \/ line.i < w.i
       \/ line.i = w.i /\ w.at \in {"release", "clear", "next", "unlock", "abort"}
    /\ line.i = 1 => w.saved = Message(w.by)

Lines ==
  \A k \in DOMAIN log :
    /\ log[k].by[2] <= made[log[k].by[1]]
    /\ \A t \in Thread : \A j \in DOMAIN stack[t] : Wrote(stack[t][j], log[k])

Whole == spoilt = {} => LoggersKept /\ Streams /\ Lines

\* What is not flushed is counted, unless the stream has failed.
Unflushed(l, v) == {k \in disk+1..Len(log) : log[k].logger = l /\ log[k].level = v}
Limit == IF settings.threshold = 0 THEN 1 ELSE settings.threshold

Counted ==
  /\ disk <= Len(log) /\ start <= Len(log)
  /\ settings.maxFile > 0 =>
       \A t \in Thread : \A k \in DOMAIN stack[t] :
         stack[t][k].at = "write" => size < settings.maxFile
  /\ OneLineOver
  /\ \A l \in Logger, v \in Level :
       /\ count[l][v] < Limit
       /\ ~failed => Cardinality(Unflushed(l, v)) <= count[l][v]

Inv == Types /\ Frames /\ StorageKept /\ Whole /\ WholeLines /\ Counted
-----------------------------------------------------------------------------
(* How a step changes the stacks                                             *)

\* A Writer just made
Starts(t, w) ==
  /\ w.by = <<t, made[t] + 1>> /\ made'[t] = made[t] + 1
  /\ w.i = 1 /\ w.at \in {"get", "scope"} /\ Usual(w)
  /\ ~w.first /\ w.saved = <<>>
  /\ w.kind = "api" => stack[t] = <<>>

\* The frame of thread t that is on top becomes w, unless it goes; and a new one may
\* come above it.
Changes(t, w) ==
  /\ stack' \in [Thread -> Seq(Writer)]
  /\ made' \in [Thread -> Nat] /\ \A u \in Thread : made[u] <= made'[u]
  /\ \A u \in Thread : \A k \in DOMAIN stack[u] :
       ~(u = t /\ k = Len(stack[t])) => k \in DOMAIN stack'[u] /\ stack'[u][k] = stack[u][k]
  /\ \A u \in Thread : \A k \in DOMAIN stack'[u] :
       \/ /\ k \in DOMAIN stack[u] /\ stack'[u][k] = stack[u][k]
          /\ ~(u = t /\ k = Len(stack[t]))
       \/ u = t /\ k = Len(stack[t]) /\ k \in DOMAIN stack[t] /\ stack'[u][k] = w
       \/ u = t /\ k = Len(stack[t]) + 1 /\ Starts(t, stack'[u][k])

LEMMA Assumed ==
  /\ DefaultId \in Logger /\ Stranger \notin Logger /\ Null \notin Thread
  /\ "Storage" \notin Logger /\ "Registry" \notin Logger
  /\ "Storage" \in Mutex /\ "Registry" \in Mutex /\ Logger \subseteq Mutex
  /\ MaxFile \in Nat /\ Settings \subseteq Setting
  BY WriterAssumption, SettingsAssumption DEF WriterAssumption, SettingsAssumption, Mutex

LEMMA OnTop ==
  ASSUME Types, NEW t \in Thread, stack[t] # <<>>
  PROVE  /\ Len(stack[t]) \in Nat \ {0} /\ Len(stack[t]) \in DOMAIN stack[t]
         /\ DOMAIN stack[t] = 1..Len(stack[t])
         /\ Top(t) = stack[t][Len(stack[t])] /\ Top(t) \in Writer
  BY DEF Types, Top, Last

\* The stack without its top, and with another one there
LEMMA Replaced ==
  ASSUME NEW S, NEW s \in Seq(S), s # <<>>, NEW w \in S
  PROVE  /\ Front(s) \in Seq(S) /\ Len(Front(s)) = Len(s) - 1
         /\ \A k \in 1..Len(s)-1 : Front(s)[k] = s[k]
         /\ Append(Front(s), w) \in Seq(S) /\ Len(Append(Front(s), w)) = Len(s)
         /\ \A k \in 1..Len(s)-1 : Append(Front(s), w)[k] = s[k]
         /\ Append(Front(s), w)[Len(s)] = w
  <1> DEFINE n == Len(s)
             f == Front(s)
  <1>1. n \in Nat \ {0} /\ \A k \in 1..n-1 : s[k] \in S
    BY EmptySeq, ElementOfSeq
  <1> HIDE DEF n
  <1>2. /\ SubSeq(s, 1, n - 1) \in Seq(S)
        /\ Len(SubSeq(s, 1, n - 1)) = IF 1 <= n - 1 THEN n - 1 - 1 + 1 ELSE 0
        /\ \A k \in 1..n-1-1+1 : SubSeq(s, 1, n - 1)[k] = s[1+k-1]
    BY <1>1, SubSeqProperties
  <1>3. f = SubSeq(s, 1, n - 1)
    BY DEF Front, n
  <1> HIDE DEF f
  <1>4. f \in Seq(S) /\ Len(f) = n - 1 /\ (\A k \in 1..n-1 : f[k] = s[k])
    BY <1>1, <1>2, <1>3
  <1>5. Append(f, w) \in Seq(S) /\ Len(Append(f, w)) = n
        /\ (\A k \in 1..n-1 : Append(f, w)[k] = s[k])
        /\ Append(f, w)[n] = w
    BY <1>1, <1>4
  <1> QED
    BY <1>4, <1>5 DEF f, n

\* A stack with one more on top
LEMMA Extended ==
  ASSUME NEW S, NEW s \in Seq(S), NEW e \in S
  PROVE  /\ s \o <<e>> \in Seq(S) /\ Len(s \o <<e>>) = Len(s) + 1
         /\ \A k \in 1..Len(s) : (s \o <<e>>)[k] = s[k]
         /\ (s \o <<e>>)[Len(s) + 1] = e
  <1>1. <<e>> \in Seq(S) /\ Len(<<e>>) = 1 /\ <<e>>[1] = e /\ Len(s) \in Nat
    OBVIOUS
  <1>2. /\ s \o <<e>> \in Seq(S) /\ Len(s \o <<e>>) = Len(s) + Len(<<e>>)
        /\ \A k \in 1..Len(s) + Len(<<e>>) :
             (s \o <<e>>)[k] = IF k <= Len(s) THEN s[k] ELSE <<e>>[k - Len(s)]
    BY <1>1, ConcatProperties
  <1> QED
    BY <1>1, <1>2

\* How the stack of one thread becomes s.
LEMMA StackOf ==
  ASSUME Types, NEW t \in Thread, NEW w, NEW s \in Seq(Writer), NEW n \in Nat,
         n = Len(stack[t]), stack' = [stack EXCEPT ![t] = s],
         \A k \in 1..n-1 : k \in DOMAIN s /\ s[k] = stack[t][k],
         \A k \in DOMAIN s : \/ k \in 1..n-1
                             \/ k = n /\ n > 0 /\ s[k] = w
                             \/ k = n + 1 /\ Starts(t, s[k]),
         made' \in [Thread -> Nat], \A u \in Thread : made[u] <= made'[u]
  PROVE  Changes(t, w)
  <1>1. stack \in [Thread -> Seq(Writer)]
    BY DEF Types
  <1>2. stack' \in [Thread -> Seq(Writer)] /\ stack'[t] = s
        /\ \A u \in Thread \ {t} : stack'[u] = stack[u]
    BY <1>1
  <1>3. DOMAIN stack[t] = 1..n
    BY <1>1
  <1>4. ASSUME NEW u \in Thread, NEW k \in DOMAIN stack[u], ~(u = t /\ k = Len(stack[t]))
        PROVE  k \in DOMAIN stack'[u] /\ stack'[u][k] = stack[u][k]
    <2>1. CASE u # t
      BY <1>2, <2>1
    <2>2. CASE u = t
      <3>1. k \in 1..n-1
        BY <1>3, <1>4, <2>2
      <3> QED
        BY <1>2, <2>2, <3>1
    <2> QED
      BY <2>1, <2>2
  <1>5. ASSUME NEW u \in Thread, NEW k \in DOMAIN stack'[u]
        PROVE  \/ /\ k \in DOMAIN stack[u] /\ stack'[u][k] = stack[u][k]
                  /\ ~(u = t /\ k = Len(stack[t]))
               \/ u = t /\ k = Len(stack[t]) /\ k \in DOMAIN stack[t] /\ stack'[u][k] = w
               \/ u = t /\ k = Len(stack[t]) + 1 /\ Starts(t, stack'[u][k])
    <2>1. CASE u # t
      BY <1>2, <1>5, <2>1
    <2>2. CASE u = t
      <3>1. k \in DOMAIN s
        BY <1>2, <1>5, <2>2
      <3>2. CASE k \in 1..n-1
        BY <1>2, <1>3, <2>2, <3>2
      <3>3. CASE k = n /\ n > 0 /\ s[k] = w
        BY <1>2, <1>3, <2>2, <3>3
      <3>4. CASE k = n + 1 /\ Starts(t, s[k])
        BY <1>2, <2>2, <3>4
      <3> QED
        BY <3>1, <3>2, <3>3, <3>4
    <2> QED
      BY <2>1, <2>2
  <1> QED
    BY <1>2, <1>4, <1>5 DEF Changes

LEMMA Becomes ==
  ASSUME Types, NEW t \in Thread, stack[t] # <<>>, NEW w \in Writer, Become(t, w),
         made' = made
  PROVE  Changes(t, w) /\ Len(stack[t]) \in DOMAIN stack'[t]
  <1>1. /\ stack \in [Thread -> Seq(Writer)] /\ made \in [Thread -> Nat]
        /\ stack' = [stack EXCEPT ![t] = Append(Front(stack[t]), w)]
    BY DEF Types, Become
  <1> DEFINE s == Append(Front(stack[t]), w)
             n == Len(stack[t])
  <1>2. s \in Seq(Writer) /\ Len(s) = n /\ s[n] = w
        /\ \A k \in 1..n-1 : s[k] = stack[t][k]
    BY <1>1, Replaced
  <1>3. stack' = [stack EXCEPT ![t] = s]
    BY <1>1
  <1>4. n \in Nat \ {0}
    BY OnTop
  <1> HIDE DEF s, n
  <1>5. DOMAIN s = 1..n
    BY <1>2
  <1>6. \A k \in 1..n-1 : k \in DOMAIN s
    BY <1>4, <1>5
  <1>7. \A k \in DOMAIN s : k \in 1..n-1 \/ (k = n /\ n > 0 /\ s[k] = w)
    BY <1>2, <1>4, <1>5
  <1>8. made' \in [Thread -> Nat] /\ \A u \in Thread : made[u] <= made'[u]
    BY <1>1
  <1>9. n \in DOMAIN stack'[t]
    BY <1>1, <1>3, <1>4, <1>5
  <1>10. Changes(t, w)
    BY <1>2, <1>3, <1>4, <1>6, <1>7, <1>8, StackOf DEF n
  <1> QED
    BY <1>9, <1>10 DEF n

LEMMA Pops ==
  ASSUME Types, NEW t \in Thread, stack[t] # <<>>, made' = made,
         stack' = [stack EXCEPT ![t] = Front(@)]
  PROVE  Changes(t, Top(t))
  <1>1. stack \in [Thread -> Seq(Writer)] /\ made \in [Thread -> Nat]
    BY DEF Types
  <1> DEFINE s == Front(stack[t])
             n == Len(stack[t])
  <1>2. s \in Seq(Writer) /\ Len(s) = n - 1 /\ \A k \in 1..n-1 : s[k] = stack[t][k]
    BY <1>1, Replaced, OnTop
  <1>3. stack' = [stack EXCEPT ![t] = s]
    OBVIOUS
  <1>4. n \in Nat \ {0}
    BY OnTop
  <1> HIDE DEF s, n
  <1>5. DOMAIN s = 1..n-1
    BY <1>2, <1>4
  <1>6. made' \in [Thread -> Nat] /\ \A u \in Thread : made[u] <= made'[u]
    BY <1>1
  <1>7. \A k \in 1..n-1 : k \in DOMAIN s /\ s[k] = stack[t][k]
    BY <1>2, <1>5
  <1>8. \A k \in DOMAIN s : k \in 1..n-1
    BY <1>5
  <1>9. n = Len(stack[t])
    BY DEF n
  <1> QED
    BY <1>2, <1>3, <1>4, <1>6, <1>7, <1>8, <1>9, StackOf

\* A new Writer comes on top of a stack that is the old one but for its top.
LEMMA Pushes ==
  ASSUME Types, NEW t \in Thread, NEW w, NEW below \in Seq(Writer),
         Len(below) = Len(stack[t]),
         \A k \in 1..Len(stack[t])-1 : below[k] = stack[t][k],
         stack[t] # <<>> => below[Len(stack[t])] = w,
         NEW kind \in {"log", "api", "nested", "crash"}, NEW level \in Level,
         NEW ids \in Seq(Id), Len(ids) > 0,
         kind = "api" => stack[t] = <<>> /\ Len(ids) = 1 /\ ids[1] \in Logger,
         Push(t, below, kind, level, ids)
  PROVE  Changes(t, w) /\ (stack[t] # <<>> => Len(stack[t]) \in DOMAIN stack'[t])
  <1>1. /\ stack \in [Thread -> Seq(Writer)] /\ made \in [Thread -> Nat]
        /\ stack' = [stack EXCEPT ![t] = below \o <<NewWriter(t, kind, level, ids)>>]
        /\ made' = [made EXCEPT ![t] = @ + 1]
    BY DEF Types, Push
  <1> DEFINE new == NewWriter(t, kind, level, ids)
             s == below \o <<new>>
             n == Len(stack[t])
  <1>2. new \in Writer
    <2>1. <<t, made[t] + 1>> \in Name
      BY <1>1 DEF Name
    <2>2. <<>> \in Text
      BY DEF Text
    <2> QED
      BY <2>1, <2>2 DEF NewWriter, Writer, Place
  <1>3. /\ new.by = <<t, made[t] + 1>> /\ new.i = 1 /\ new.at \in {"get", "scope"}
        /\ ~new.first /\ new.saved = <<>> /\ new.kind = kind /\ new.ids = ids
        /\ new.at = "scope" <=> kind = "api"
    BY DEF NewWriter
  <1>4. stack' = [stack EXCEPT ![t] = s]
    BY <1>1
  <1> HIDE DEF new
  <1>5. n \in Nat /\ (stack[t] = <<>> <=> n = 0)
    BY <1>1, <1>2
  <1>6. s \in Seq(Writer) /\ Len(s) = n + 1 /\ s[n + 1] = new
        /\ \A k \in 1..n : s[k] = below[k]
    BY <1>2, Extended
  <1> HIDE DEF s
  <1>9. n > 0 => s[n] = w
    <2>1. n > 0 => below[n] = w
      BY <1>5
    <2> HIDE DEF n
    <2>2. n > 0 => n \in 1..n
      BY <1>5
    <2> QED
      BY <1>6, <2>1, <2>2
  <1> HIDE DEF n
  <1>7. DOMAIN s = 1..n+1
    BY <1>5, <1>6
  <1>8. ASSUME NEW k \in 1..n-1 PROVE k \in DOMAIN s /\ s[k] = stack[t][k]
    <2>1. k \in 1..n /\ k \in 1..n+1
      BY <1>5
    <2>2. below[k] = stack[t][k]
      BY DEF n
    <2> QED
      BY <1>6, <1>7, <2>1, <2>2
  <1>10. made' \in [Thread -> Nat] /\ (\A u \in Thread : made[u] <= made'[u])
        /\ made'[t] = made[t] + 1
    BY <1>1
  <1>11. Usual(new)
    BY <1>3 DEF Usual, LoggerOf, Found
  <1>12. Starts(t, new)
    BY <1>3, <1>10, <1>11 DEF Starts
  <1>13. ASSUME NEW k \in DOMAIN s
         PROVE  k \in 1..n-1 \/ (k = n /\ n > 0 /\ s[k] = w) \/ (k = n + 1 /\ Starts(t, s[k]))
    <2>1. k \in 1..n-1 \/ (k = n /\ n > 0) \/ k = n + 1
      BY <1>5, <1>7
    <2> QED
      BY <1>6, <1>9, <1>12, <2>1
  <1>14. n > 0 => n \in DOMAIN stack'[t]
    BY <1>1, <1>4, <1>5, <1>7
  <1>15. Changes(t, w)
    BY <1>4, <1>5, <1>6, <1>8, <1>10, <1>13, StackOf DEF n
  <1> QED
    BY <1>5, <1>14, <1>15 DEF n
-----------------------------------------------------------------------------
(* What each part of the invariant asks of a step that changes the top of the *)
(* stack of t to w                                                           *)

SameWriter(t, w) ==
  stack[t] # <<>> => w.by = Top(t).by /\ w.kind = Top(t).kind /\ Usual(w)

StorageFollows(t, w) ==
  \/ /\ lock'["Storage"] = lock["Storage"]
     /\ stack[t] # <<>> /\ HoldsStorage(w) => HoldsStorage(Top(t))
  \/ lock["Storage"] = Null /\ lock'["Storage"] = t
  \/ stack[t] # <<>> /\ HoldsStorage(Top(t)) /\ ~HoldsStorage(w)

\* Only the top of t may hold logger l.
OnlyTop(t, l) ==
  \A u \in Thread : \A k \in DOMAIN stack[u] :
    HoldsLogger(stack[u][k]) /\ LoggerOf(stack[u][k]) = l => u = t /\ k = Len(stack[t])

Holds(w, l) == HoldsLogger(w) /\ LoggerOf(w) = l

LoggersFollow(t, w) ==
  /\ stack[t] # <<>> /\ HoldsLogger(w) =>
       /\ lock'[LoggerOf(w)] = t
       /\ Holds(Top(t), LoggerOf(w)) \/ lock[LoggerOf(w)] = Null
  /\ \A l \in Logger :
       \/ lock'[l] = lock[l]
       \/ lock[l] = Null
       \/ stack[t] # <<>> /\ OnlyTop(t, l) /\ ~Holds(w, l)

StreamsFollow(t, w) ==
  /\ stack[t] # <<>> =>
       /\ Keeps(w)
       /\ HoldsLogger(w) => /\ Fits(w, stream'[LoggerOf(w)])
                            /\ Len(stack[t]) \in DOMAIN stack'[t]
  /\ \A l \in Logger :
       \/ stream'[l] = stream[l] /\ (stack[t] # <<>> /\ Holds(Top(t), l) => Holds(w, l))
       \/ stack[t] # <<>> /\ Holds(Top(t), l) /\ (stream'[l] = <<>> \/ Holds(w, l))

LinesFollow(t, w) ==
  stack[t] # <<>> => \A k \in DOMAIN log : Wrote(Top(t), log[k]) => Wrote(w, log[k])

\* The numbers of the Writers stay in order.
LEMMA FramesStep ==
  ASSUME Types, Frames, NEW t \in Thread, NEW w, Changes(t, w), SameWriter(t, w)
  PROVE  Frames'
  <1> DEFINE n == Len(stack[t])
  <1>1. stack \in [Thread -> Seq(Writer)] /\ stack' \in [Thread -> Seq(Writer)]
        /\ made \in [Thread -> Nat] /\ made' \in [Thread -> Nat]
        /\ \A u \in Thread : made[u] <= made'[u]
    BY DEF Types, Changes
  <1>2. \A u \in Thread : \A k \in DOMAIN stack'[u] :
          \/ k \in DOMAIN stack[u] /\ stack'[u][k] = stack[u][k]
          \/ u = t /\ k = n /\ k \in DOMAIN stack[t] /\ stack'[u][k] = w
          \/ u = t /\ k = n + 1 /\ Starts(t, stack'[u][k])
    BY DEF Changes
  <1>3. n \in DOMAIN stack[t] => stack[t] # <<>> /\ Top(t) = stack[t][n]
    BY <1>1 DEF Top, Last
  <1> HIDE DEF n
  <1>4. ASSUME NEW u \in Thread, NEW k \in DOMAIN stack'[u], k \in DOMAIN stack[u]
        PROVE  /\ stack'[u][k].by = stack[u][k].by /\ stack'[u][k].kind = stack[u][k].kind
               /\ Usual(stack'[u][k])
    <2>1. CASE stack'[u][k] = stack[u][k]
      BY <1>4, <2>1 DEF Frames
    <2>2. CASE u = t /\ k = n /\ stack'[u][k] = w
      BY <1>3, <1>4, <2>2 DEF SameWriter
    <2>3. CASE k = n + 1 /\ u = t
      <3>1. DOMAIN stack[t] = 1..n /\ n \in Nat
        BY <1>1 DEF n
      <3> QED
        BY <1>4, <2>3, <3>1
    <2> QED
      BY <1>2, <1>4, <2>1, <2>2, <2>3
  <1>5. ASSUME NEW u \in Thread, NEW k \in DOMAIN stack'[u], k \notin DOMAIN stack[u]
        PROVE  u = t /\ k = n + 1 /\ Starts(t, stack'[u][k])
    BY <1>2, <1>5
  <1>6. ASSUME NEW u \in Thread, NEW k \in DOMAIN stack'[u], NEW j \in 1..k-1
        PROVE  j \in DOMAIN stack'[u] /\ j \in DOMAIN stack[u]
    <2>1. /\ DOMAIN stack'[u] = 1..Len(stack'[u]) /\ Len(stack'[u]) \in Nat
          /\ DOMAIN stack[u] = 1..Len(stack[u]) /\ Len(stack[u]) \in Nat
      BY <1>1
    <2>2. j \in DOMAIN stack'[u]
      BY <2>1
    <2>3. CASE k \in DOMAIN stack[u]
      BY <2>1, <2>2, <2>3
    <2>4. CASE k \notin DOMAIN stack[u]
      <3>1. u = t /\ k = n + 1
        BY <1>5, <2>4
      <3> QED
        BY <2>1, <2>2, <3>1 DEF n
    <2> QED
      BY <2>2, <2>3, <2>4
  <1>7. ASSUME NEW u \in Thread, NEW k \in DOMAIN stack'[u]
        PROVE  /\ Usual(stack'[u][k])
               /\ stack'[u][k].by[1] = u /\ stack'[u][k].by[2] \in 1..made'[u]
               /\ \A j \in 1..k-1 : stack'[u][j].by[2] < stack'[u][k].by[2]
               /\ stack'[u][k].kind = "api" => k = 1
    <2>1. CASE k \in DOMAIN stack[u]
      <3>1. /\ stack[u][k].by[1] = u /\ stack[u][k].by[2] \in 1..made[u]
            /\ \A j \in 1..k-1 : stack[u][j].by[2] < stack[u][k].by[2]
            /\ stack[u][k].kind = "api" => k = 1
        BY <2>1 DEF Frames
      <3>2. \A j \in 1..k-1 : stack'[u][j].by = stack[u][j].by
        BY <1>4, <1>6
      <3>3. stack[u][k].by[2] \in 1..made'[u]
        BY <1>1, <3>1
      <3> QED
        BY <1>4, <2>1, <3>1, <3>2, <3>3
    <2>2. CASE k \notin DOMAIN stack[u]
      <3>1. u = t /\ k = n + 1 /\ Starts(t, stack'[u][k])
        BY <1>5, <2>2
      <3>2. \A j \in 1..k-1 : stack'[u][j].by = stack[u][j].by /\ stack[u][j].by[2] \in 1..made[u]
        BY <1>4, <1>6 DEF Frames
      <3>3. /\ stack'[u][k].by[1] = u /\ stack'[u][k].by[2] = made[u] + 1
            /\ made'[u] = made[u] + 1
            /\ Usual(stack'[u][k]) /\ (stack'[u][k].kind = "api" => stack[t] = <<>>)
        BY <3>1 DEF Starts
      <3>4. stack[t] = <<>> => k = 1
        BY <3>1 DEF n
      <3>5. made[u] \in Nat
        BY <1>1
      <3>6. \A j \in 1..k-1 : stack'[u][j].by[2] < stack'[u][k].by[2]
        BY <3>2, <3>3, <3>5
      <3>7. stack'[u][k].by[2] \in 1..made'[u]
        BY <3>3, <3>5
      <3> QED
        BY <3>3, <3>4, <3>6, <3>7
    <2> QED
      BY <2>1, <2>2
  <1> QED
    BY <1>7 DEF Frames

LEMMA StorageStep ==
  ASSUME Types, StorageKept, NEW t \in Thread, NEW w, Changes(t, w), StorageFollows(t, w)
  PROVE  StorageKept'
  <1> DEFINE n == Len(stack[t])
  <1>1. \A u \in Thread : \A k \in DOMAIN stack'[u] :
          \/ /\ k \in DOMAIN stack[u] /\ stack'[u][k] = stack[u][k]
             /\ ~(u = t /\ k = n)
          \/ u = t /\ k = n /\ k \in DOMAIN stack[t] /\ stack'[u][k] = w
          \/ ~HoldsStorage(stack'[u][k])
    BY DEF Changes, Starts, HoldsStorage
  <1>2. n \in DOMAIN stack[t] => stack[t] # <<>> /\ Top(t) = stack[t][n]
    BY DEF Types, Top, Last
  <1>3. Null \notin Thread
    BY Assumed
  <1> HIDE DEF n
  <1>4. ASSUME NEW u \in Thread, NEW k \in DOMAIN stack[u], HoldsStorage(stack[u][k])
        PROVE  lock["Storage"] = u
               /\ \A j \in DOMAIN stack[u] \ {k} : ~HoldsStorage(stack[u][j])
    BY <1>4 DEF StorageKept
  <1>5. CASE lock'["Storage"] = lock["Storage"]
             /\ (stack[t] # <<>> /\ HoldsStorage(w) => HoldsStorage(Top(t)))
    <2>1. ASSUME NEW u \in Thread, NEW k \in DOMAIN stack'[u], HoldsStorage(stack'[u][k])
          PROVE  k \in DOMAIN stack[u] /\ HoldsStorage(stack[u][k])
      BY <1>1, <1>2, <1>5, <2>1
    <2> QED
      BY <1>4, <1>5, <2>1 DEF StorageKept
  <1>6. CASE lock["Storage"] = Null /\ lock'["Storage"] = t
    <2>1. \A u \in Thread : \A k \in DOMAIN stack[u] : ~HoldsStorage(stack[u][k])
      BY <1>3, <1>4, <1>6
    <2>2. \A u \in Thread : \A k \in DOMAIN stack'[u] :
            HoldsStorage(stack'[u][k]) => u = t /\ k = n
      BY <1>1, <2>1
    <2> QED
      BY <1>6, <2>2 DEF StorageKept
  <1>7. CASE stack[t] # <<>> /\ HoldsStorage(Top(t)) /\ ~HoldsStorage(w)
    <2>1. n \in DOMAIN stack[t] /\ Top(t) = stack[t][n]
      BY <1>7, OnTop DEF n
    <2>2. \A u \in Thread : \A k \in DOMAIN stack'[u] : ~HoldsStorage(stack'[u][k])
      BY <1>1, <1>4, <1>7, <2>1
    <2> QED
      BY <2>2 DEF StorageKept
  <1> QED
    BY <1>5, <1>6, <1>7 DEF StorageFollows

\* A Writer that holds a logger has found it.
LEMMA Holder ==
  ASSUME Frames, NEW u \in Thread, NEW k \in DOMAIN stack[u], HoldsLogger(stack[u][k])
  PROVE  LoggerOf(stack[u][k]) \in Logger
  <1>1. Usual(stack[u][k])
    BY DEF Frames
  <1> QED
    BY <1>1 DEF Usual, HoldsLogger, Found

\* What becomes of the frames that hold a logger
LEMMA HoldersChange ==
  ASSUME Types, NEW t \in Thread, NEW w, Changes(t, w),
         NEW u \in Thread, NEW k \in DOMAIN stack'[u], HoldsLogger(stack'[u][k])
  PROVE  \/ /\ k \in DOMAIN stack[u] /\ stack'[u][k] = stack[u][k]
            /\ ~(u = t /\ k = Len(stack[t]))
         \/ /\ u = t /\ k = Len(stack[t]) /\ k \in DOMAIN stack[t] /\ stack'[u][k] = w
            /\ stack[t] # <<>> /\ Top(t) = stack[t][k]
  <1>1. \/ /\ k \in DOMAIN stack[u] /\ stack'[u][k] = stack[u][k]
           /\ ~(u = t /\ k = Len(stack[t]))
        \/ u = t /\ k = Len(stack[t]) /\ k \in DOMAIN stack[t] /\ stack'[u][k] = w
        \/ u = t /\ k = Len(stack[t]) + 1 /\ Starts(t, stack'[u][k])
    BY DEF Changes
  <1>2. ~Starts(t, stack'[u][k])
    BY DEF Starts, HoldsLogger
  <1>3. Len(stack[t]) \in DOMAIN stack[t] => stack[t] # <<>> /\ Top(t) = stack[t][Len(stack[t])]
    BY DEF Types, Top, Last
  <1> QED
    BY <1>1, <1>2, <1>3

LEMMA LoggersStep ==
  ASSUME Types, Frames, Frames', LoggersKept, NEW t \in Thread, NEW w, Changes(t, w),
         LoggersFollow(t, w)
  PROVE  LoggersKept'
  <1> DEFINE n == Len(stack[t])
  <1>1. Null \notin Thread
    BY Assumed
  <1>2. ASSUME NEW u \in Thread, NEW k \in DOMAIN stack[u], HoldsLogger(stack[u][k])
        PROVE  /\ lock[LoggerOf(stack[u][k])] = u /\ LoggerOf(stack[u][k]) \in Logger
               /\ \A v \in Thread : \A j \in DOMAIN stack[v] :
                    HoldsLogger(stack[v][j]) /\ LoggerOf(stack[v][j]) = LoggerOf(stack[u][k])
                      => v = u /\ j = k
    <2>1. lock[LoggerOf(stack[u][k])] = u
      BY <1>2 DEF LoggersKept
    <2>2. LoggerOf(stack[u][k]) \in Logger
      BY <1>2, Holder
    <2>3. ASSUME NEW v \in Thread, NEW j \in DOMAIN stack[v],
                 HoldsLogger(stack[v][j]), LoggerOf(stack[v][j]) = LoggerOf(stack[u][k])
          PROVE  v = u /\ j = k
      <3>1. lock[LoggerOf(stack[v][j])] = v
        BY <2>3 DEF LoggersKept
      <3>2. v = u
        BY <2>1, <2>3, <3>1
      <3> QED
        BY <1>2, <2>3, <3>2 DEF LoggersKept
    <2> QED
      BY <2>1, <2>2, <2>3
  \* The lock of a frame that stays
  <1>3. ASSUME NEW u \in Thread, NEW k \in DOMAIN stack[u], HoldsLogger(stack[u][k]),
               ~(u = t /\ k = n)
        PROVE  /\ lock'[LoggerOf(stack[u][k])] = u
               /\ ~(stack[t] # <<>> /\ Holds(w, LoggerOf(stack[u][k])))
    <2> DEFINE l == LoggerOf(stack[u][k])
    <2>1. lock[l] = u /\ l \in Logger
      BY <1>2, <1>3
    <2>2. ~(stack[t] # <<>> /\ OnlyTop(t, l))
      BY <1>3 DEF OnlyTop
    <2>3. lock'[l] = u
      BY <1>1, <2>1, <2>2 DEF LoggersFollow
    <2>4. CASE stack[t] # <<>> /\ Holds(w, l)
      <3>1. Holds(Top(t), l) \/ lock[l] = Null
        BY <2>4 DEF LoggersFollow, Holds
      <3>2. n \in DOMAIN stack[t] /\ Top(t) = stack[t][n]
        BY <2>4, OnTop
      <3>3. ~Holds(Top(t), l)
        BY <1>2, <1>3, <3>2 DEF Holds
      <3> QED
        BY <1>1, <2>1, <3>1, <3>3
    <2> QED
      BY <2>3, <2>4
  <1> HIDE DEF n
  <1>4. ASSUME NEW u \in Thread, NEW k \in DOMAIN stack'[u], HoldsLogger(stack'[u][k])
        PROVE  lock'[LoggerOf(stack'[u][k])] = u
    <2>1. CASE k \in DOMAIN stack[u] /\ stack'[u][k] = stack[u][k] /\ ~(u = t /\ k = n)
      BY <1>3, <1>4, <2>1
    <2>2. CASE u = t /\ stack'[u][k] = w /\ stack[t] # <<>>
      BY <1>4, <2>2 DEF LoggersFollow
    <2> QED
      BY <1>4, <2>1, <2>2, HoldersChange DEF n
  <1>5. ASSUME NEW u \in Thread, NEW k \in DOMAIN stack'[u], HoldsLogger(stack'[u][k]),
               NEW j \in DOMAIN stack'[u] \ {k}, HoldsLogger(stack'[u][j]),
               LoggerOf(stack'[u][j]) = LoggerOf(stack'[u][k])
        PROVE  FALSE
    <2> DEFINE Old(i) == i \in DOMAIN stack[u] /\ stack'[u][i] = stack[u][i] /\ ~(u = t /\ i = n)
               New(i) == u = t /\ i = n /\ stack'[u][i] = w /\ stack[t] # <<>>
    <2>1. Old(k) \/ New(k)
      BY <1>5, HoldersChange DEF n
    <2>2. Old(j) \/ New(j)
      BY <1>5, HoldersChange DEF n
    <2>3. CASE Old(k) /\ Old(j)
      BY <1>2, <1>5, <2>3
    <2>4. CASE Old(k) /\ New(j)
      BY <1>3, <1>5, <2>4 DEF Holds
    <2>5. CASE New(k) /\ Old(j)
      BY <1>3, <1>5, <2>5 DEF Holds
    <2>6. CASE New(k) /\ New(j)
      BY <2>6
    <2> QED
      BY <2>1, <2>2, <2>3, <2>4, <2>5, <2>6
  <1> QED
    BY <1>4, <1>5 DEF LoggersKept

LEMMA StreamsStep ==
  ASSUME Types, Frames, Frames', LoggersKept, Streams, NEW t \in Thread, NEW w, Changes(t, w),
         StreamsFollow(t, w)
  PROVE  Streams'
  <1> DEFINE n == Len(stack[t])
  <1>1. \A u \in Thread : \A k \in DOMAIN stack[u] :
          ~(u = t /\ k = n) => k \in DOMAIN stack'[u] /\ stack'[u][k] = stack[u][k]
    BY DEF Changes
  <1>2. \A u \in Thread : \A k \in DOMAIN stack'[u] :
          \/ /\ k \in DOMAIN stack[u] /\ stack'[u][k] = stack[u][k]
             /\ ~(u = t /\ k = n)
          \/ u = t /\ k = n /\ k \in DOMAIN stack[t] /\ stack'[u][k] = w
          \/ u = t /\ k = n + 1 /\ Starts(t, stack'[u][k])
    BY DEF Changes
  <1>3. stack[t] # <<>> <=> n \in DOMAIN stack[t]
    BY OnTop DEF Types
  <1>4. stack[t] # <<>> => Top(t) = stack[t][n]
    BY OnTop
  <1> HIDE DEF n
  <1>5. stack[t] # <<>> /\ HoldsLogger(w) => n \in DOMAIN stack'[t] /\ stack'[t][n] = w
    <2>1. stack[t] # <<>> /\ HoldsLogger(w) => n \in DOMAIN stack'[t]
      BY DEF StreamsFollow, n
    <2>2. n # n + 1
      BY <1>3 DEF n, Types
    <2> QED
      BY <1>2, <2>1, <2>2
  <1>6. ASSUME NEW l \in Logger,
               \A u \in Thread : \A k \in DOMAIN stack'[u] :
                 HoldsLogger(stack'[u][k]) => LoggerOf(stack'[u][k]) # l
        PROVE  stream'[l] = <<>>
    <2>1. stack[t] # <<>> => ~Holds(w, l)
      BY <1>5, <1>6 DEF Holds
    <2>2. CASE stream'[l] = stream[l] /\ (stack[t] # <<>> /\ Holds(Top(t), l) => Holds(w, l))
      <3>1. \A u \in Thread : \A k \in DOMAIN stack[u] :
              HoldsLogger(stack[u][k]) => LoggerOf(stack[u][k]) # l
        BY <1>1, <1>3, <1>4, <1>6, <2>1, <2>2 DEF Holds
      <3> QED
        BY <2>2, <3>1 DEF Streams
    <2>3. CASE stream'[l] = <<>>
      BY <2>3
    <2> QED
      BY <2>1, <2>2, <2>3 DEF StreamsFollow
  <1>7. ASSUME NEW u \in Thread, NEW k \in DOMAIN stack'[u]
        PROVE  /\ Keeps(stack'[u][k])
               /\ HoldsLogger(stack'[u][k])
                    => Fits(stack'[u][k], stream'[LoggerOf(stack'[u][k])])
    <2>1. CASE k \in DOMAIN stack[u] /\ stack'[u][k] = stack[u][k] /\ ~(u = t /\ k = n)
      <3>1. Keeps(stack[u][k])
            /\ (HoldsLogger(stack[u][k]) => Fits(stack[u][k], stream[LoggerOf(stack[u][k])]))
        BY <2>1 DEF Streams
      <3>2. ASSUME HoldsLogger(stack[u][k])
            PROVE  stream'[LoggerOf(stack[u][k])] = stream[LoggerOf(stack[u][k])]
        <4> DEFINE l == LoggerOf(stack[u][k])
        <4>1. l \in Logger /\ lock[l] = u
          BY <2>1, <3>2, Holder DEF LoggersKept
        <4>2. ~(stack[t] # <<>> /\ Holds(Top(t), l))
          <5> SUFFICES ASSUME stack[t] # <<>>, Holds(Top(t), l) PROVE FALSE
            OBVIOUS
          <5>1. n \in DOMAIN stack[t] /\ HoldsLogger(stack[t][n]) /\ LoggerOf(stack[t][n]) = l
            BY <1>3, <1>4 DEF Holds
          <5>2. lock[l] = t
            BY <5>1 DEF LoggersKept
          <5>3. u = t
            BY <4>1, <5>2
          <5>4. k \in DOMAIN stack[t] \ {n}
            BY <2>1, <5>3
          <5> QED
            BY <3>2, <5>1, <5>3, <5>4 DEF LoggersKept
        <4> QED
          BY <4>1, <4>2 DEF StreamsFollow
      <3> QED
        BY <2>1, <3>1, <3>2
    <2>2. CASE u = t /\ k = n /\ k \in DOMAIN stack[t] /\ stack'[u][k] = w
      BY <1>3, <2>2 DEF StreamsFollow
    <2>3. CASE u = t /\ k = n + 1 /\ Starts(t, stack'[u][k])
      BY <2>3 DEF Starts, Keeps, HoldsLogger
    <2> QED
      BY <1>2, <2>1, <2>2, <2>3
  <1> QED
    BY <1>6, <1>7 DEF Streams

LEMMA LinesStep ==
  ASSUME Types, Lines, NEW t \in Thread, NEW w, Changes(t, w), LinesFollow(t, w), log' = log
  PROVE  Lines'
  <1>1. \A u \in Thread : made[u] \in Nat /\ made'[u] \in Nat /\ made[u] <= made'[u]
    BY DEF Types, Changes
  <1>2. Len(stack[t]) \in DOMAIN stack[t] => stack[t] # <<>> /\ Top(t) = stack[t][Len(stack[t])]
    BY DEF Types, Top, Last
  <1>3. ASSUME NEW k \in DOMAIN log
        PROVE  /\ log[k].by[2] <= made'[log[k].by[1]]
               /\ \A u \in Thread : \A j \in DOMAIN stack'[u] : Wrote(stack'[u][j], log[k])
    <2>0. log[k] \in Line
      BY DEF Types
    <2>1. log[k].by \in Thread \X Nat
      BY <2>0 DEF Line, Name
    <2>2. log[k].by[1] \in Thread /\ log[k].by[2] \in Nat
      BY <2>1
    <2>3. log[k].by[2] <= made[log[k].by[1]]
      BY DEF Lines
    <2>4. ASSUME NEW u \in Thread, NEW j \in DOMAIN stack'[u]
          PROVE  Wrote(stack'[u][j], log[k])
      <3>1. CASE j \in DOMAIN stack[u] /\ stack'[u][j] = stack[u][j]
        BY <3>1 DEF Lines
      <3>2. CASE u = t /\ j = Len(stack[t]) /\ j \in DOMAIN stack[t] /\ stack'[u][j] = w
        <4>1. Wrote(Top(t), log[k])
          BY <1>2, <3>2 DEF Lines
        <4> QED
          BY <1>2, <3>2, <4>1 DEF LinesFollow
      <3>3. CASE u = t /\ Starts(t, stack'[u][j])
        <4>1. stack'[u][j].by = <<t, made[t] + 1>>
          BY <3>3 DEF Starts
        <4>2. made[t] \in Nat
          BY <1>1
        <4>3. log[k].by # <<t, made[t] + 1>>
          BY <2>3, <4>2
        <4> QED
          BY <4>1, <4>3 DEF Wrote
      <3> QED
        BY <3>1, <3>2, <3>3 DEF Changes
    <2> QED
      BY <1>1, <2>2, <2>3, <2>4
  <1> QED
    BY <1>3 DEF Lines

LEMMA CountedStep ==
  ASSUME Types, Counted, NEW t \in Thread, NEW w, Changes(t, w), UNCHANGED <<settings, sinks>>,
         stack[t] # <<>> /\ w.at = "write" => Top(t).at = "write"
  PROVE  Counted'
  <1>1. UNCHANGED <<settings, log, start, size, disk, count, failed>>
    BY DEF sinks
  <1>2. Len(stack[t]) \in DOMAIN stack[t] => stack[t] # <<>> /\ Top(t) = stack[t][Len(stack[t])]
    BY DEF Types, Top, Last
  <1>3. ASSUME NEW u \in Thread, NEW k \in DOMAIN stack'[u], stack'[u][k].at = "write"
        PROVE  k \in DOMAIN stack[u] /\ stack[u][k].at = "write"
    <2>1. ~Starts(t, stack'[u][k])
      BY <1>3 DEF Starts
    <2> QED
      BY <1>2, <1>3, <2>1 DEF Changes
  <1>4. Limit' = Limit /\ \A l \in Logger, v \in Level : Unflushed(l, v)' = Unflushed(l, v)
    BY <1>1 DEF Limit, Unflushed
  <1> QED
    BY <1>1, <1>3, <1>4 DEF Counted, OneLineOver

\* A step that leaves file and settings alone
LEMMA QuietStep ==
  ASSUME Inv, NEW t \in Thread, NEW w, Changes(t, w), UNCHANGED <<settings, sinks>>,
         lock' \in [Mutex -> Thread \cup {Null}], stream' \in [Logger -> Text],
         spoilt' \subseteq Logger,
         SameWriter(t, w), StorageFollows(t, w), spoilt \subseteq spoilt',
         stack[t] # <<>> /\ w.at = "write" => Top(t).at = "write",
         spoilt' = {} /\ LoggersKept /\ Streams /\ Lines =>
           LoggersFollow(t, w) /\ StreamsFollow(t, w) /\ LinesFollow(t, w)
  PROVE  Inv'
  <1>0. Types'
    BY DEF Inv, Types, sinks, Changes
  <1>1. Frames'
    BY FramesStep DEF Inv
  <1>2. StorageKept'
    BY StorageStep DEF Inv
  <1>3. Counted'
    BY CountedStep DEF Inv
  <1>4. log' = log
    BY DEF sinks
  <1>5. ASSUME spoilt' = {} PROVE LoggersKept' /\ Streams' /\ Lines'
    <2>1. spoilt = {}
      BY <1>5
    <2>2. LoggersKept /\ Streams /\ Lines
      BY <2>1 DEF Inv, Whole
    <2>3. LoggersFollow(t, w) /\ StreamsFollow(t, w) /\ LinesFollow(t, w)
      BY <1>5, <2>2
    <2> QED
      BY <1>1, <1>4, <2>2, <2>3, LoggersStep, StreamsStep, LinesStep DEF Inv
  <1>6. WholeLines'
    BY <1>4 DEF WholeLines, Inv
  <1> QED
    BY <1>0, <1>1, <1>2, <1>3, <1>5, <1>6 DEF Inv, Whole
-----------------------------------------------------------------------------
(* The actions                                                               *)

LEMMA TopFacts ==
  ASSUME Inv, NEW t \in Thread, NEW p, At(t, p)
  PROVE  /\ stack[t] # <<>> /\ Top(t) \in Writer /\ Top(t).at = p /\ Usual(Top(t))
         /\ Top(t).kind = "api" => Len(stack[t]) = 1
         /\ Top(t).by[1] = t /\ Top(t).by[2] \in 1..made[t]
         /\ HoldsStorage(Top(t)) => lock["Storage"] = t
  <1>1. stack[t] # <<>> /\ Top(t).at = p
    BY DEF At
  <1>2. Len(stack[t]) \in DOMAIN stack[t] /\ Top(t) = stack[t][Len(stack[t])] /\ Top(t) \in Writer
    BY <1>1, OnTop DEF Inv
  <1> DEFINE n == Len(stack[t])
             w == stack[t][n]
  <1>3. n \in DOMAIN stack[t]
    BY <1>2
  <1>4. Top(t) = w
    BY <1>2
  <1> HIDE DEF n
  <1>5. Usual(w) /\ w.by[1] = t /\ w.by[2] \in 1..made[t] /\ (w.kind = "api" => n = 1)
    BY <1>3 DEF Inv, Frames
  <1>6. HoldsStorage(w) => lock["Storage"] = t
    BY <1>3 DEF Inv, StorageKept
  <1> QED
    BY <1>1, <1>2, <1>4, <1>5, <1>6 DEF n

\* What is known of a Writer on top of its stack as long as nothing is spoilt
LEMMA TopSound ==
  ASSUME Inv, LoggersKept, Streams, Lines, NEW t \in Thread, NEW p, At(t, p)
  PROVE  /\ Keeps(Top(t))
         /\ HoldsLogger(Top(t)) =>
              /\ LoggerOf(Top(t)) \in Logger
              /\ lock[LoggerOf(Top(t))] = t
              /\ Fits(Top(t), stream[LoggerOf(Top(t))])
              /\ OnlyTop(t, LoggerOf(Top(t)))
         /\ \A k \in DOMAIN log : Wrote(Top(t), log[k])
  <1> DEFINE n == Len(stack[t])
  <1>1. stack[t] # <<>> /\ Top(t) = stack[t][n] /\ n \in DOMAIN stack[t]
    BY OnTop DEF At, Inv
  <1> HIDE DEF n
  <1>2. Keeps(Top(t)) /\ (HoldsLogger(Top(t)) => Fits(Top(t), stream[LoggerOf(Top(t))]))
    BY <1>1 DEF Streams
  <1>3. \A k \in DOMAIN log : Wrote(Top(t), log[k])
    BY <1>1 DEF Lines
  <1>4. ASSUME HoldsLogger(Top(t))
        PROVE  /\ LoggerOf(Top(t)) \in Logger
               /\ lock[LoggerOf(Top(t))] = t
               /\ OnlyTop(t, LoggerOf(Top(t)))
    <2>1. LoggerOf(Top(t)) \in Logger
      BY <1>1, <1>4, Holder DEF Inv
    <2>2. lock[LoggerOf(Top(t))] = t
      BY <1>1, <1>4 DEF LoggersKept
    <2>3. ASSUME NEW u \in Thread, NEW k \in DOMAIN stack[u], HoldsLogger(stack[u][k]),
                 LoggerOf(stack[u][k]) = LoggerOf(Top(t))
          PROVE  u = t /\ k = n
      <3>1. lock[LoggerOf(stack[u][k])] = u
        BY <2>3 DEF LoggersKept
      <3>2. u = t
        BY <2>2, <2>3, <3>1
      <3> QED
        BY <1>1, <1>4, <2>3, <3>2 DEF LoggersKept
    <2> QED
      BY <2>1, <2>2, <2>3 DEF OnlyTop, n
  <1> QED
    BY <1>2, <1>3, <1>4

\* Nothing is in the stream of a logger that is free.
LEMMA FreeLogger ==
  ASSUME LoggersKept, Streams, NEW l \in Logger, lock[l] = Null
  PROVE  stream[l] = <<>>
  <1>1. \A u \in Thread : \A k \in DOMAIN stack[u] :
          HoldsLogger(stack[u][k]) => LoggerOf(stack[u][k]) # l
    BY Assumed DEF LoggersKept
  <1> QED
    BY <1>1 DEF Streams

To(w, q) == [w EXCEPT !.at = q]

LEMMA Goes ==
  ASSUME Inv, NEW t \in Thread, NEW p, At(t, p), NEW q \in Place, Goto(t, q), made' = made
  PROVE  /\ Changes(t, To(Top(t), q)) /\ Len(stack[t]) \in DOMAIN stack'[t]
  <1>1. Top(t) \in Writer /\ stack[t] # <<>>
    BY TopFacts
  <1>2. To(Top(t), q) \in Writer
    BY <1>1 DEF To, Writer
  <1>3. Become(t, To(Top(t), q))
    BY DEF Goto, To
  <1> QED
    BY <1>1, <1>2, <1>3, Becomes DEF Inv

LEMMA SameBut ==
  ASSUME NEW w \in Writer, NEW q
  PROVE  /\ To(w, q).at = q /\ To(w, q).kind = w.kind /\ To(w, q).by = w.by
         /\ To(w, q).level = w.level /\ To(w, q).ids = w.ids /\ To(w, q).i = w.i
         /\ To(w, q).proceed = w.proceed /\ To(w, q).first = w.first
         /\ To(w, q).saved = w.saved /\ To(w, q).text = w.text
         /\ LoggerOf(To(w, q)) = LoggerOf(w)
  BY DEF To, Writer, LoggerOf

\* A step to another place that leaves the loggers and their streams alone
LEMMA GotoStep ==
  ASSUME Inv, NEW t \in Thread, NEW p, At(t, p), NEW q \in Place, Goto(t, q),
         made' = made, UNCHANGED <<settings, stream, sinks, spoilt>>,
         lock' \in [Mutex -> Thread \cup {Null}], \A l \in Logger : lock'[l] = lock[l],
         StorageFollows(t, To(Top(t), q)), Usual(To(Top(t), q)),
         HoldsLogger(To(Top(t), q)) <=> HoldsLogger(Top(t)),
         HoldsLogger(To(Top(t), q)) => q = "clear",
         q # "write",
         Keeps(Top(t)) => Keeps(To(Top(t), q)),
         q \notin {"clear", "next", "unlock", "abort"} =>
           p \notin {"release", "clear", "next", "unlock", "abort"}
  PROVE  Inv'
  <1> DEFINE w == To(Top(t), q)
  <1>1. Changes(t, w) /\ Len(stack[t]) \in DOMAIN stack'[t]
    BY Goes
  <1>2. stack[t] # <<>> /\ Top(t) \in Writer /\ Top(t).at = p /\ Usual(Top(t))
    BY TopFacts
  <1>3. /\ w.at = q /\ w.kind = Top(t).kind /\ w.by = Top(t).by /\ w.i = Top(t).i
        /\ w.saved = Top(t).saved /\ LoggerOf(w) = LoggerOf(Top(t))
    BY <1>2, SameBut
  <1> HIDE DEF w
  <1>4. SameWriter(t, w)
    BY <1>3 DEF SameWriter, w
  <1>5. StorageFollows(t, w) /\ (HoldsLogger(w) <=> HoldsLogger(Top(t)))
        /\ (HoldsLogger(w) => q = "clear") /\ (Keeps(Top(t)) => Keeps(w))
    BY DEF w
  <1>6. ASSUME LoggersKept, Streams, Lines
        PROVE  LoggersFollow(t, w) /\ StreamsFollow(t, w) /\ LinesFollow(t, w)
    <2>1. Keeps(Top(t))
          /\ (HoldsLogger(Top(t)) =>
                LoggerOf(Top(t)) \in Logger /\ lock[LoggerOf(Top(t))] = t)
      BY <1>6, TopSound
    <2>2. LoggersFollow(t, w)
      BY <1>3, <1>5, <2>1 DEF LoggersFollow, Holds
    <2>3. HoldsLogger(w) => Fits(w, stream'[LoggerOf(w)])
      BY <1>3, <1>5 DEF Fits
    <2>4. StreamsFollow(t, w)
      BY <1>1, <1>3, <1>5, <2>1, <2>3 DEF StreamsFollow, Holds
    <2>5. LinesFollow(t, w)
      BY <1>2, <1>3 DEF LinesFollow, Wrote
    <2> QED
      BY <2>2, <2>4, <2>5
  <1>7. stream' \in [Logger -> Text] /\ spoilt' \subseteq Logger /\ spoilt \subseteq spoilt'
    BY DEF Inv, Types
  <1> QED
    BY <1>1, <1>3, <1>4, <1>5, <1>6, <1>7, QuietStep

LEMMA ApiWriter ==
  ASSUME NEW w, Usual(w), w.kind = "api"
  PROVE  w.i = 1 /\ LoggerOf(w) \in Logger
  <1>1. w.i \in 1..Len(w.ids) /\ Len(w.ids) = 1 /\ LoggerOf(w) \in Logger
    BY DEF Usual
  <1>2. w.i \in 1..1
    BY <1>1, Zenon
  <1> QED
    BY <1>1, <1>2

LEMMA LookUpInv ==
  ASSUME Inv, NEW t \in Thread, LookUp(t)
  PROVE  Inv'
  <1> DEFINE w == To(Top(t), "got")
  <1>1. /\ At(t, "get") /\ Goto(t, "got") /\ made' = made
        /\ UNCHANGED <<settings, stream, sinks, spoilt>>
        /\ lock["Registry"] = Null /\ lock' = [lock EXCEPT !["Registry"] = t]
    BY DEF LookUp, Acquire
  <1>2. /\ Top(t) \in Writer /\ Top(t).at = "get" /\ Usual(Top(t))
    BY <1>1, TopFacts
  <1>3. /\ w.at = "got" /\ w.kind = Top(t).kind /\ w.by = Top(t).by /\ w.i = Top(t).i
        /\ w.ids = Top(t).ids /\ w.first = Top(t).first
        /\ w.saved = Top(t).saved /\ LoggerOf(w) = LoggerOf(Top(t))
    BY <1>2, SameBut
  <1>4. /\ lock' \in [Mutex -> Thread \cup {Null}]
        /\ \A m \in Mutex \ {"Registry"} : lock'[m] = lock[m]
    BY <1>1 DEF Inv, Types
  <1> HIDE DEF w
  <1>5. StorageFollows(t, w)
    BY <1>2, <1>3, <1>4, Assumed DEF StorageFollows, HoldsStorage
  <1>6. Usual(w)
    BY <1>2, <1>3 DEF Usual, Found
  <1>7. ~HoldsLogger(w) /\ ~HoldsLogger(Top(t)) /\ (Keeps(Top(t)) => Keeps(w))
    BY <1>2, <1>3 DEF HoldsLogger, Keeps
  <1>8. \A l \in Logger : lock'[l] = lock[l]
    BY <1>4, Assumed
  <1>9. "got" \in Place
    BY DEF Place
  <1> QED
    BY <1>1, <1>4, <1>5, <1>6, <1>7, <1>8, <1>9, GotoStep DEF w

LEMMA LookedUpInv ==
  ASSUME Inv, NEW t \in Thread, LookedUp(t)
  PROVE  Inv'
  <1> DEFINE q == IF LoggerOf(Top(t)) \in Logger THEN "lock" ELSE "missing"
             w == To(Top(t), q)
  <1>1. /\ At(t, "got") /\ Goto(t, q) /\ made' = made
        /\ UNCHANGED <<settings, stream, sinks, spoilt>>
        /\ lock' = [m \in Mutex |-> IF m \in {"Registry"} THEN Null ELSE lock[m]]
    BY DEF LookedUp, Release
  <1>2. /\ Top(t) \in Writer /\ Top(t).at = "got" /\ Usual(Top(t))
    BY <1>1, TopFacts
  <1>3. /\ q \in {"lock", "missing"} /\ q \in Place
        /\ q = "lock" => LoggerOf(Top(t)) \in Logger
    BY DEF Place
  <1> HIDE DEF q
  <1>4. /\ w.at = q /\ w.kind = Top(t).kind /\ w.by = Top(t).by /\ w.i = Top(t).i
        /\ w.ids = Top(t).ids /\ w.first = Top(t).first
        /\ w.saved = Top(t).saved /\ LoggerOf(w) = LoggerOf(Top(t))
    BY <1>2, SameBut
  <1>5. /\ lock' \in [Mutex -> Thread \cup {Null}]
        /\ \A m \in Mutex \ {"Registry"} : lock'[m] = lock[m]
    BY <1>1 DEF Inv, Types
  <1> HIDE DEF w
  <1>6. StorageFollows(t, w)
    BY <1>2, <1>3, <1>4, <1>5, Assumed DEF StorageFollows, HoldsStorage
  <1>7. Usual(w)
    BY <1>2, <1>3, <1>4 DEF Usual, Found
  <1>8. ~HoldsLogger(w) /\ ~HoldsLogger(Top(t)) /\ (Keeps(Top(t)) => Keeps(w))
    BY <1>2, <1>3, <1>4 DEF HoldsLogger, Keeps, Usual
  <1>9. \A l \in Logger : lock'[l] = lock[l]
    BY <1>5, Assumed
  <1> QED
    BY <1>1, <1>3, <1>5, <1>6, <1>7, <1>8, <1>9, GotoStep DEF w

LEMMA LockMissingInv ==
  ASSUME Inv, NEW t \in Thread, LockMissing(t)
  PROVE  Inv'
  <1>1. PICK m \in {"Storage", "Registry"} :
          LET p == IF m = "Storage" THEN "missing" ELSE "has"
              q == IF m = "Storage" THEN "has" ELSE "complain"
          IN /\ At(t, p) /\ Goto(t, q) /\ made' = made
             /\ UNCHANGED <<settings, stream, sinks, spoilt>>
             /\ lock[m] = Null /\ lock' = [lock EXCEPT ![m] = t]
    BY DEF LockMissing, Acquire
  <1> DEFINE p == IF m = "Storage" THEN "missing" ELSE "has"
             q == IF m = "Storage" THEN "has" ELSE "complain"
             w == To(Top(t), q)
  <1>2. /\ At(t, p) /\ Goto(t, q) /\ made' = made
        /\ UNCHANGED <<settings, stream, sinks, spoilt>>
        /\ lock[m] = Null /\ lock' = [lock EXCEPT ![m] = t]
    BY <1>1
  <1>3. \/ m = "Storage" /\ p = "missing" /\ q = "has"
        \/ m = "Registry" /\ p = "has" /\ q = "complain"
    OBVIOUS
  <1>4. q \in Place
    BY DEF Place
  <1> HIDE DEF p, q
  <1>5. /\ Top(t) \in Writer /\ Top(t).at = p /\ Usual(Top(t))
    BY <1>2, TopFacts
  <1>6. /\ w.at = q /\ w.kind = Top(t).kind /\ w.by = Top(t).by /\ w.i = Top(t).i
        /\ w.ids = Top(t).ids /\ w.first = Top(t).first
        /\ w.saved = Top(t).saved /\ LoggerOf(w) = LoggerOf(Top(t))
    BY <1>5, SameBut
  <1>7. /\ lock' \in [Mutex -> Thread \cup {Null}] /\ m \in Mutex /\ lock'[m] = t
        /\ \A o \in Mutex \ {m} : lock'[o] = lock[o]
    BY <1>2, Assumed DEF Inv, Types
  <1> HIDE DEF w
  <1>8. StorageFollows(t, w)
    BY <1>2, <1>3, <1>5, <1>6, <1>7, Assumed DEF StorageFollows, HoldsStorage
  <1>9. Usual(w)
    BY <1>3, <1>5, <1>6 DEF Usual, Found
  <1>10. ~HoldsLogger(w) /\ ~HoldsLogger(Top(t)) /\ (Keeps(Top(t)) => Keeps(w))
    BY <1>3, <1>5, <1>6 DEF HoldsLogger, Keeps
  <1>11. \A l \in Logger : lock'[l] = lock[l]
    BY <1>3, <1>7, Assumed
  <1>12. q # "write" /\ p \notin {"release", "clear", "next", "unlock", "abort"}
    BY <1>3
  <1> QED
    BY <1>2, <1>4, <1>7, <1>8, <1>9, <1>10, <1>11, <1>12, GotoStep DEF w

LEMMA DispatchedInv ==
  ASSUME Inv, NEW t \in Thread, Dispatched(t)
  PROVE  Inv'
  <1> DEFINE w == To(Top(t), "clear")
  <1>1. /\ At(t, "release") /\ Goto(t, "clear") /\ made' = made
        /\ UNCHANGED <<settings, stream, sinks, spoilt>>
        /\ lock' = [m \in Mutex |-> IF m \in {"Storage"} THEN Null ELSE lock[m]]
    BY DEF Dispatched, Release
  <1>2. /\ Top(t) \in Writer /\ Top(t).at = "release" /\ Usual(Top(t)) /\ stack[t] # <<>>
    BY <1>1, TopFacts
  <1>3. /\ w.at = "clear" /\ w.kind = Top(t).kind /\ w.by = Top(t).by /\ w.i = Top(t).i
        /\ w.ids = Top(t).ids /\ w.first = Top(t).first
        /\ w.saved = Top(t).saved /\ LoggerOf(w) = LoggerOf(Top(t))
    BY <1>2, SameBut
  <1>4. /\ lock' \in [Mutex -> Thread \cup {Null}]
        /\ \A m \in Mutex \ {"Storage"} : lock'[m] = lock[m]
    BY <1>1 DEF Inv, Types
  <1> HIDE DEF w
  <1>5. StorageFollows(t, w)
    BY <1>2, <1>3 DEF StorageFollows, HoldsStorage
  <1>6. Usual(w)
    BY <1>2, <1>3 DEF Usual, Found
  <1>7. HoldsLogger(w) /\ HoldsLogger(Top(t)) /\ (Keeps(Top(t)) => Keeps(w))
    BY <1>2, <1>3 DEF HoldsLogger, Keeps
  <1>8. \A l \in Logger : lock'[l] = lock[l]
    BY <1>4, Assumed
  <1>9. "clear" \in Place
    BY DEF Place
  <1> QED
    BY <1>1, <1>4, <1>5, <1>6, <1>7, <1>8, <1>9, GotoStep DEF w

LEMMA LockScopeInv ==
  ASSUME Inv, NEW t \in Thread, LockScope(t)
  PROVE  Inv'
  <1> DEFINE w == To(Top(t), "piece1")
             l == LoggerOf(Top(t))
  <1>1. /\ At(t, "scope") /\ Goto(t, "piece1") /\ made' = made
        /\ UNCHANGED <<settings, stream, sinks, spoilt>>
        /\ lock[l] = Null /\ lock' = [lock EXCEPT ![l] = t]
    BY DEF LockScope, Acquire
  <1>2. /\ Top(t) \in Writer /\ Top(t).at = "scope" /\ Usual(Top(t)) /\ stack[t] # <<>>
    BY <1>1, TopFacts
  <1>3. /\ w.at = "piece1" /\ w.kind = Top(t).kind /\ w.by = Top(t).by /\ w.i = Top(t).i
        /\ w.ids = Top(t).ids /\ w.first = Top(t).first
        /\ w.saved = Top(t).saved /\ LoggerOf(w) = l
    BY <1>2, SameBut
  <1>4. "piece1" \in Place
    BY DEF Place
  <1>5. Changes(t, w) /\ Len(stack[t]) \in DOMAIN stack'[t]
    BY <1>1, <1>4, Goes
  <1> HIDE DEF w
  <1>6. Top(t).i = 1 /\ l \in Logger /\ w.kind = "api"
    <2>1. Top(t).kind = "api"
      BY <1>2 DEF Usual
    <2> QED
      BY <1>2, <1>3, <2>1, ApiWriter
  <1> HIDE DEF l
  <1>7. /\ lock' \in [Mutex -> Thread \cup {Null}] /\ l \in Mutex /\ lock'[l] = t
        /\ \A o \in Mutex \ {l} : lock'[o] = lock[o]
    BY <1>1, <1>6, Assumed DEF Inv, Types
  <1>8. Usual(w)
    BY <1>2, <1>3, <1>6 DEF Usual, Found
  <1>9. SameWriter(t, w)
    BY <1>3, <1>8 DEF SameWriter
  <1>10. StorageFollows(t, w)
    BY <1>2, <1>3, <1>6, <1>7, Assumed DEF StorageFollows, HoldsStorage
  <1>11. HoldsLogger(w) /\ ~HoldsLogger(Top(t))
    BY <1>2, <1>3 DEF HoldsLogger
  <1>12. ASSUME LoggersKept, Streams, Lines
         PROVE  LoggersFollow(t, w) /\ StreamsFollow(t, w) /\ LinesFollow(t, w)
    <2>1. Keeps(Top(t))
      BY <1>1, <1>12, TopSound
    <2>2. LoggersFollow(t, w)
      BY <1>1, <1>3, <1>7, Assumed DEF LoggersFollow
    <2>3. stream[l] = <<>>
      BY <1>1, <1>6, <1>12, FreeLogger
    <2>4. Fits(w, stream'[LoggerOf(w)])
      BY <1>1, <1>3, <2>3 DEF Fits
    <2>5. Keeps(w)
      BY <1>2, <1>3, <1>6, <2>1 DEF Keeps
    <2>6. StreamsFollow(t, w)
      BY <1>1, <1>5, <1>11, <2>4, <2>5 DEF StreamsFollow, Holds
    <2>7. LinesFollow(t, w)
      BY <1>2, <1>3 DEF LinesFollow, Wrote
    <2> QED
      BY <2>2, <2>6, <2>7
  <1>13. stream' \in [Logger -> Text] /\ spoilt' \subseteq Logger /\ spoilt \subseteq spoilt'
         /\ UNCHANGED <<settings, sinks>> /\ w.at # "write"
    BY <1>1, <1>3 DEF Inv, Types
  <1> QED
    BY <1>5, <1>7, <1>9, <1>10, <1>12, <1>13, QuietStep

LEMMA LockLoggerInv ==
  ASSUME Inv, NEW t \in Thread, LockLogger(t)
  PROVE  Inv'
  <1> DEFINE top == Top(t)
             w == [top EXCEPT !.proceed = LoggerOf(top) \notin settings.quiet,
                              !.at = IF top.kind = "api" THEN "piece2"
                                     ELSE IF top.i = 1 THEN "piece1" ELSE "process"]
             l == LoggerOf(top)
  <1>1. /\ At(t, "lock") /\ Become(t, w) /\ made' = made
        /\ UNCHANGED <<settings, stream, sinks, spoilt>>
        /\ IF top.kind = "api" THEN lock' = lock
           ELSE lock[l] = Null /\ lock' = [lock EXCEPT ![l] = t]
    BY DEF LockLogger, Acquire
  <1>2. /\ top \in Writer /\ top.at = "lock" /\ Usual(top) /\ stack[t] # <<>>
    BY <1>1, TopFacts
  <1> HIDE DEF top
  <1>3. /\ w.kind = top.kind /\ w.by = top.by /\ w.i = top.i
        /\ w.ids = top.ids /\ w.first = top.first
        /\ w.saved = top.saved /\ LoggerOf(w) = l
        /\ w.at = IF top.kind = "api" THEN "piece2"
                  ELSE IF top.i = 1 THEN "piece1" ELSE "process"
    BY <1>2 DEF LoggerOf, Writer
  <1>4. w \in Writer
    <2>1. (LoggerOf(top) \notin settings.quiet) \in BOOLEAN
      OBVIOUS
    <2>2. (IF top.kind = "api" THEN "piece2" ELSE IF top.i = 1 THEN "piece1" ELSE "process")
            \in Place
      BY DEF Place
    <2> QED
      BY <1>2, <2>1, <2>2 DEF Writer
  <1> HIDE DEF w
  <1>5. Changes(t, w) /\ Len(stack[t]) \in DOMAIN stack'[t]
    BY <1>1, <1>2, <1>4, Becomes DEF Inv
  <1>6. l \in Logger /\ top.i \in Nat
    BY <1>2 DEF Usual, Found, Writer
  <1> HIDE DEF l
  <1>7. /\ lock' \in [Mutex -> Thread \cup {Null}] /\ l \in Mutex
        /\ \A o \in Mutex \ {l} : lock'[o] = lock[o]
        /\ top.kind = "api" => lock'[l] = lock[l]
        /\ top.kind # "api" => lock'[l] = t /\ lock[l] = Null
    BY <1>1, <1>6, Assumed DEF Inv, Types
  <1>8. Usual(w)
    BY <1>2, <1>3, <1>6 DEF Usual, Found
  <1>9. SameWriter(t, w)
    BY <1>3, <1>8 DEF SameWriter, top
  <1>10. StorageFollows(t, w)
    BY <1>3, <1>6, <1>7, Assumed DEF StorageFollows, HoldsStorage
  <1>11. HoldsLogger(w) /\ (HoldsLogger(top) <=> top.kind = "api")
    BY <1>2, <1>3 DEF HoldsLogger
  <1>12. ASSUME LoggersKept, Streams, Lines
         PROVE  LoggersFollow(t, w) /\ StreamsFollow(t, w) /\ LinesFollow(t, w)
    <2>1. Keeps(top) /\ (HoldsLogger(top) => lock[l] = t /\ Fits(top, stream[l]))
      BY <1>1, <1>12, TopSound DEF top, l
    <2>2. LoggersFollow(t, w)
      BY <1>3, <1>7, <1>11, <2>1, Assumed DEF LoggersFollow, Holds, top, l
    <2>3. CASE top.kind = "api"
      <3>1. stream[l] = <<Piece(top, 1)>>
        BY <1>2, <1>11, <2>1, <2>3 DEF Fits
      <3> QED
        <4>1. Fits(w, stream'[LoggerOf(w)])
          BY <1>1, <1>3, <2>3, <3>1 DEF Fits, Piece
        <4>2. Keeps(w)
          BY <1>2, <1>3, <2>1, <2>3 DEF Keeps
        <4>3. StreamsFollow(t, w)
          BY <1>1, <1>3, <1>5, <1>11, <4>1, <4>2 DEF StreamsFollow, Holds, top, l
        <4>4. LinesFollow(t, w)
          BY <1>2, <1>3 DEF LinesFollow, Wrote, top
        <4> QED
          BY <2>2, <4>3, <4>4
    <2>4. CASE top.kind # "api"
      <3>1. stream[l] = <<>>
        BY <1>6, <1>7, <1>12, <2>4, FreeLogger
      <3>2. Fits(w, stream'[LoggerOf(w)])
        BY <1>1, <1>3, <2>4, <3>1 DEF Fits
      <3>3. Keeps(w)
        BY <1>2, <1>3, <2>1, <2>4 DEF Keeps
      <3>4. StreamsFollow(t, w)
        BY <1>1, <1>3, <1>5, <1>11, <2>4, <3>2, <3>3 DEF StreamsFollow, Holds, top, l
      <3>5. LinesFollow(t, w)
        BY <1>2, <1>3 DEF LinesFollow, Wrote, top
      <3> QED
        BY <2>2, <3>4, <3>5
    <2> QED
      BY <2>3, <2>4
  <1>13. stream' \in [Logger -> Text] /\ spoilt' \subseteq Logger /\ spoilt \subseteq spoilt'
         /\ UNCHANGED <<settings, sinks>> /\ w.at # "write"
    BY <1>1, <1>3 DEF Inv, Types
  <1> QED
    BY <1>5, <1>7, <1>9, <1>10, <1>12, <1>13, QuietStep

\* Both ways of Logger::log to its end without a Writer
LEMMA NoWriterInv ==
  ASSUME Inv, NEW t \in Thread, NotAllowed(t) \/ TooManyArguments(t)
  PROVE  Inv'
  <1> DEFINE w == To(Top(t), "unlock")
             l == LoggerOf(Top(t))
  <1>1. /\ At(t, "lock") /\ Goto(t, "unlock") /\ made' = made
        /\ UNCHANGED <<settings, lock, sinks>> /\ Top(t).kind = "api"
        /\ \/ stream' = [stream EXCEPT ![l] = <<>>] /\ spoilt' = spoilt
           \/ stream' = stream /\ spoilt' = spoilt \cup {l}
    BY DEF NotAllowed, TooManyArguments
  <1>2. /\ Top(t) \in Writer /\ Top(t).at = "lock" /\ Usual(Top(t)) /\ stack[t] # <<>>
    BY <1>1, TopFacts
  <1>3. /\ w.at = "unlock" /\ w.kind = Top(t).kind /\ w.by = Top(t).by /\ w.i = Top(t).i
        /\ w.ids = Top(t).ids /\ w.first = Top(t).first
        /\ w.saved = Top(t).saved /\ LoggerOf(w) = l
    BY <1>2, SameBut
  <1>4. "unlock" \in Place
    BY DEF Place
  <1>5. Changes(t, w) /\ Len(stack[t]) \in DOMAIN stack'[t]
    BY <1>1, <1>4, Goes
  <1> HIDE DEF w
  <1>6. Top(t).i = 1 /\ l \in Logger
    BY <1>1, <1>2, ApiWriter
  <1> HIDE DEF l
  <1>7. /\ lock' \in [Mutex -> Thread \cup {Null}]
        /\ stream' \in [Logger -> Text] /\ spoilt' \subseteq Logger /\ spoilt \subseteq spoilt'
        /\ UNCHANGED <<settings, sinks>> /\ w.at # "write"
    <2>1. <<>> \in Text
      BY DEF Text
    <2> QED
      BY <1>1, <1>3, <1>6, <2>1 DEF Inv, Types
  <1>8. Usual(w)
    BY <1>1, <1>2, <1>3, <1>6 DEF Usual, Found
  <1>9. SameWriter(t, w)
    BY <1>3, <1>8 DEF SameWriter
  <1>10. StorageFollows(t, w)
    BY <1>1, <1>3 DEF StorageFollows, HoldsStorage
  <1>11. ~HoldsLogger(w) /\ HoldsLogger(Top(t))
    BY <1>1, <1>2, <1>3 DEF HoldsLogger
  <1>12. ASSUME spoilt' = {}, LoggersKept, Streams, Lines
         PROVE  LoggersFollow(t, w) /\ StreamsFollow(t, w) /\ LinesFollow(t, w)
    <2>1. Keeps(Top(t))
      BY <1>1, <1>12, TopSound
    <2>2. stream' = [stream EXCEPT ![l] = <<>>]
      BY <1>1, <1>12
    <2>3. stream \in [Logger -> Text]
      BY DEF Inv, Types
    <2>4. \A o \in Logger : stream'[o] = IF o = l THEN <<>> ELSE stream[o]
      BY <2>2, <2>3
    <2>5. LoggersFollow(t, w)
      BY <1>1, <1>11 DEF LoggersFollow
    <2>6. Keeps(w)
      BY <1>2, <1>3, <2>1 DEF Keeps
    <2>7. StreamsFollow(t, w)
      BY <1>2, <1>11, <2>4, <2>6 DEF StreamsFollow, Holds, l
    <2>8. LinesFollow(t, w)
      BY <1>2, <1>3 DEF LinesFollow, Wrote
    <2> QED
      BY <2>5, <2>7, <2>8
  <1> QED
    BY <1>5, <1>7, <1>9, <1>10, <1>12, QuietStep

\* A step in which the top of t keeps its logger, and changes no stream but that of it
LEMMA HolderStep ==
  ASSUME Inv, NEW t \in Thread, stack[t] # <<>>, NEW w, Changes(t, w),
         Len(stack[t]) \in DOMAIN stack'[t], UNCHANGED <<settings, lock, sinks, spoilt>>,
         NEW l \in Logger, Holds(Top(t), l), Holds(w, l),
         stream' \in [Logger -> Text], \A o \in Logger \ {l} : stream'[o] = stream[o],
         SameWriter(t, w), StorageFollows(t, w), w.at # "write",
         spoilt = {} /\ LoggersKept /\ Streams /\ Lines =>
           lock[l] = t /\ Keeps(w) /\ Fits(w, stream'[l]) /\ LinesFollow(t, w)
  PROVE  Inv'
  <1>1. ASSUME spoilt' = {}, LoggersKept, Streams, Lines
        PROVE  LoggersFollow(t, w) /\ StreamsFollow(t, w) /\ LinesFollow(t, w)
    <2>1. lock[l] = t /\ Keeps(w) /\ Fits(w, stream'[l]) /\ LinesFollow(t, w)
      BY <1>1
    <2>2. LoggersFollow(t, w)
      BY <2>1 DEF LoggersFollow, Holds
    <2>3. StreamsFollow(t, w)
      BY <2>1 DEF StreamsFollow, Holds
    <2> QED
      BY <2>1, <2>2, <2>3
  <1>2. spoilt' \subseteq Logger /\ spoilt \subseteq spoilt' /\ lock' \in [Mutex -> Thread \cup {Null}]
    BY DEF Inv, Types
  <1> QED
    BY <1>1, <1>2, QuietStep

LEMMA Pieces ==
  ASSUME NEW a, NEW b
  PROVE  Append(<<>>, a) = <<a>> /\ Append(<<a>>, b) = <<a, b>>
  <1> DEFINE S == {a, b}
  <1>1. <<>> \in Seq(S) /\ <<a>> \in Seq(S) /\ <<a, b>> \in Seq(S) /\ a \in S /\ b \in S
    OBVIOUS
  <1>2. /\ Append(<<>>, a) \in Seq(S) /\ Len(Append(<<>>, a)) = 1 /\ Append(<<>>, a)[1] = a
        /\ Append(<<a>>, b) \in Seq(S) /\ Len(Append(<<a>>, b)) = 2
        /\ Append(<<a>>, b)[1] = a /\ Append(<<a>>, b)[2] = b
    BY <1>1, AppendProperties
  <1> DEFINE s1 == Append(<<>>, a)
             s2 == Append(<<a>>, b)
  <1> HIDE DEF s1, s2, S
  <1>3. s1 = <<a>>
    BY <1>1, <1>2, SeqEqual DEF s1
  <1>4. s2 = <<a, b>>
    <2> DEFINE z == <<a, b>>
    <2>1. z \in Seq(S) /\ Len(z) = 2 /\ z[1] = a /\ z[2] = b
      BY <1>1
    <2>2. s2 \in Seq(S) /\ Len(s2) = 2 /\ s2[1] = a /\ s2[2] = b
      BY <1>2 DEF s2
    <2> HIDE DEF z
    <2>3. \A i \in 1..Len(s2) : s2[i] = z[i]
      BY <2>1, <2>2
    <2>4. s2 = z
      BY <2>1, <2>2, <2>3, SeqEqual
    <2> QED
      BY <2>4 DEF z
  <1> QED
    BY <1>3, <1>4 DEF s1, s2

LEMMA MessageText ==
  ASSUME NEW by \in Name
  PROVE  /\ Message(by) \in Text /\ <<>> \in Text
         /\ Message(by) \o <<>> = Message(by)
         /\ \A s \in Text : <<>> \o s = s /\ s \o <<>> = s
  <1>1. <<by, 1>> \in Name \X {1, 2} /\ <<by, 2>> \in Name \X {1, 2}
    OBVIOUS
  <1>2. Message(by) \in Text
    BY <1>1 DEF Message, Text
  <1>3. \A s \in Text : <<>> \o s = s /\ s \o <<>> = s
    BY ConcatEmptySeq DEF Text
  <1> QED
    BY <1>2, <1>3 DEF Text

LEMMA PutPieceInv ==
  ASSUME Inv, NEW t \in Thread, NEW k \in 1..2, PutPiece(t, k)
  PROVE  Inv'
  <1> DEFINE top == Top(t)
             p == IF k = 1 THEN "piece1" ELSE "piece2"
             q == IF k = 2 THEN "process" ELSE IF top.kind = "api" THEN "lock" ELSE "piece2"
             w == To(top, q)
             l == LoggerOf(top)
             put == top.proceed \/ (top.kind = "api" /\ k = 1)
  <1>1. /\ At(t, p) /\ Goto(t, q) /\ made' = made
        /\ UNCHANGED <<settings, lock, sinks, spoilt>>
        /\ stream' = IF put THEN [stream EXCEPT ![l] = Append(stream[l], Piece(top, k))]
                     ELSE stream
    BY DEF PutPiece
  <1>2. /\ top \in Writer /\ top.at = p /\ Usual(top) /\ stack[t] # <<>>
    BY <1>1, TopFacts
  <1>3. p \in {"piece1", "piece2"} /\ q \in Place /\ q \in {"process", "lock", "piece2"}
    BY DEF Place
  <1>4. Changes(t, w) /\ Len(stack[t]) \in DOMAIN stack'[t]
    BY <1>1, <1>3, Goes
  <1>5. /\ w.at = q /\ w.kind = top.kind /\ w.by = top.by /\ w.i = top.i
        /\ w.ids = top.ids /\ w.first = top.first /\ w.proceed = top.proceed
        /\ w.saved = top.saved /\ LoggerOf(w) = l
    BY <1>2, SameBut
  <1>6. top.i = 1 /\ l \in Logger
    BY <1>2, <1>3 DEF Usual, Found
  <1>7. Piece(top, k) \in Name \X {1, 2}
    BY <1>2 DEF Piece, Writer
  <1>8. stream \in [Logger -> Text]
    BY DEF Inv, Types
  <1> HIDE DEF w
  <1>9. /\ stream' \in [Logger -> Text] /\ \A o \in Logger \ {l} : stream'[o] = stream[o]
        /\ stream'[l] = IF put THEN Append(stream[l], Piece(top, k)) ELSE stream[l]
    <2>1. Append(stream[l], Piece(top, k)) \in Text
      BY <1>6, <1>7, <1>8 DEF Text
    <2> QED
      BY <1>1, <1>6, <1>8, <2>1
  <1>10. Usual(w)
    BY <1>2, <1>3, <1>5, <1>6 DEF Usual, Found
  <1>11. Holds(top, l) /\ Holds(w, l)
    BY <1>2, <1>3, <1>5 DEF Holds, HoldsLogger
  <1>12. SameWriter(t, w) /\ StorageFollows(t, w)
    BY <1>1, <1>3, <1>5, <1>10 DEF SameWriter, StorageFollows, HoldsStorage
  <1>13. ASSUME LoggersKept, Streams, Lines
         PROVE  lock[l] = t /\ Keeps(w) /\ Fits(w, stream'[l]) /\ LinesFollow(t, w)
    <2>1. Keeps(top) /\ lock[l] = t /\ Fits(top, stream[l])
      BY <1>1, <1>11, <1>13, TopSound DEF Holds
    <2>2. Keeps(w)
      BY <1>2, <1>3, <1>5, <2>1 DEF Keeps
    <2>3. LinesFollow(t, w)
      BY <1>2, <1>3, <1>5 DEF LinesFollow, Wrote
    <2>4. CASE k = 1
      <3>1. stream[l] = <<>>
        BY <1>2, <2>1, <2>4 DEF Fits
      <3>2. put => stream'[l] = <<Piece(top, 1)>>
        BY <1>9, <2>4, <3>1, Pieces
      <3> HIDE DEF l
      <3>3. Fits(w, stream'[l])
        BY <1>5, <1>9, <2>4, <3>1, <3>2 DEF Fits, Piece
      <3> QED
        BY <2>1, <2>2, <2>3, <3>3
    <2>5. CASE k = 2
      <3>1. top.proceed => stream[l] = <<Piece(top, 1)>>
        BY <1>2, <2>1, <2>5 DEF Fits
      <3>2. top.proceed => stream'[l] = <<Piece(top, 1), Piece(top, 2)>>
        BY <1>9, <2>5, <3>1, Pieces
      <3> HIDE DEF l
      <3>3. Fits(w, stream'[l])
        BY <1>5, <1>6, <2>5, <3>2 DEF Fits, Piece, Message
      <3> QED
        BY <2>1, <2>2, <2>3, <3>3
    <2> QED
      BY <2>4, <2>5
  <1>14. w.at # "write"
    BY <1>3, <1>5
  <1> HIDE DEF l, put, p, q, top
  <1> QED
    BY <1>1, <1>2, <1>4, <1>6, <1>9, <1>11, <1>12, <1>13, <1>14, HolderStep DEF top

LEMMA ProcessInv ==
  ASSUME Inv, NEW t \in Thread, Process(t)
  PROVE  Inv'
  <1> DEFINE top == Top(t)
             l == LoggerOf(top)
             all == stream[l] \o top.saved
             w == [top EXCEPT !.first = TRUE, !.text = all, !.at = "dispatch",
                              !.saved = IF top.first THEN top.saved ELSE all]
  <1>1. /\ At(t, "process") /\ made' = made
        /\ UNCHANGED <<settings, lock, sinks, spoilt>>
        /\ IF top.proceed THEN stream' = [stream EXCEPT ![l] = all] /\ Become(t, w)
           ELSE Goto(t, "clear") /\ stream' = stream
    BY DEF Process
  <1>2. /\ top \in Writer /\ top.at = "process" /\ Usual(top) /\ stack[t] # <<>>
    BY <1>1, TopFacts
  <1>3. stream \in [Logger -> Text] /\ lock \in [Mutex -> Thread \cup {Null}]
    BY DEF Inv, Types
  <1>4. l \in Logger /\ top.i \in Nat /\ top.i >= 1 /\ HoldsLogger(top)
    BY <1>2 DEF Usual, Found, Writer, HoldsLogger
  <1>5. CASE ~top.proceed
    <2> DEFINE z == To(top, "clear")
    <2>1. /\ z.at = "clear" /\ z.kind = top.kind /\ z.by = top.by /\ z.i = top.i
          /\ z.ids = top.ids /\ z.first = top.first
          /\ z.saved = top.saved /\ LoggerOf(z) = l
      BY <1>2, SameBut
    <2> HIDE DEF z
    <2>2. StorageFollows(t, z)
      BY <1>1, <2>1 DEF StorageFollows, HoldsStorage
    <2>3. Usual(z) /\ HoldsLogger(z) /\ (Keeps(top) => Keeps(z))
      BY <1>2, <1>4, <2>1 DEF Usual, HoldsLogger, Keeps
    <2>4. "clear" \in Place
      BY DEF Place
    <2>5. Goto(t, "clear") /\ UNCHANGED <<settings, stream, sinks, spoilt>> /\ lock' = lock
      BY <1>1, <1>5
    <2> QED
      BY <1>1, <1>3, <1>4, <2>2, <2>3, <2>4, <2>5, GotoStep DEF z
  <1>6. CASE top.proceed
    <2>1. all \in Text
      BY <1>2, <1>3, <1>4, ConcatProperties DEF Text, Writer
    <2> HIDE DEF all, top
    <2>2. w \in Writer
      BY <1>2, <2>1 DEF Writer, Place
    <2>3. /\ w.kind = top.kind /\ w.by = top.by /\ w.i = top.i /\ w.at = "dispatch"
          /\ w.ids = top.ids /\ w.first = TRUE /\ w.text = all
          /\ w.saved = IF top.first THEN top.saved ELSE all
      BY <1>2 DEF Writer
    <2>4. LoggerOf(w) = l
      BY <2>3 DEF LoggerOf
    <2> HIDE DEF w, l
    <2>5. Changes(t, w) /\ Len(stack[t]) \in DOMAIN stack'[t]
      BY <1>1, <1>2, <1>6, <2>2, Becomes DEF Inv
    <2>6. Usual(w)
      BY <1>2, <1>4, <2>3, <2>4 DEF Usual, l
    <2>7. Holds(top, l) /\ Holds(w, l)
      BY <1>4, <2>3, <2>4 DEF Holds, HoldsLogger, l
    <2>8. SameWriter(t, w) /\ StorageFollows(t, w)
      BY <1>1, <2>3, <2>6 DEF SameWriter, StorageFollows, HoldsStorage, top
    <2>9. /\ stream' \in [Logger -> Text] /\ stream'[l] = all
          /\ \A o \in Logger \ {l} : stream'[o] = stream[o]
      BY <1>1, <1>3, <1>4, <1>6, <2>1
    <2>10. ASSUME LoggersKept, Streams, Lines
           PROVE  lock[l] = t /\ Keeps(w) /\ Fits(w, stream'[l]) /\ LinesFollow(t, w)
      <3>1. Keeps(top) /\ lock[l] = t /\ Fits(top, stream[l])
        BY <1>1, <1>4, <2>10, TopSound DEF top, l
      <3>2. top.by \in Name /\ top.saved \in Text
        BY <1>2 DEF Writer
      <3>3. /\ w.text = w.saved /\ w.saved \in {<<>>, Message(w.by)}
            /\ w.i = 1 => w.text = Message(w.by)
            /\ w.i # 1 => w.saved = top.saved
        <4>1. CASE top.i = 1
          <5>1. stream[l] = Message(top.by) /\ top.saved = <<>> /\ ~top.first
            BY <1>2, <1>6, <3>1, <4>1 DEF Fits, Keeps
          <5>2. all = Message(top.by)
            BY <3>2, <5>1, MessageText DEF all
          <5> QED
            BY <2>3, <4>1, <5>1, <5>2
        <4>2. CASE top.i # 1
          <5>1. stream[l] = <<>>
            BY <1>2, <1>6, <3>1, <4>2 DEF Fits
          <5>2. all = top.saved
            BY <3>2, <5>1, MessageText DEF all
          <5> QED
            BY <2>3, <3>1, <4>2, <5>2 DEF Keeps
        <4> QED
          BY <4>1, <4>2
      <3>4. Keeps(w)
        BY <2>3, <3>3 DEF Keeps
      <3>5. Fits(w, stream'[l])
        BY <2>3 DEF Fits
      <3>6. LinesFollow(t, w)
        <4> SUFFICES ASSUME NEW k \in DOMAIN log, Wrote(top, log[k])
                     PROVE  Wrote(w, log[k])
          BY DEF LinesFollow, top
        <4>1. log[k].by = top.by => log[k].i < top.i
          BY <1>2 DEF Wrote
        <4>2. log[k] \in Line
          BY DEF Inv, Types
        <4>3. log[k].i \in Nat
          BY <4>2 DEF Line
        <4> QED
          BY <1>4, <2>3, <3>3, <4>1, <4>3 DEF Wrote
      <3> QED
        BY <3>1, <3>4, <3>5, <3>6
    <2>11. w.at # "write"
      BY <2>3
    <2>12. UNCHANGED <<settings, lock, sinks, spoilt>>
      BY <1>1
    <2> QED
      BY <1>2, <1>4, <2>5, <2>7, <2>8, <2>9, <2>10, <2>11, <2>12, HolderStep DEF top
  <1> QED
    BY <1>5, <1>6

\* The top of the stack becomes w, and a Writer of the library's own comes above it.
LEMMA PushesOver ==
  ASSUME Types, NEW t \in Thread, stack[t] # <<>>, NEW w \in Writer, NEW level \in Level,
         Push(t, Append(Front(stack[t]), w), "nested", level, <<DefaultId>>)
  PROVE  Changes(t, w)
  <1> DEFINE below == Append(Front(stack[t]), w)
  <1>1. stack[t] \in Seq(Writer)
    BY DEF Types
  <1>2. /\ below \in Seq(Writer) /\ Len(below) = Len(stack[t])
        /\ \A k \in 1..Len(stack[t])-1 : below[k] = stack[t][k]
        /\ below[Len(stack[t])] = w
    BY <1>1, Replaced
  <1>3. <<DefaultId>> \in Seq(Id) /\ Len(<<DefaultId>>) > 0
    BY Assumed DEF Id
  <1> HIDE DEF below
  <1>4. Push(t, below, "nested", level, <<DefaultId>>)
    BY DEF below
  <1> QED
    BY <1>2, <1>3, <1>4, Pushes

LEMMA ClearInv ==
  ASSUME Inv, NEW t \in Thread, Clear(t)
  PROVE  Inv'
  <1> DEFINE top == Top(t)
             l == LoggerOf(top)
             q == IF top.proceed /\ top.level = "Fatal" /\ settings.abort THEN "abort" ELSE "next"
             w == To(top, q)
  <1>1. /\ At(t, "clear") /\ stream' = [stream EXCEPT ![l] = <<>>]
        /\ lock' = [m \in Mutex |-> IF m \in {l} THEN Null ELSE lock[m]]
        /\ spoilt' = IF lock[l] \in {t, Null} THEN spoilt ELSE spoilt \cup {l}
        /\ UNCHANGED <<settings, sinks>>
        /\ IF q = "abort"
           THEN Push(t, Append(Front(stack[t]), w), "nested", "Warning", <<DefaultId>>)
           ELSE Goto(t, "next") /\ made' = made
    BY DEF Clear, Unlock, Release, To
  <1>2. /\ top \in Writer /\ top.at = "clear" /\ Usual(top) /\ stack[t] # <<>>
    BY <1>1, TopFacts
  <1>3. q \in {"abort", "next"} /\ q \in Place
    BY DEF Place
  <1>4. Changes(t, w)
    <2>1. CASE q = "abort"
      <3>1. w \in Writer
        BY <1>2, <1>3 DEF To, Writer
      <3>2. "Warning" \in Level
        BY DEF Level
      <3> HIDE DEF w
      <3> QED
        BY <1>1, <1>2, <2>1, <3>1, <3>2, PushesOver DEF Inv
    <2>2. CASE q = "next"
      BY <1>1, <1>3, <2>2, Goes
    <2> QED
      BY <1>3, <2>1, <2>2
  <1> HIDE DEF q
  <1>5. /\ w.at = q /\ w.kind = top.kind /\ w.by = top.by /\ w.i = top.i
        /\ w.ids = top.ids /\ w.first = top.first
        /\ w.saved = top.saved /\ LoggerOf(w) = l
    BY <1>2, SameBut
  <1> HIDE DEF w
  <1>6. l \in Logger
    BY <1>2 DEF Usual, Found
  <1>7. /\ stream' \in [Logger -> Text] /\ stream'[l] = <<>>
        /\ \A o \in Logger \ {l} : stream'[o] = stream[o]
        /\ lock' \in [Mutex -> Thread \cup {Null}]
        /\ \A m \in Mutex \ {l} : lock'[m] = lock[m]
        /\ spoilt' \subseteq Logger /\ spoilt \subseteq spoilt'
    <2>1. <<>> \in Text
      BY DEF Text
    <2> QED
      BY <1>1, <1>6, <2>1 DEF Inv, Types
  <1>8. Usual(w)
    BY <1>2, <1>3, <1>5 DEF Usual, Found
  <1>9. HoldsLogger(top) /\ ~HoldsLogger(w)
    BY <1>2, <1>3, <1>5 DEF HoldsLogger
  <1>10. SameWriter(t, w)
    BY <1>5, <1>8 DEF SameWriter
  <1>11. StorageFollows(t, w)
    BY <1>3, <1>5, <1>6, <1>7, Assumed DEF StorageFollows, HoldsStorage
  <1>12. ASSUME LoggersKept, Streams, Lines
         PROVE  LoggersFollow(t, w) /\ StreamsFollow(t, w) /\ LinesFollow(t, w)
    <2>1. Keeps(top) /\ OnlyTop(t, l)
      BY <1>1, <1>9, <1>12, TopSound
    <2>2. LoggersFollow(t, w)
      BY <1>2, <1>7, <1>9, <2>1, Assumed DEF LoggersFollow, Holds
    <2>3. Keeps(w)
      BY <1>2, <1>3, <1>5, <2>1 DEF Keeps
    <2>4. StreamsFollow(t, w)
      BY <1>2, <1>7, <1>9, <2>3 DEF StreamsFollow, Holds
    <2>5. LinesFollow(t, w)
      BY <1>2, <1>3, <1>5 DEF LinesFollow, Wrote
    <2> QED
      BY <2>2, <2>4, <2>5
  <1>13. w.at # "write"
    BY <1>3, <1>5
  <1> QED
    BY <1>1, <1>4, <1>7, <1>10, <1>11, <1>12, <1>13, QuietStep

LEMMA ComplainInv ==
  ASSUME Inv, NEW t \in Thread, Complain(t)
  PROVE  Inv'
  <1> DEFINE top == Top(t)
             w == To(top, "next")
  <1>1. /\ At(t, "complain")
        /\ lock' = [m \in Mutex |-> IF m \in {"Storage", "Registry"} THEN Null ELSE lock[m]]
        /\ UNCHANGED <<settings, stream, sinks, spoilt>>
        /\ Push(t, Append(Front(stack[t]), w), "nested", "Debug", <<DefaultId>>)
    BY DEF Complain, Release, To
  <1>2. /\ top \in Writer /\ top.at = "complain" /\ Usual(top) /\ stack[t] # <<>>
    BY <1>1, TopFacts
  <1>3. w \in Writer
    BY <1>2 DEF To, Writer, Place
  <1>4. /\ w.at = "next" /\ w.kind = top.kind /\ w.by = top.by /\ w.i = top.i
        /\ w.ids = top.ids /\ w.first = top.first
        /\ w.saved = top.saved /\ LoggerOf(w) = LoggerOf(top)
    BY <1>2, SameBut
  <1> HIDE DEF w
  <1>5. Changes(t, w)
    BY <1>1, <1>2, <1>3, PushesOver DEF Inv, Level
  <1>6. lock' \in [Mutex -> Thread \cup {Null}] /\ \A o \in Logger : lock'[o] = lock[o]
    BY <1>1, Assumed DEF Inv, Types
  <1>7. Usual(w)
    BY <1>2, <1>4 DEF Usual, Found
  <1>8. ~HoldsLogger(top) /\ ~HoldsLogger(w)
    BY <1>2, <1>4 DEF HoldsLogger
  <1>9. SameWriter(t, w) /\ StorageFollows(t, w)
    BY <1>2, <1>4, <1>7 DEF SameWriter, StorageFollows, HoldsStorage
  <1>10. ASSUME LoggersKept, Streams, Lines
         PROVE  LoggersFollow(t, w) /\ StreamsFollow(t, w) /\ LinesFollow(t, w)
    <2>1. Keeps(w)
      <3>1. Keeps(top)
        BY <1>1, <1>10, TopSound
      <3> QED
        BY <1>2, <1>4, <3>1 DEF Keeps
    <2>2. LinesFollow(t, w)
      BY <1>2, <1>4 DEF LinesFollow, Wrote
    <2> QED
      BY <1>1, <1>6, <1>8, <2>1, <2>2 DEF LoggersFollow, StreamsFollow, Holds
  <1>11. stream' \in [Logger -> Text] /\ spoilt' \subseteq Logger /\ spoilt \subseteq spoilt'
         /\ w.at # "write" /\ UNCHANGED <<settings, sinks>>
    BY <1>1, <1>4 DEF Inv, Types
  <1> QED
    BY <1>5, <1>6, <1>9, <1>10, <1>11, QuietStep

\* The Writer on top of the stack goes, which holds neither a logger nor Storage.
LEMMA PopStep ==
  ASSUME Inv, NEW t \in Thread, NEW p, At(t, p), p \in {"next", "unlock"}, made' = made,
         stack' = [stack EXCEPT ![t] = Front(@)],
         UNCHANGED <<settings, stream, sinks>>, NEW l \in Logger,
         lock' \in [Mutex -> Thread \cup {Null}], lock'["Storage"] = lock["Storage"],
         \A o \in Logger \ {l} : lock'[o] = lock[o],
         spoilt' \subseteq Logger, spoilt \subseteq spoilt',
         spoilt' = {} /\ LoggersKept => lock'[l] = lock[l] \/ lock[l] = Null \/ OnlyTop(t, l)
  PROVE  Inv'
  <1> DEFINE w == Top(t)
  <1>1. w \in Writer /\ w.at = p /\ Usual(w) /\ stack[t] # <<>>
    BY TopFacts
  <1>2. Changes(t, w)
    BY <1>1, Pops DEF Inv
  <1>3. ~HoldsLogger(w) /\ ~HoldsStorage(w) /\ w.at # "write"
    BY <1>1 DEF HoldsLogger, HoldsStorage
  <1>4. SameWriter(t, w) /\ StorageFollows(t, w)
    BY <1>1, <1>3 DEF SameWriter, StorageFollows
  <1>5. ASSUME spoilt' = {}, LoggersKept, Streams, Lines
        PROVE  LoggersFollow(t, w) /\ StreamsFollow(t, w) /\ LinesFollow(t, w)
    <2>1. Keeps(w)
      BY <1>5, TopSound
    <2>2. LinesFollow(t, w)
      BY DEF LinesFollow
    <2> HIDE DEF w
    <2>3. StreamsFollow(t, w)
      BY <1>3, <2>1 DEF StreamsFollow, Holds, w
    <2>4. LoggersFollow(t, w)
      BY <1>1, <1>3, <1>5 DEF LoggersFollow, Holds
    <2> QED
      BY <2>2, <2>3, <2>4
  <1>6. stream' \in [Logger -> Text]
    BY DEF Inv, Types
  <1> HIDE DEF w
  <1> QED
    BY <1>2, <1>3, <1>4, <1>5, <1>6, QuietStep

LEMMA NextLoggerInv ==
  ASSUME Inv, NEW t \in Thread, NextLogger(t)
  PROVE  Inv'
  <1> DEFINE top == Top(t)
             w == [top EXCEPT !.i = top.i + 1, !.proceed = FALSE, !.at = "get"]
  <1>1. /\ At(t, "next") /\ made' = made
        /\ UNCHANGED <<settings, lock, stream, sinks, spoilt>>
        /\ \/ top.i < Len(top.ids) /\ Become(t, w)
           \/ \E q \in {"unlock", "abort"} :
                Goto(t, q) /\ (q = "unlock" => top.kind = "api")
           \/ stack' = [stack EXCEPT ![t] = Front(@)]
    BY DEF NextLogger
  <1>2. /\ top \in Writer /\ top.at = "next" /\ Usual(top) /\ stack[t] # <<>>
    BY <1>1, TopFacts
  <1>3. lock' \in [Mutex -> Thread \cup {Null}] /\ spoilt' \subseteq Logger
        /\ stream' \in [Logger -> Text]
    BY <1>1 DEF Inv, Types
  <1>4. ~HoldsLogger(top) /\ top.i \in Nat /\ top.i >= 1
    BY <1>2 DEF HoldsLogger, Writer, Usual
  <1>5. CASE top.i < Len(top.ids) /\ Become(t, w)
    <2> HIDE DEF top
    <2>1. /\ w \in Writer /\ w.at = "get" /\ w.i = top.i + 1 /\ w.kind = top.kind
          /\ w.by = top.by /\ w.ids = top.ids /\ w.first = top.first
          /\ w.saved = top.saved
      <3>1. top.i + 1 \in Nat /\ "get" \in Place
        BY <1>4 DEF Place
      <3> QED
        BY <1>2, <3>1 DEF Writer
    <2> HIDE DEF w
    <2>2. Changes(t, w)
      BY <1>1, <1>2, <1>5, <2>1, Becomes DEF Inv
    <2>3. Usual(w)
      <3>1. top.ids \in Seq(Id)
        BY <1>2 DEF Writer
      <3>2. Len(top.ids) \in Nat
        BY <3>1
      <3> DEFINE i == top.i
                 n == Len(top.ids)
      <3>3. i \in Nat /\ n \in Nat /\ i >= 1 /\ i < n
        BY <1>4, <1>5, <3>2
      <3>4. top.kind = "api" => n = 1
        BY <1>2, Zenon DEF Usual
      <3>5. w.i = i + 1 /\ Len(w.ids) = n
        BY <2>1
      <3> HIDE DEF i, n
      <3>6. n # 1 /\ i + 1 \in 1..n
        BY <3>3
      <3>7. w.kind # "api" /\ w.i \in 1..Len(w.ids)
        BY <2>1, <3>4, <3>5, <3>6
      <3> QED
        BY <2>1, <3>7 DEF Usual, Found
    <2>4. ~HoldsLogger(w) /\ ~HoldsStorage(w) /\ w.at # "write"
      BY <2>1 DEF HoldsLogger, HoldsStorage
    <2>5. SameWriter(t, w) /\ StorageFollows(t, w)
      BY <1>1, <2>1, <2>3, <2>4 DEF SameWriter, StorageFollows, top
    <2>6. ASSUME LoggersKept, Streams, Lines
          PROVE  LoggersFollow(t, w) /\ StreamsFollow(t, w) /\ LinesFollow(t, w)
      <3>1. Keeps(w)
        <4>1. Keeps(top)
          BY <1>1, <2>6, TopSound DEF top
        <4> QED
          BY <1>4, <2>1, <4>1 DEF Keeps
      <3>2. LinesFollow(t, w)
        <4> SUFFICES ASSUME NEW k \in DOMAIN log, Wrote(top, log[k])
                     PROVE  Wrote(w, log[k])
          BY DEF LinesFollow, top
        <4>1. log[k] \in Line
          BY DEF Inv, Types
        <4>2. log[k].i \in Nat
          BY <4>1 DEF Line
        <4> QED
          BY <1>4, <2>1, <4>2 DEF Wrote
      <3> QED
        BY <1>1, <1>4, <2>4, <3>1, <3>2 DEF LoggersFollow, StreamsFollow, Holds, top
    <2> QED
      BY <1>1, <1>3, <2>2, <2>4, <2>5, <2>6, QuietStep
  <1>6. ASSUME NEW q \in {"unlock", "abort"}, Goto(t, q), q = "unlock" => top.kind = "api"
        PROVE  Inv'
    <2> DEFINE z == To(top, q)
    <2>1. /\ z.at = q /\ z.kind = top.kind /\ z.by = top.by /\ z.i = top.i
          /\ z.ids = top.ids /\ z.first = top.first
          /\ z.saved = top.saved /\ LoggerOf(z) = LoggerOf(top)
      BY <1>2, SameBut
    <2> HIDE DEF z
    <2>2. StorageFollows(t, z)
      BY <1>1, <2>1 DEF StorageFollows, HoldsStorage
    <2>3. Usual(z) /\ ~HoldsLogger(z) /\ (Keeps(top) => Keeps(z))
      BY <1>2, <1>6, <2>1 DEF Usual, HoldsLogger, Keeps, Found
    <2>4. q \in Place /\ q # "write"
      BY DEF Place
    <2> QED
      BY <1>1, <1>3, <1>4, <1>6, <2>2, <2>3, <2>4, GotoStep DEF z
  <1>7. CASE stack' = [stack EXCEPT ![t] = Front(@)]
    BY <1>1, <1>3, <1>7, PopStep, Assumed
  <1> QED
    BY <1>1, <1>5, <1>6, <1>7

LEMMA UnlockScopeInv ==
  ASSUME Inv, NEW t \in Thread, UnlockScope(t)
  PROVE  Inv'
  <1> DEFINE l == LoggerOf(Top(t))
  <1>1. /\ At(t, "unlock") /\ stack' = [stack EXCEPT ![t] = Front(@)]
        /\ lock' = [m \in Mutex |-> IF m \in {l} THEN Null ELSE lock[m]]
        /\ spoilt' = IF lock[l] \in {t, Null} THEN spoilt ELSE spoilt \cup {l}
        /\ UNCHANGED <<settings, made, stream, sinks>>
    BY DEF UnlockScope, Unlock, Release
  <1>2. /\ Top(t) \in Writer /\ Usual(Top(t)) /\ Top(t).at = "unlock" /\ Top(t).kind = "api"
        /\ Len(stack[t]) = 1
    BY <1>1, TopFacts DEF Usual
  <1>3. l \in Logger
    BY <1>2 DEF Usual
  <1>4. /\ lock' \in [Mutex -> Thread \cup {Null}] /\ lock'["Storage"] = lock["Storage"]
        /\ \A o \in Logger \ {l} : lock'[o] = lock[o]
        /\ spoilt' \subseteq Logger /\ spoilt \subseteq spoilt'
    BY <1>1, <1>3, Assumed DEF Inv, Types
  <1> HIDE DEF l
  <1>5. ASSUME spoilt' = {}, LoggersKept PROVE lock[l] = Null \/ OnlyTop(t, l)
    <2>1. lock[l] \in {t, Null}
      BY <1>1, <1>5
    <2>2. DOMAIN stack[t] = 1..1
      BY <1>2 DEF Inv, Types
    <2>3. ASSUME lock[l] = t, NEW u \in Thread, NEW k \in DOMAIN stack[u],
                 HoldsLogger(stack[u][k]), LoggerOf(stack[u][k]) = l
          PROVE  u = t /\ k = Len(stack[t])
      <3>1. u = t
        BY <1>5, <2>3 DEF LoggersKept
      <3>2. k \in 1..1
        BY <2>2, <2>3, <3>1
      <3> QED
        BY <1>2, <3>1, <3>2
    <2> QED
      BY <2>1, <2>3 DEF OnlyTop
  <1> QED
    BY <1>1, <1>3, <1>4, <1>5, PopStep

LEMMA SameInv ==
  ASSUME Inv, UNCHANGED <<settings, lock, stack, made, stream, sinks, spoilt>>
  PROVE  Inv'
  <1>1. UNCHANGED <<settings, lock, stack, made, stream, log, start, size, disk, count, failed, spoilt>>
    BY DEF sinks
  <1>2. Types' /\ Frames' /\ StorageKept'
    BY <1>1 DEF Inv, Types, Frames, StorageKept
  <1>3. Whole'
    BY <1>1 DEF Inv, Whole, LoggersKept, Streams, Lines
  <1>4. WholeLines'
    BY <1>1 DEF Inv, WholeLines
  <1>5. Counted'
    BY <1>1 DEF Inv, Counted, OneLineOver, Unflushed, Limit
  <1> QED
    BY <1>2, <1>3, <1>4, <1>5 DEF Inv

\* A Writer comes on top of what is there.
LEMMA BeginStep ==
  ASSUME Inv, NEW t \in Thread, ~aborted,
         NEW kind \in {"log", "api", "nested", "crash"}, NEW level \in Level,
         NEW ids \in Seq(Id), Len(ids) > 0,
         kind = "api" => stack[t] = <<>> /\ Len(ids) = 1 /\ ids[1] \in Logger,
         Push(t, stack[t], kind, level, ids), UNCHANGED <<settings, lock, stream, sinks, spoilt>>
  PROVE  Inv'
  <1> DEFINE w == Top(t)
  <1>1. stack[t] \in Seq(Writer)
    BY DEF Inv, Types
  <1>2. stack[t] # <<>> => stack[t][Len(stack[t])] = w /\ At(t, w.at)
    BY OnTop DEF Inv, At
  <1> HIDE DEF w
  <1>3. Changes(t, w) /\ (stack[t] # <<>> => Len(stack[t]) \in DOMAIN stack'[t])
    BY <1>1, <1>2, Pushes DEF Inv
  <1>4. SameWriter(t, w) /\ StorageFollows(t, w)
    <2>1. stack[t] # <<>> => Usual(w)
      BY <1>2, TopFacts DEF w
    <2> QED
      BY <2>1 DEF SameWriter, StorageFollows, w
  <1>5. ASSUME LoggersKept, Streams, Lines
        PROVE  LoggersFollow(t, w) /\ StreamsFollow(t, w) /\ LinesFollow(t, w)
    <2>1. stack[t] # <<>> =>
            /\ Keeps(w)
            /\ HoldsLogger(w) => /\ LoggerOf(w) \in Logger /\ lock[LoggerOf(w)] = t
                                 /\ Fits(w, stream[LoggerOf(w)])
      BY <1>2, <1>5, TopSound DEF w
    <2>2. LoggersFollow(t, w)
      BY <2>1 DEF LoggersFollow, Holds, w
    <2>3. StreamsFollow(t, w)
      BY <1>3, <2>1 DEF StreamsFollow, Holds, w
    <2>4. LinesFollow(t, w)
      BY DEF LinesFollow, w
    <2> QED
      BY <2>2, <2>3, <2>4
  <1>6. /\ lock' \in [Mutex -> Thread \cup {Null}] /\ stream' \in [Logger -> Text]
        /\ spoilt' \subseteq Logger /\ spoilt \subseteq spoilt'
        /\ stack[t] # <<>> /\ w.at = "write" => Top(t).at = "write"
    BY DEF Inv, Types, w
  <1> QED
    BY <1>3, <1>4, <1>5, <1>6, QuietStep

LEMMA StatementInv ==
  ASSUME Inv, NEW t \in Thread, Statement(t)
  PROVE  Inv'
  <1>1. settings \in Setting
    BY DEF Inv, Types
  <1>2. settings.levels \subseteq {"Info", "Fatal"} /\ settings.ids \subseteq Id
    BY <1>1 DEF Setting, Id
  <1>3. PICK level \in settings.levels, kind \in {"log", "api"}, ids \in Seq(Id) :
          /\ Push(t, <<>>, kind, level, ids) /\ Len(ids) > 0
          /\ kind = "api" => Len(ids) = 1 /\ ids[1] \in Logger
    <2>1. PICK level \in settings.levels :
             \/ \E id \in settings.ids : Push(t, <<>>, "log", level, <<id>>)
             \/ \E id1, id2 \in settings.ids : Push(t, <<>>, "log", level, <<id1, id2>>)
             \/ \E l \in settings.ids \cap Logger : Push(t, <<>>, "api", level, <<l>>)
      BY DEF Statement
    <2>2. ASSUME NEW id \in settings.ids, Push(t, <<>>, "log", level, <<id>>)
          PROVE  <<id>> \in Seq(Id) /\ Len(<<id>>) > 0
      BY <1>2
    <2>3. ASSUME NEW id1 \in settings.ids, NEW id2 \in settings.ids
          PROVE  <<id1, id2>> \in Seq(Id) /\ Len(<<id1, id2>>) > 0
      BY <1>2
    <2>4. ASSUME NEW l \in settings.ids \cap Logger
          PROVE  <<l>> \in Seq(Id) /\ Len(<<l>>) = 1 /\ Len(<<l>>) > 0 /\ <<l>>[1] \in Logger
      BY <1>2
    <2>5. CASE \E id \in settings.ids : Push(t, <<>>, "log", level, <<id>>)
      BY <2>2, <2>5
    <2>6. CASE \E id1, id2 \in settings.ids : Push(t, <<>>, "log", level, <<id1, id2>>)
      BY <2>3, <2>6
    <2>7. CASE \E l \in settings.ids \cap Logger : Push(t, <<>>, "api", level, <<l>>)
      BY <2>4, <2>7
    <2> QED
      BY <2>1, <2>5, <2>6, <2>7
  <1>4. stack[t] = <<>> /\ ~aborted /\ UNCHANGED <<settings, lock, stream, sinks, spoilt>>
    BY DEF Statement
  <1>5. level \in Level
    BY <1>2 DEF Level
  <1>6. Push(t, stack[t], kind, level, ids)
    BY <1>3, <1>4
  <1> QED
    BY <1>3, <1>4, <1>5, <1>6, BeginStep

LEMMA CrashInv ==
  ASSUME Inv, NEW t \in Thread, Crash(t)
  PROVE  Inv'
  <1>1. <<DefaultId>> \in Seq(Id) /\ Len(<<DefaultId>>) > 0
    BY Assumed DEF Id
  <1>2. "Fatal" \in Level
    BY DEF Level
  <1>3. ~aborted /\ Push(t, stack[t], "crash", "Fatal", <<DefaultId>>)
        /\ UNCHANGED <<settings, lock, stream, sinks, spoilt>>
    BY DEF Crash
  <1> QED
    BY <1>1, <1>2, <1>3, BeginStep

\* The Writer that is on top holds Storage, and no other does.
LEMMA OneStorage ==
  ASSUME Inv, NEW t \in Thread, NEW p, At(t, p), HoldsStorage(Top(t)),
         NEW u \in Thread, NEW k \in DOMAIN stack[u], HoldsStorage(stack[u][k])
  PROVE  u = t /\ k = Len(stack[t])
  <1> DEFINE n == Len(stack[t])
  <1>1. n \in DOMAIN stack[t] /\ HoldsStorage(stack[t][n])
    BY OnTop DEF Inv, At
  <1> HIDE DEF n
  <1>2. lock["Storage"] = t /\ lock["Storage"] = u
    BY <1>1 DEF Inv, StorageKept
  <1> QED
    BY <1>1, <1>2 DEF Inv, StorageKept, n

LEMMA Room ==
  ASSUME Inv
  PROVE  /\ settings.maxFile \in Nat /\ settings.threshold \in Nat
         /\ Limit \in Nat /\ Limit > 0 /\ Len(log) \in Nat /\ start \in Nat /\ size \in Nat
         /\ disk \in Nat
         /\ \A l \in Logger, v \in Level : count[l][v] \in Nat
  <1>1. settings \in Setting /\ MaxFile \in Nat
    BY Assumed DEF Inv, Types
  <1>2. settings.maxFile \in 0..MaxFile /\ settings.threshold \in 0..MaxFile
    BY <1>1 DEF Setting
  <1>3. log \in Seq(Line) /\ start \in Nat /\ size \in Nat /\ disk \in Nat /\ count \in [Logger -> [Level -> Nat]]
    BY DEF Inv, Types
  <1> QED
    BY <1>1, <1>2, <1>3 DEF Limit

LEMMA Finite ==
  ASSUME Inv, NEW l, NEW v
  PROVE  IsFiniteSet(Unflushed(l, v)) /\ Cardinality(Unflushed(l, v)) \in Nat
  <1>1. disk + 1 \in Int /\ Len(log) \in Int
    BY Room
  <1>2. IsFiniteSet(disk+1..Len(log))
    BY <1>1, FS_Interval
  <1>3. Unflushed(l, v) \subseteq disk+1..Len(log)
    BY DEF Unflushed
  <1> QED
    BY <1>2, <1>3, FS_Subset, FS_CardinalityType

LEMMA DispatchInv ==
  ASSUME Inv, NEW t \in Thread, Dispatch(t)
  PROVE  Inv'
  <1> DEFINE top == Top(t)
             w == To(top, "write")
  <1>1. /\ At(t, "dispatch") /\ Goto(t, "write") /\ made' = made
        /\ lock["Storage"] = Null /\ lock' = [lock EXCEPT !["Storage"] = t]
        /\ UNCHANGED <<settings, stream, log, count, spoilt>>
        /\ IF settings.maxFile > 0 /\ (failed \/ size >= settings.maxFile)
           THEN start' = Len(log) /\ size' = 0 /\ disk' = Len(log) /\ failed' = FALSE
           ELSE UNCHANGED <<start, size, disk, failed>>
    BY DEF Dispatch, Acquire
  <1>2. /\ top \in Writer /\ top.at = "dispatch" /\ Usual(top) /\ stack[t] # <<>>
    BY <1>1, TopFacts
  <1>3. /\ w.at = "write" /\ w.kind = top.kind /\ w.by = top.by /\ w.i = top.i
        /\ w.ids = top.ids /\ w.first = top.first /\ w.text = top.text
        /\ w.saved = top.saved /\ LoggerOf(w) = LoggerOf(top)
    BY <1>2, SameBut
  <1>4. "write" \in Place
    BY DEF Place
  <1>5. Changes(t, w) /\ Len(stack[t]) \in DOMAIN stack'[t]
    BY <1>1, <1>4, Goes
  <1> HIDE DEF w
  <1>6. /\ lock' \in [Mutex -> Thread \cup {Null}] /\ lock'["Storage"] = t
        /\ \A l \in Logger : lock'[l] = lock[l]
    BY <1>1, Assumed DEF Inv, Types
  <1>7. Types'
    <2>1. start' \in Nat /\ size' \in Nat /\ disk' \in Nat /\ failed' \in BOOLEAN
      <3>1. /\ failed \in BOOLEAN /\ size \in Nat /\ start \in Nat /\ disk \in Nat
            /\ Len(log) \in Nat
        <4>1. failed \in BOOLEAN
          BY DEF Inv, Types
        <4> QED
          BY <4>1, Room
      <3>2. CASE start' = Len(log) /\ size' = 0 /\ disk' = Len(log) /\ failed' = FALSE
        BY <3>1, <3>2
      <3>3. CASE UNCHANGED <<start, size, disk, failed>>
        BY <3>1, <3>3
      <3> QED
        BY <1>1, <3>2, <3>3
    <2> QED
      BY <1>1, <1>5, <1>6, <2>1 DEF Inv, Types, Changes
  <1>8. Usual(w) /\ HoldsLogger(top) /\ HoldsLogger(w) /\ LoggerOf(top) \in Logger
    BY <1>2, <1>3 DEF Usual, Found, HoldsLogger
  <1>9. Frames'
    BY <1>3, <1>5, <1>8, FramesStep DEF Inv, SameWriter
  <1>10. StorageKept'
    BY <1>1, <1>5, <1>6, StorageStep DEF Inv, StorageFollows
  <1>11. ASSUME spoilt' = {} PROVE LoggersKept' /\ Streams' /\ Lines'
    <2>1. LoggersKept /\ Streams /\ Lines
      BY <1>1, <1>11 DEF Inv, Whole
    <2>2. Keeps(top) /\ lock[LoggerOf(top)] = t
      BY <1>1, <1>8, <2>1, TopSound
    <2>3. LoggersFollow(t, w)
      BY <1>3, <1>6, <1>8, <2>2 DEF LoggersFollow, Holds
    <2>4. StreamsFollow(t, w)
      <3>1. Keeps(w)
        BY <1>2, <1>3, <2>2 DEF Keeps
      <3>2. Fits(w, stream'[LoggerOf(w)])
        BY <1>3 DEF Fits
      <3> QED
        BY <1>1, <1>3, <1>5, <1>8, <3>1, <3>2 DEF StreamsFollow, Holds
    <2>5. LinesFollow(t, w)
      BY <1>2, <1>3 DEF LinesFollow, Wrote
    <2> QED
      BY <1>1, <1>5, <1>9, <2>1, <2>3, <2>4, <2>5, LoggersStep, StreamsStep, LinesStep DEF Inv
  <1>12. WholeLines'
    BY <1>1 DEF Inv, WholeLines
  <1>13. Counted'
    <2>1. /\ disk <= Len(log) /\ start <= Len(log) /\ disk' <= Len(log') /\ start' <= Len(log')
      BY <1>1, Room DEF Inv, Counted
    <2>2. settings'.maxFile > 0 => size' < settings'.maxFile
      BY <1>1, <2>1, Room
    <2>3. OneLineOver'
      <3>1. CASE start' = Len(log)
        BY <1>1, <3>1, Room DEF OneLineOver
      <3>2. CASE UNCHANGED <<start, size>>
        BY <1>1, <3>2 DEF Inv, Counted, OneLineOver
      <3> QED
        BY <1>1, <3>1, <3>2
    <2>4. Limit' = Limit
      BY <1>1 DEF Limit
    <2>5. ASSUME NEW l \in Logger, NEW v \in Level
          PROVE  /\ count'[l][v] < Limit'
                 /\ ~failed' => Cardinality(Unflushed(l, v)') <= count'[l][v]
      <3>1. count[l][v] < Limit /\ (~failed => Cardinality(Unflushed(l, v)) <= count[l][v])
        BY DEF Inv, Counted
      <3>2. CASE disk' = Len(log)
        <4>1. Unflushed(l, v)' = {}
          BY <1>1, <3>2, Room DEF Unflushed
        <4>2. Cardinality(Unflushed(l, v)') = 0
          BY <4>1, FS_EmptySet
        <4> QED
          BY <1>1, <2>4, <3>1, <4>2, Room
      <3>3. CASE UNCHANGED <<disk, failed>>
        <4>1. Unflushed(l, v)' = Unflushed(l, v)
          BY <1>1, <3>3 DEF Unflushed
        <4> QED
          BY <1>1, <2>4, <3>1, <3>3, <4>1
      <3> QED
        BY <1>1, <3>2, <3>3
    <2> QED
      BY <2>1, <2>2, <2>3, <2>5 DEF Counted
  <1> QED
    BY <1>7, <1>9, <1>10, <1>11, <1>12, <1>13 DEF Inv, Whole

\* The line that Writer w writes
LineOf(w) ==
  [by |-> w.by, i |-> w.i, logger |-> LoggerOf(w), level |-> w.level, text |-> w.text]

\* What Write does, in short
LEMMA Written ==
  ASSUME Inv, NEW t \in Thread, NEW taken \in BOOLEAN, NEW flushed \in BOOLEAN,
         Write(t, taken, flushed)
  PROVE  LET top == Top(t)
             l == LoggerOf(top)
             flush == FlushNeeded(l, top.level)
         IN
         /\ At(t, "write") /\ Goto(t, "release")
         /\ top \in Writer /\ top.at = "write" /\ Usual(top) /\ stack[t] # <<>>
         /\ l \in Logger /\ LineOf(top) \in Line
         /\ UNCHANGED <<settings, lock, made, stream, start, spoilt>>
         /\ \/ /\ log' = Append(log, LineOf(top))
               /\ size' = size + Size(LineOf(top))
               /\ count' = [count EXCEPT ![l][top.level] = IF flush THEN 0 ELSE count[l][top.level] + 1]
            \/ log' = log /\ size' = size /\ count' = count
         /\ \/ disk' = disk /\ (~failed' => ~flush /\ ~failed /\ log' # log)
            \/ flush /\ disk' = Len(log') /\ ~failed /\ log' # log
         /\ failed' \in BOOLEAN
  <1> DEFINE top == Top(t)
             l == LoggerOf(top)
             flush == FlushNeeded(l, top.level)
  <1>1. /\ At(t, "write") /\ Goto(t, "release")
        /\ UNCHANGED <<settings, lock, made, stream, start, spoilt>>
        /\ failed => ~taken
        /\ failed' = ~(taken /\ flushed)
        /\ IF taken THEN log' = Append(log, LineOf(top)) /\ size' = size + Size(LineOf(top))
           ELSE log' = log /\ size' = size
        /\ disk' = IF taken /\ flushed /\ flush THEN Len(log') ELSE disk
        /\ count' = IF taken
                    THEN [count EXCEPT ![l][top.level] = IF flush THEN 0 ELSE count[l][top.level] + 1]
                    ELSE count
    BY DEF Write, LineOf
  <1>2. top \in Writer /\ top.at = "write" /\ Usual(top) /\ stack[t] # <<>>
    BY <1>1, TopFacts
  <1>3. l \in Logger /\ top.i \in Nat \ {0}
    BY <1>2 DEF Usual, Found, Writer
  <1>4. LineOf(top) \in Line
    BY <1>2, <1>3 DEF LineOf, Line, Writer
  <1>5. log \in Seq(Line)
    BY DEF Inv, Types
  <1> HIDE DEF top, l, flush
  <1>6. Append(log, LineOf(top)) # log
    <2>1. Len(Append(log, LineOf(top))) = Len(log) + 1 /\ Len(log) \in Nat
      BY <1>4, <1>5
    <2> QED
      BY <2>1
  <1>7. CASE taken
    BY <1>1, <1>2, <1>3, <1>4, <1>6, <1>7 DEF top, l, flush
  <1>8. CASE ~taken
    BY <1>1, <1>2, <1>3, <1>4, <1>8 DEF top, l, flush
  <1> QED
    BY <1>7, <1>8

LEMMA LineSize ==
  ASSUME NEW line \in Line
  PROVE  Size(line) \in Nat
  <1>1. line.level \in Level /\ line.text \in Text
    BY DEF Line
  <1>2. FormatSize[line.level] \in Nat
    BY <1>1, WriterAssumption DEF WriterAssumption
  <1>3. Len(line.text) \in Nat
    BY <1>1 DEF Text
  <1> QED
    BY <1>2, <1>3 DEF Size

LEMMA WriteCounted ==
  ASSUME Inv, NEW t \in Thread, NEW taken \in BOOLEAN, NEW flushed \in BOOLEAN,
         Write(t, taken, flushed), NEW w, w.at = "release", Changes(t, w)
  PROVE  Counted'
  <1> DEFINE top == Top(t)
             l == LoggerOf(top)
             v == top.level
             line == LineOf(top)
             flush == FlushNeeded(l, v)
  <1>1. /\ At(t, "write") /\ top.at = "write" /\ top \in Writer /\ stack[t] # <<>>
        /\ l \in Logger /\ line \in Line
        /\ UNCHANGED <<settings, start>>
        /\ \/ /\ log' = Append(log, line) /\ size' = size + Size(line)
              /\ count' = [count EXCEPT ![l][v] = IF flush THEN 0 ELSE count[l][v] + 1]
           \/ log' = log /\ size' = size /\ count' = count
        /\ \/ disk' = disk /\ (~failed' => ~flush /\ ~failed /\ log' # log)
           \/ flush /\ disk' = Len(log') /\ ~failed /\ log' # log
    BY Written
  <1>2. v \in Level /\ line.logger = l /\ line.level = v
    BY <1>1 DEF Writer, LineOf
  <1> HIDE DEF l, v, line
  <1>3. log \in Seq(Line) /\ count \in [Logger -> [Level -> Nat]]
    BY DEF Inv, Types
  <1>4. /\ Len(log') \in Nat /\ (Len(log') = Len(log) \/ Len(log') = Len(log) + 1)
        /\ \A k \in 1..Len(log) : log'[k] = log[k]
        /\ log' # log => Len(log') = Len(log) + 1 /\ log'[Len(log) + 1] = line
    BY <1>1, <1>3, AppendProperties
  <1>5. disk <= Len(log) /\ start <= Len(log) /\ disk' <= Len(log') /\ start' <= Len(log')
    BY <1>1, <1>4, Room DEF Inv, Counted
  <1>6. ASSUME NEW u \in Thread, NEW k \in DOMAIN stack'[u]
        PROVE  stack'[u][k].at # "write"
    <2>1. CASE k \in DOMAIN stack[u] /\ stack'[u][k] = stack[u][k] /\ ~(u = t /\ k = Len(stack[t]))
      BY <1>1, <2>1, OneStorage DEF HoldsStorage
    <2> QED
      BY <2>1 DEF Changes, Starts
  <1>7. OneLineOver'
    <2>1. Len(stack[t]) \in DOMAIN stack[t] /\ stack[t][Len(stack[t])].at = "write"
      BY <1>1, OnTop DEF Inv
    <2>2. settings.maxFile > 0 => size < settings.maxFile
      BY <2>1 DEF Inv, Counted
    <2>3. CASE log' = Append(log, line) /\ size' = size + Size(line)
      <3>1. Last(log') = line
        <4>1. Len(log') = Len(log) + 1 /\ log'[Len(log) + 1] = line
          BY <1>1, <1>3, <2>3, AppendProperties
        <4> QED
          BY <4>1 DEF Last
      <3>2. Size(line) \in Nat
        BY <1>1, LineSize
      <3>3. size' - Size(line) = size
        BY <2>3, <3>2, Room
      <3> QED
        BY <1>1, <2>2, <3>1, <3>3 DEF OneLineOver, Size
    <2>4. CASE log' = log /\ size' = size
      BY <1>1, <2>4 DEF Inv, Counted, OneLineOver
    <2> QED
      BY <1>1, <2>3, <2>4
  <1>8. Limit' = Limit
    BY <1>1 DEF Limit
  <1>9. ASSUME NEW m \in Logger, NEW o \in Level
        PROVE  /\ count'[m][o] < Limit'
               /\ ~failed' => Cardinality(Unflushed(m, o)') <= count'[m][o]
    <2>1. /\ count[m][o] < Limit /\ count[m][o] \in Nat
          /\ ~failed => Cardinality(Unflushed(m, o)) <= count[m][o]
      BY <1>3 DEF Inv, Counted
    <2>2. flush \/ count[l][v] + 1 < Limit
      <3>1. flush \/ ~(count[l][v] + 1 >= settings.threshold)
        BY DEF FlushNeeded
      <3>2. count[l][v] \in Nat
        BY <1>1, <1>2, <1>3
      <3> HIDE DEF flush
      <3> QED
        BY <3>1, <3>2, Room DEF Limit
    <2> HIDE DEF flush
    <2>3. /\ count'[m][o] \in Nat
          /\ \/ count'[m][o] = count[m][o]
             \/ count'[m][o] = 0
             \/ ~flush /\ m = l /\ o = v /\ count'[m][o] = count[m][o] + 1
      BY <1>1, <1>2, <1>3, <2>1
    <2>4. count'[m][o] < Limit'
      BY <1>8, <2>1, <2>2, <2>3, Room
    <2>5. ASSUME ~failed' PROVE Cardinality(Unflushed(m, o)') <= count'[m][o]
      <3>1. CASE disk' = Len(log')
        <4>1. Unflushed(m, o)' = {}
          BY <1>4, <3>1 DEF Unflushed
        <4> QED
          BY <2>3, <4>1, FS_EmptySet
      <3>2. CASE disk' = disk /\ ~flush /\ ~failed /\ log' # log
        <4>1. Len(log') = Len(log) + 1 /\ log'[Len(log) + 1] = line
          BY <1>4, <3>2
        <4>2. IsFiniteSet(Unflushed(m, o)) /\ Cardinality(Unflushed(m, o)) \in Nat
          BY Finite
        <4>3. Cardinality(Unflushed(m, o)) <= count[m][o]
          BY <2>1, <3>2
        <4>4. CASE m = l /\ o = v
          <5>1. Unflushed(m, o)' \subseteq Unflushed(m, o) \cup {Len(log) + 1}
            BY <1>4, <1>5, <3>2, <4>1, Room DEF Unflushed
          <5>2. /\ IsFiniteSet(Unflushed(m, o) \cup {Len(log) + 1})
                /\ Cardinality(Unflushed(m, o) \cup {Len(log) + 1})
                     <= Cardinality(Unflushed(m, o)) + 1
            <6> DEFINE S == Unflushed(m, o)
                       T == S \cup {Len(log) + 1}
            <6>1. IsFiniteSet(S) /\ Cardinality(S) \in Nat
              BY <4>2
            <6> HIDE DEF S
            <6>2. /\ IsFiniteSet(T)
                  /\ Cardinality(T) = IF Len(log) + 1 \in S THEN Cardinality(S)
                                      ELSE Cardinality(S) + 1
              BY <6>1, FS_AddElement
            <6> HIDE DEF T
            <6>3. IsFiniteSet(T) /\ Cardinality(T) <= Cardinality(S) + 1
              BY <6>1, <6>2
            <6> QED
              BY <6>3 DEF S, T
          <5>3. Cardinality(Unflushed(m, o)') <= Cardinality(Unflushed(m, o) \cup {Len(log) + 1})
                /\ Cardinality(Unflushed(m, o)') \in Nat
                /\ Cardinality(Unflushed(m, o) \cup {Len(log) + 1}) \in Nat
            BY <5>1, <5>2, FS_Subset, FS_CardinalityType
          <5>4. count'[m][o] = count[m][o] + 1
            BY <1>1, <1>2, <1>3, <3>2, <4>4
          <5> QED
            BY <2>1, <4>2, <4>3, <5>2, <5>3, <5>4
        <4>5. CASE ~(m = l /\ o = v)
          <5>1. Unflushed(m, o)' = Unflushed(m, o)
            BY <1>2, <1>4, <1>5, <3>2, <4>1, <4>5, Room DEF Unflushed
          <5>2. count'[m][o] = count[m][o]
            BY <1>1, <1>2, <1>3, <4>5
          <5> QED
            BY <4>3, <5>1, <5>2
        <4> QED
          BY <4>4, <4>5
      <3> QED
        BY <1>1, <2>5, <3>1, <3>2
    <2> QED
      BY <2>4, <2>5
  <1> QED
    BY <1>5, <1>6, <1>7, <1>9 DEF Counted

\* The line of the Writer on top is one more of its statement, and whole.
LEMMA WriteWhole ==
  ASSUME Inv, NEW t \in Thread, At(t, "write"), spoilt = {}, made' = made,
         NEW w, w = To(Top(t), "release"), Changes(t, w),
         log' = Append(log, LineOf(Top(t)))
  PROVE  /\ Lines'
         /\ spoilt' = spoilt => WholeLines'
  <1> DEFINE top == Top(t)
             n == Len(log)
             line == LineOf(top)
  <1>1. /\ top \in Writer /\ top.at = "write" /\ Usual(top) /\ stack[t] # <<>>
        /\ top.by[1] = t /\ top.by[2] \in 1..made[t]
    BY TopFacts
  <1>2. LoggersKept /\ Streams /\ Lines /\ WholeLines
    BY DEF Inv, Whole
  <1>3. /\ w.at = "release" /\ w.by = top.by /\ w.i = top.i /\ w.saved = top.saved
    BY <1>1, SameBut
  <1>4. Keeps(top) /\ \A k \in DOMAIN log : Wrote(top, log[k])
    BY <1>2, TopSound
  <1>5. /\ line.by = top.by /\ line.i = top.i /\ line.text = top.text
        /\ top.i \in Nat \ {0}
    BY <1>1 DEF LineOf, Usual, Writer
  <1>6. top.text = top.saved /\ top.saved \in {<<>>, Message(top.by)}
        /\ (top.i = 1 => top.text = Message(top.by))
    BY <1>1, <1>4 DEF Keeps
  <1>7. log \in Seq(Line) /\ line \in Line
    <2>1. LoggerOf(top) \in Logger
      BY <1>1 DEF Usual, Found
    <2> QED
      BY <1>1, <1>5, <2>1 DEF LineOf, Line, Writer, Inv, Types
  <1>8. Len(stack[t]) \in DOMAIN stack[t] /\ top = stack[t][Len(stack[t])]
    BY <1>1, OnTop DEF Inv
  <1> HIDE DEF top, line
  <1>9. /\ DOMAIN log = 1..n /\ DOMAIN log' = 1..n+1 /\ n \in Nat
        /\ \A k \in 1..n : log'[k] = log[k]
        /\ log'[n + 1] = line
    BY <1>7, AppendProperties DEF line, top
  <1> HIDE DEF n
  <1>10. \A k \in 1..n : log[k].i \in Nat \ {0} /\ log[k].by \in Name
    <2>1. \A k \in 1..n : log[k] \in Line
      BY <1>7, <1>9
    <2> QED
      BY <2>1 DEF Line
  <1>11. \A k \in 1..n : log[k].by = top.by =>
           /\ log[k].i < top.i
           /\ log[k].i = 1 => top.saved = Message(top.by)
    BY <1>1, <1>4, <1>9 DEF Wrote
  \* What becomes of the frames
  <1>12. ASSUME NEW u \in Thread, NEW j \in DOMAIN stack'[u]
         PROVE  \/ /\ j \in DOMAIN stack[u] /\ stack'[u][j] = stack[u][j]
                   /\ ~(u = t /\ j = Len(stack[t]))
                \/ u = t /\ stack'[u][j] = w
    <2>1. made[t] \in Nat
      BY DEF Inv, Types
    <2>2. ~Starts(t, stack'[u][j])
      BY <2>1 DEF Starts
    <2> QED
      BY <1>12, <2>2 DEF Changes
  <1>13. ASSUME NEW u \in Thread, NEW j \in DOMAIN stack'[u], NEW k \in 1..n
         PROVE  Wrote(stack'[u][j], log[k])
    <2>1. CASE j \in DOMAIN stack[u] /\ stack'[u][j] = stack[u][j]
      BY <1>2, <1>9, <2>1 DEF Lines
    <2>2. CASE stack'[u][j] = w
      BY <1>1, <1>3, <1>4, <1>9, <2>2 DEF Wrote
    <2> QED
      BY <1>12, <2>1, <2>2
  <1>14. ASSUME NEW u \in Thread, NEW j \in DOMAIN stack'[u]
         PROVE  Wrote(stack'[u][j], line)
    <2>1. CASE u = t /\ stack'[u][j] = w
      BY <1>3, <1>5, <1>6, <2>1 DEF Wrote
    <2>2. CASE /\ j \in DOMAIN stack[u] /\ stack'[u][j] = stack[u][j]
               /\ ~(u = t /\ j = Len(stack[t]))
      <3>1. stack[u][j].by # top.by
        <4>1. stack[u][j].by[1] = u
          BY <2>2 DEF Inv, Frames
        <4>2. CASE u # t
          BY <1>1, <4>1, <4>2
        <4>3. CASE u = t
          <5>1. stack[t] \in Seq(Writer)
            BY DEF Inv, Types
          <5>2. Len(stack[t]) \in Nat /\ DOMAIN stack[t] = 1..Len(stack[t])
            BY <5>1
          <5>3. j \in 1..Len(stack[t])-1
            BY <2>2, <4>3, <5>2
          <5>4. stack[t][j].by[2] < top.by[2]
            BY <1>8, <5>3 DEF Inv, Frames
          <5>5. top.by[2] \in Nat
            BY <1>1 DEF Inv, Types
          <5> QED
            BY <4>3, <5>4, <5>5
        <4> QED
          BY <4>2, <4>3
      <3> QED
        BY <1>5, <2>2, <3>1 DEF Wrote
    <2> QED
      BY <1>12, <2>1, <2>2
  <1>15. Lines'
    <2>1. ASSUME NEW k \in 1..n PROVE log[k].by[2] <= made'[log[k].by[1]]
      BY <1>2, <1>9, <2>1 DEF Lines
    <2>2. line.by[2] <= made'[line.by[1]]
      BY <1>1, <1>5 DEF Inv, Types
    <2>3. ASSUME NEW k \in DOMAIN log'
          PROVE  /\ log'[k].by[2] <= made'[log'[k].by[1]]
                 /\ \A u \in Thread : \A j \in DOMAIN stack'[u] : Wrote(stack'[u][j], log'[k])
      <3>1. CASE k \in 1..n
        BY <1>9, <1>13, <2>1, <3>1
      <3>2. CASE k = n + 1
        BY <1>9, <1>14, <2>2, <3>2
      <3> QED
        BY <1>9, <3>1, <3>2
    <2> QED
      BY <2>3 DEF Lines
  <1>16. ASSUME NEW k \in 1..n
         PROVE  /\ log[k].text \in {Message(log[k].by)}
                                      \cup (IF log[k].i = 1 THEN {} ELSE {<<>>})
                /\ (\E j \in 1..n : log[j].by = log[k].by /\ log[j].i = 1)
                     => log[k].text = Message(log[k].by)
                /\ \A j \in 1..n : j # k => <<log[j].by, log[j].i>> # <<log[k].by, log[k].i>>
    BY <1>2, <1>9 DEF WholeLines
  <1>17. ASSUME NEW k \in 1..n
         PROVE  /\ line.i = 1 => line.by # log[k].by
                /\ <<log[k].by, log[k].i>> # <<line.by, line.i>>
    BY <1>5, <1>10, <1>11
  <1>18. /\ line.text \in {Message(line.by)} \cup (IF line.i = 1 THEN {} ELSE {<<>>})
         /\ line.i = 1 => line.text = Message(line.by)
         /\ (\E j \in 1..n : log[j].by = line.by /\ log[j].i = 1)
              => line.text = Message(line.by)
    BY <1>5, <1>6, <1>11
  <1>19. ASSUME NEW k \in 1..n+1
         PROVE  /\ log'[k].text \in {Message(log'[k].by)}
                                       \cup (IF log'[k].i = 1 THEN {} ELSE {<<>>})
                /\ (\E j \in 1..n+1 : log'[j].by = log'[k].by /\ log'[j].i = 1)
                     => log'[k].text = Message(log'[k].by)
                /\ \A j \in 1..n+1 :
                     j # k => <<log'[j].by, log'[j].i>> # <<log'[k].by, log'[k].i>>
    <2>1. \A j \in 1..n+1 : (j \in 1..n /\ log'[j] = log[j]) \/ (j = n + 1 /\ log'[j] = line)
      BY <1>9
    <2>2. CASE k \in 1..n
      <3>1. log'[k] = log[k]
        BY <1>9, <2>2
      <3>2. (\E j \in 1..n+1 : log'[j].by = log[k].by /\ log'[j].i = 1)
              => log[k].text = Message(log[k].by)
        BY <1>16, <1>17, <2>1, <2>2
      <3>3. \A j \in 1..n+1 : j # k => <<log'[j].by, log'[j].i>> # <<log[k].by, log[k].i>>
        BY <1>16, <1>17, <2>1, <2>2
      <3> QED
        BY <1>16, <2>2, <3>1, <3>2, <3>3
    <2>3. CASE k = n + 1
      <3>1. log'[k] = line
        BY <1>9, <2>3
      <3>2. (\E j \in 1..n+1 : log'[j].by = line.by /\ log'[j].i = 1)
              => line.text = Message(line.by)
        BY <1>18, <2>1
      <3>3. \A j \in 1..n+1 : j # k => <<log'[j].by, log'[j].i>> # <<line.by, line.i>>
        BY <1>17, <2>1, <2>3
      <3> QED
        BY <1>18, <3>1, <3>2, <3>3
    <2> QED
      BY <1>9, <2>2, <2>3
  <1>20. spoilt' = spoilt => WholeLines'
    BY <1>9, <1>19 DEF WholeLines
  <1> QED
    BY <1>15, <1>20

LEMMA WriteInv ==
  ASSUME Inv, NEW t \in Thread, NEW taken \in BOOLEAN, NEW flushed \in BOOLEAN,
         Write(t, taken, flushed)
  PROVE  Inv'
  <1> DEFINE top == Top(t)
             w == To(top, "release")
             line == LineOf(top)
             l == LoggerOf(top)
  <1>1. /\ At(t, "write") /\ Goto(t, "release") /\ top \in Writer /\ top.at = "write"
        /\ Usual(top) /\ stack[t] # <<>> /\ line \in Line /\ l \in Logger
        /\ UNCHANGED <<settings, lock, made, stream, start, spoilt>>
        /\ \/ /\ log' = Append(log, line) /\ size' = size + Size(line)
              /\ count' \in {[count EXCEPT ![l][top.level] = 0],
                            [count EXCEPT ![l][top.level] = count[l][top.level] + 1]}
           \/ log' = log /\ size' = size /\ count' = count
        /\ disk' = disk \/ disk' = Len(log')
        /\ failed' \in BOOLEAN
    BY Written
  <1>2. /\ w.at = "release" /\ w.kind = top.kind /\ w.by = top.by /\ w.i = top.i
        /\ w.ids = top.ids /\ w.first = top.first
        /\ w.saved = top.saved /\ LoggerOf(w) = LoggerOf(top)
    BY <1>1, SameBut
  <1>3. "release" \in Place
    BY DEF Place
  <1>4. Changes(t, w) /\ Len(stack[t]) \in DOMAIN stack'[t]
    BY <1>1, <1>3, Goes
  <1> HIDE DEF w, line, l
  <1>5. Types'
    <2>1. log \in Seq(Line) /\ count \in [Logger -> [Level -> Nat]] /\ disk \in Nat
      BY DEF Inv, Types
    <2>2. log' \in Seq(Line) /\ Len(log') \in Nat
      <3>1. line \in Line /\ (log' = Append(log, line) \/ log' = log)
        BY <1>1
      <3> QED
        BY <2>1, <3>1
    <2>3. top.level \in Level
      BY <1>1 DEF Writer
    <2>4. count' \in [Logger -> [Level -> Nat]]
      <3> DEFINE v == top.level
      <3>1. v \in Level /\ l \in Logger
        BY <1>1, <2>3
      <3>2. \/ count' = [count EXCEPT ![l][v] = 0]
            \/ count' = [count EXCEPT ![l][v] = count[l][v] + 1]
            \/ count' = count
        BY <1>1
      <3> HIDE DEF v
      <3>3. count[l][v] + 1 \in Nat
        BY <2>1, <3>1
      <3>4. CASE count' = [count EXCEPT ![l][v] = 0]
        BY <2>1, <3>1, <3>4
      <3>5. CASE count' = [count EXCEPT ![l][v] = count[l][v] + 1]
        BY <2>1, <3>1, <3>3, <3>5
      <3> QED
        BY <2>1, <3>2, <3>4, <3>5
    <2>5. size' \in Nat
      BY <1>1, LineSize, Room
    <2> QED
      BY <1>1, <1>4, <2>1, <2>2, <2>4, <2>5 DEF Inv, Types, Changes
  <1>6. Usual(w) /\ HoldsLogger(top) /\ HoldsLogger(w) /\ HoldsStorage(top)
    BY <1>1, <1>2 DEF Usual, HoldsLogger, HoldsStorage, l
  <1>7. Frames'
    BY <1>2, <1>4, <1>6, FramesStep DEF Inv, SameWriter
  <1>8. StorageKept'
    BY <1>1, <1>4, <1>6, StorageStep DEF Inv, StorageFollows
  <1>9. Counted'
    BY <1>2, <1>4, WriteCounted
  <1>10. ASSUME spoilt' = {} PROVE LoggersKept' /\ Streams' /\ Lines'
    <2>1. LoggersKept /\ Streams /\ Lines /\ spoilt = {}
      BY <1>1, <1>10 DEF Inv, Whole
    <2>2. Keeps(top) /\ lock[LoggerOf(top)] = t
      BY <1>1, <1>6, <2>1, TopSound
    <2>3. LoggersFollow(t, w)
      BY <1>1, <1>2, <1>6, <2>2 DEF LoggersFollow, Holds
    <2>4. StreamsFollow(t, w)
      <3>1. Keeps(w)
        BY <1>1, <1>2, <2>2 DEF Keeps
      <3>2. Fits(w, stream'[LoggerOf(w)])
        BY <1>2 DEF Fits
      <3> QED
        BY <1>1, <1>2, <1>4, <1>6, <3>1, <3>2 DEF StreamsFollow, Holds
    <2>5. LoggersKept' /\ Streams'
      BY <1>4, <1>7, <2>1, <2>3, <2>4, LoggersStep, StreamsStep DEF Inv
    <2>6. Lines'
      <3>1. CASE log' = Append(log, line)
        BY <1>1, <1>4, <2>1, <3>1, WriteWhole DEF w, line
      <3>2. CASE log' = log
        <4>1. LinesFollow(t, w)
          BY <1>1, <1>2 DEF LinesFollow, Wrote
        <4> QED
          BY <1>4, <2>1, <3>2, <4>1, LinesStep DEF Inv
      <3> QED
        BY <1>1, <3>1, <3>2
    <2> QED
      BY <2>5, <2>6
  <1>11. WholeLines'
    <2>1. CASE spoilt # {}
      BY <1>1, <2>1 DEF WholeLines
    <2>2. CASE spoilt = {} /\ log' = Append(log, line)
      BY <1>1, <1>4, <2>2, WriteWhole DEF w, line
    <2>3. CASE log' = log
      BY <1>1, <2>3 DEF Inv, WholeLines
    <2> QED
      BY <1>1, <2>1, <2>2, <2>3
  <1> QED
    BY <1>5, <1>7, <1>8, <1>9, <1>10, <1>11 DEF Inv, Whole
-----------------------------------------------------------------------------
(* The theorems                                                              *)

LEMMA InitInv == Init => Inv
  <1> SUFFICES ASSUME Init PROVE Inv
    OBVIOUS
  <1>1. /\ settings \in Settings /\ lock = [m \in Mutex |-> Null]
        /\ stack = [t \in Thread |-> <<>>] /\ made = [t \in Thread |-> 0]
        /\ stream = [l \in Logger |-> <<>>] /\ log = <<>> /\ start = 0
        /\ size = 0 /\ disk = 0
        /\ count = [l \in Logger |-> [v \in Level |-> 0]] /\ failed = FALSE /\ spoilt = {}
    BY DEF Init
  <1>2. settings \in Setting
    BY <1>1, Assumed
  <1>3. Types
    <2>1. <<>> \in Text /\ log \in Seq(Line) /\ <<>> \in Seq(Writer)
      BY <1>1 DEF Text
    <2>2. lock \in [Mutex -> Thread \cup {Null}] /\ stack \in [Thread -> Seq(Writer)]
          /\ made \in [Thread -> Nat] /\ stream \in [Logger -> Text]
      BY <1>1, <2>1
    <2>3. count \in [Logger -> [Level -> Nat]]
      BY <1>1
    <2> QED
      BY <1>1, <1>2, <2>1, <2>2, <2>3 DEF Types
  <1>4. Len(log) = 0 /\ DOMAIN log = {} /\ \A t \in Thread : DOMAIN stack[t] = {}
    BY <1>1
  <1>5. Frames /\ StorageKept
    BY <1>4 DEF Frames, StorageKept
  <1>6. Whole /\ WholeLines
    BY <1>1, <1>4 DEF Whole, LoggersKept, Streams, Lines, WholeLines
  <1>7. Counted
    <2>1. settings.maxFile \in 0..MaxFile /\ settings.threshold \in 0..MaxFile /\ MaxFile \in Nat
      BY <1>2, Assumed DEF Setting
    <2>2. Limit \in Nat /\ Limit > 0
      BY <2>1 DEF Limit
    <2>3. \A l \in Logger, v \in Level : Unflushed(l, v) = {}
      BY <1>1, <1>4 DEF Unflushed
    <2>4. ASSUME NEW l \in Logger, NEW v \in Level
          PROVE  count[l][v] < Limit /\ Cardinality(Unflushed(l, v)) <= count[l][v]
      <3>1. Cardinality(Unflushed(l, v)) = 0
        BY <2>3, FS_EmptySet
      <3>2. count[l][v] = 0
        BY <1>1
      <3> QED
        BY <2>2, <3>1, <3>2
    <2> QED
      BY <1>1, <1>4, <2>1, <2>4 DEF Counted, OneLineOver
  <1> QED
    BY <1>3, <1>5, <1>6, <1>7 DEF Inv

LEMMA NextInv == Inv /\ [Next]_vars => Inv'
  <1> SUFFICES ASSUME Inv, [Next]_vars PROVE Inv'
    OBVIOUS
  <1>1. ASSUME NEW t \in Thread, ThreadStep(t) PROVE Inv'
    <2>1. CASE LockScope(t) \/ LookUp(t) \/ LookedUp(t) \/ LockMissing(t) \/ Complain(t)
      BY <2>1, LockScopeInv, LookUpInv, LookedUpInv, LockMissingInv, ComplainInv
    <2>2. CASE LockLogger(t) \/ NotAllowed(t) \/ TooManyArguments(t)
      BY <2>2, LockLoggerInv, NoWriterInv
    <2>3. CASE \E k \in 1..2 : PutPiece(t, k)
      BY <2>3, PutPieceInv
    <2>4. CASE Process(t) \/ Dispatch(t) \/ Dispatched(t)
      BY <2>4, ProcessInv, DispatchInv, DispatchedInv
    <2>5. CASE \E taken, flushed \in BOOLEAN : Write(t, taken, flushed)
      BY <2>5, WriteInv
    <2>6. CASE Clear(t) \/ NextLogger(t) \/ UnlockScope(t)
      BY <2>6, ClearInv, NextLoggerInv, UnlockScopeInv
    <2>7. CASE Abort(t)
      BY <2>7, SameInv DEF Abort
    <2> QED
      BY <1>1, <2>1, <2>2, <2>3, <2>4, <2>5, <2>6, <2>7 DEF ThreadStep
  <1>2. CASE UNCHANGED vars
    BY <1>2, SameInv DEF vars
  <1>3. ASSUME NEW t \in Thread, Statement(t) \/ ThreadStep(t) \/ Crash(t) PROVE Inv'
    BY <1>1, <1>3, StatementInv, CrashInv
  <1> QED
    BY <1>2, <1>3 DEF Next

\* The invariant: who holds Storage and the loggers, what the streams and the Writers
\* have of a message, and what of the file is not flushed.
THEOREM Invariance == Spec => []Inv
  BY InitInv, NextInv, PTL DEF Spec

\* Every line is the whole message of its statement and nothing else, once for each
\* logger, for any threads, loggers, statements and crash signals, unless Logger::log
\* has let two threads into one stream or left a piece there.
THEOREM LinesAreWhole == Spec => []WholeLines
  <1>1. Inv => WholeLines
    BY DEF Inv
  <1> QED
    BY <1>1, Invariance, PTL

\* Whatever the limit and the lengths of the lines, and whenever the disk is full: a
\* file outgrows its limit by its last line at most.  The invariant says that the file
\* is below its limit while a thread is about to write, which rests on Storage being
\* locked from the look at the size on.
THEOREM FileIsBounded == Spec => []OneLineOver
  <1>1. Inv => OneLineOver
    BY DEF Inv, Counted
  <1> QED
    BY <1>1, Invariance, PTL

\* Whatever the threshold, and whenever the file is rolled: no logger has more lines of
\* a level unflushed than its threshold allows.
THEOREM FlushIsInTime == Spec => []FlushedInTime
  <1>1. Inv => FlushedInTime
    <2> SUFFICES ASSUME Inv, ~failed, NEW l \in Logger, NEW v \in Level
                 PROVE  Cardinality(Unflushed(l, v)) < Limit
      BY DEF FlushedInTime, Unflushed, Limit
    <2>1. count[l][v] < Limit /\ Cardinality(Unflushed(l, v)) <= count[l][v]
      BY DEF Inv, Counted
    <2>2. Cardinality(Unflushed(l, v)) \in Nat /\ count[l][v] \in Nat /\ Limit \in Nat
      BY Finite, Room
    <2> QED
      BY <2>1, <2>2
  <1> QED
    BY <1>1, Invariance, PTL
=============================================================================
