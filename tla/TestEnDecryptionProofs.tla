------------------------ MODULE TestEnDecryptionProofs ------------------------
(***************************************************************************)
(* Proofs about TestEnDecryption, for any numbers of workers, packets and  *)
(* bytes: data is at rest once setup is over, so that what back2back has   *)
(* encrypted comes back, and main reads complete results only.             *)
(***************************************************************************)
EXTENDS TestEnDecryption, FiniteSetTheorems, TLAPS

USE DEF Worker

PhaseNames == {"setup", "encrypt", "decrypt", "back2back", "endecrypt"}

Types ==
  /\ main \in {"starting", "reading", "crashed"}
  /\ phase \in PhaseNames
  /\ workers \in Int /\ workers <= MaxWorkers
  /\ size \in Nat /\ size >= LogParts
  /\ data \in [0..size-1 -> Worker \cup {Raw}]
  /\ pc \in [Worker -> {"new", "prepare", "pattern", "decrypt", "next", "report",
                        "count", "leave", "done"}]
  /\ ptr \in [Worker -> Int]
  /\ end \in [Worker -> Int]
  /\ overrun \in BOOLEAN
  /\ made \in [Worker -> 0..Pattern]
  /\ packet \in [Worker -> 0..size-1]
  /\ cipher \in [Worker -> (Worker \cup {Raw}) \X (Worker \cup {Raw})]
  /\ mismatch \in BOOLEAN
  /\ left \in Int
  /\ open \in BOOLEAN
  /\ results \in Seq(Worker)
  /\ main = "reading" => phase # "endecrypt"

\* Each phase has its own places for a thread to be, and a packet is left to make
\* where one is begun.
Places ==
  \A w \in Worker :
    /\ pc[w] # "new" => w \in Crew
    /\ pc[w] = "prepare" => phase = "setup"
    /\ pc[w] \in {"pattern", "decrypt", "next"} =>
         phase \in {"encrypt", "decrypt", "back2back"}
    /\ pc[w] \in {"decrypt", "next"} => made[w] < Pattern
    /\ pc[w] = "decrypt" => phase = "back2back"

\* The ciphertext of a thread that is about to decrypt is still its packet's.
InHand == ~mismatch /\ \A w \in Worker : pc[w] = "decrypt" => cipher[w] = Encrypted(packet[w])

Worked ==
  \A w \in Worker : pc[w] \in {"report", "count", "leave", "done"} =>
    IF phase = "setup" THEN ptr[w] >= end[w] ELSE made[w] = Pattern

Reported == {w \in Worker : pc[w] \in {"count", "leave", "done"}}
Counted == {w \in Worker : pc[w] \in {"leave", "done"}}

\* The latch and the list agree with where the threads are.
Reports ==
  /\ Range(results) = Reported
  /\ Len(results) = Cardinality(Reported)
  /\ left = workers - Cardinality(Counted)
  /\ open => Cardinality(Counted) = workers
  /\ main = "reading" => open

LEMMA Assumed ==
  /\ Pattern \in Nat /\ MaxWorkers \in Nat /\ Mega \in Nat
  /\ MaxMd \in Nat /\ MaxMd > 0 /\ MdLen \in Nat /\ LogParts \in Nat /\ LogParts > 0
  /\ MaxMd >= LogParts /\ Garbage \subseteq Int /\ MemoryArg \subseteq Int
  /\ WorkersArg \subseteq Int /\ \A a \in WorkersArg : a <= MaxWorkers
  BY PhasesAssumption DEF PhasesAssumption

LEMMA NextPhase == \A p \in PhaseNames \ {"endecrypt"} : After(p) \in PhaseNames
  <1>1. /\ Phases[1] = "setup" /\ Phases[2] = "encrypt" /\ Phases[3] = "decrypt"
        /\ Phases[4] = "back2back" /\ Phases[5] = "endecrypt"
    BY DEF Phases
  <1> SUFFICES ASSUME NEW p \in PhaseNames \ {"endecrypt"} PROVE After(p) \in PhaseNames
    OBVIOUS
  <1>2. \E k \in 1..4 : Phases[k] = p
    <2>1. 1 \in 1..4 /\ 2 \in 1..4 /\ 3 \in 1..4 /\ 4 \in 1..4
      OBVIOUS
    <2> QED
      BY <1>1, <2>1, Zenon DEF PhaseNames
  <1>3. \A k \in 1..4 : Phases[k + 1] \in PhaseNames
    BY <1>1 DEF PhaseNames
  <1> DEFINE j == CHOOSE k \in 1..4 : Phases[k] = p
  <1>4. j \in 1..4
    BY <1>2, Zenon
  <1> HIDE DEF j
  <1>5. Phases[j + 1] \in PhaseNames
    BY <1>3, <1>4
  <1> QED
    BY <1>5 DEF After, j

LEMMA PhaseRange == Range(Phases) = PhaseNames
  <1>1. DOMAIN Phases = {1, 2, 3, 4, 5}
    BY DEF Phases
  <1>2. \A k \in {1, 2, 3, 4, 5} :
          Phases[k] = IF k = 1 THEN "setup" ELSE IF k = 2 THEN "encrypt"
                      ELSE IF k = 3 THEN "decrypt" ELSE IF k = 4 THEN "back2back"
                      ELSE "endecrypt"
    BY DEF Phases
  <1> QED
    BY <1>1, <1>2 DEF Range, PhaseNames

\* No memory argument brings size / LogParts to zero.
LEMMA SizeIsEnough == \A arg \in MemoryArg : /\ Chunked(Memory(arg)) \in Nat
                                             /\ Chunked(Memory(arg)) >= LogParts
  <1> SUFFICES ASSUME NEW arg \in MemoryArg
               PROVE  Chunked(Memory(arg)) \in Nat /\ Chunked(Memory(arg)) >= LogParts
    OBVIOUS
  <1> DEFINE m == Memory(arg)
             n == m \div MaxMd
  <1>1. m \in Nat
    <2>1. arg \in Int /\ arg * Mega \in Int
      BY Assumed
    <2> QED
      BY <2>1, Assumed DEF Memory
  <1> HIDE DEF m
  <1>2. n \in Nat
    BY <1>1, Assumed
  <1> HIDE DEF n
  <1>3. (n + 1) * MaxMd \in Nat /\ (n + 1) * MaxMd >= MaxMd
    BY <1>2, Assumed
  <1> QED
    BY <1>3, Assumed DEF Chunked, n, m

LEMMA WorkersOfArgument == \A arg \in WorkersArg : Workers(arg) \in Int /\ Workers(arg) <= MaxWorkers
  <1> SUFFICES ASSUME NEW arg \in WorkersArg
               PROVE  Workers(arg) \in Int /\ Workers(arg) <= MaxWorkers
    OBVIOUS
  <1>1. arg \in Int /\ arg <= MaxWorkers /\ MaxWorkers \in Nat
    BY Assumed
  <1> QED
    BY <1>1 DEF Workers

LEMMA InitTypes == Init => Types
  <1> SUFFICES ASSUME Init PROVE Types
    OBVIOUS
  <1>1. workers \in Int /\ workers <= MaxWorkers
    BY WorkersOfArgument DEF Init
  <1>2. size \in Nat /\ size >= LogParts
    BY SizeIsEnough DEF Init
  <1>3. 0 \in 0..size-1 /\ 0 \in 0..Pattern
    BY <1>2, Assumed
  <1>4. data \in [0..size-1 -> Worker \cup {Raw}]
    BY DEF Init
  <1>5. cipher \in [Worker -> (Worker \cup {Raw}) \X (Worker \cup {Raw})]
    BY DEF Init
  <1>6. made \in [Worker -> 0..Pattern] /\ packet \in [Worker -> 0..size-1]
    BY <1>3 DEF Init
  <1>7. results \in Seq(Worker)
    BY DEF Init
  <1>8. /\ main = "starting" /\ phase \in PhaseNames
        /\ pc \in [Worker -> {"new", "prepare", "pattern", "decrypt", "next", "report",
                              "count", "leave", "done"}]
        /\ ptr \in [Worker -> Int] /\ end \in [Worker -> Int]
        /\ overrun = FALSE /\ mismatch = FALSE /\ open = FALSE /\ left = workers
    BY DEF Init, PhaseNames
  <1> QED
    BY <1>1, <1>2, <1>4, <1>5, <1>6, <1>7, <1>8 DEF Types

LEMMA InitRest == Init => Places /\ InHand /\ Worked /\ Reports
  <1> SUFFICES ASSUME Init PROVE Places /\ InHand /\ Worked /\ Reports
    OBVIOUS
  <1>1. Places /\ InHand /\ Worked
    BY DEF Init, Places, InHand, Worked
  <1>2. Reported = {} /\ Counted = {} /\ Range(results) = {}
    BY DEF Init, Reported, Counted, Range
  <1>3. Reports
    BY <1>2, InitTypes, FS_EmptySet DEF Init, Reports, Types
  <1> QED
    BY <1>1, <1>3
-----------------------------------------------------------------------------
LEMMA LogProgressIs == Types /\ LogProgress => main' = main
  BY Assumed DEF Types, LogProgress

LEMMA TypesStep == Types /\ Places /\ [Next]_vars => Types'
  <1> SUFFICES ASSUME Types, Places, [Next]_vars PROVE Types'
    OBVIOUS
  <1> USE DEF PhaseNames
  <1>1. ASSUME NEW w \in Worker, StartPrepare(w) PROVE Types'
    <2>1. workers > 0
      BY <1>1, Assumed DEF StartPrepare, IsNext, Crew, Types
    <2>2. Chunk \in Int
      BY <2>1 DEF Chunk, Types
    <2>3. w * Chunk \in Int /\ (w + 1) * Chunk \in Int
      BY <2>2, Assumed
    <2>4. \A garbage \in Garbage : w * Chunk + Lesser((w + 1) * Chunk, garbage) \in Int
      BY <2>3, Assumed DEF Lesser
    <2>5. ptr' \in [Worker -> Int] /\ end' \in [Worker -> Int]
      BY <1>1, <2>3, <2>4 DEF StartPrepare, Types
    <2> QED
      BY <1>1, <2>5 DEF StartPrepare, Goto, Types, args, crypt, result
  <1>2. ASSUME NEW w \in Worker, StartCipher(w) PROVE Types'
    BY <1>2 DEF StartCipher, Goto, Types, args, prepare, crypt, result
  <1>3. CASE ReadResults
    BY <1>3 DEF ReadResults, Types, args, prepare, crypt, result
  <1>4. CASE EndPhase
    <2>1. /\ main = "reading" /\ main' = "starting" /\ phase' = After(phase)
          /\ results' = <<>> /\ open' = FALSE /\ left' = workers
          /\ UNCHANGED <<workers, size, data, ptr, end, overrun, packet, cipher, mismatch>>
      BY <1>4 DEF EndPhase, args, prepare
    <2>2. phase' \in PhaseNames
      BY <2>1, NextPhase DEF Types
    <2>3. made' \in [Worker -> 0..Pattern]
      BY <1>4, Assumed DEF EndPhase
    <2>4. pc' \in [Worker -> {"new", "prepare", "pattern", "decrypt", "next", "report",
                             "count", "leave", "done"}]
      BY <1>4 DEF EndPhase
    <2>5. results' \in Seq(Worker)
      BY <2>1
    <2> QED
      BY <2>1, <2>2, <2>3, <2>4, <2>5 DEF Types
  <1>5. ASSUME NEW w \in Worker, Prepare(w) PROVE Types'
    <2>1. ptr' \in [Worker -> Int] /\ overrun' \in BOOLEAN
      BY <1>5, Assumed DEF Prepare, Types
    <2>2. data' \in [0..size-1 -> Worker \cup {Raw}]
      BY <1>5 DEF Prepare, Types
    <2>3. main' \in {main, "crashed"}
      BY <1>5 DEF Prepare
    <2> QED
      BY <1>5, <2>1, <2>2, <2>3 DEF Prepare, Goto, Types, args, crypt, result
  <1>6. ASSUME NEW w \in Worker, PrepareEnds(w) PROVE Types'
    BY <1>6 DEF PrepareEnds, Goto, Types, args, prepare, crypt, result
  <1>7. ASSUME NEW w \in Worker, Encrypt(w) PROVE Types'
    <2>1. main' = main
      BY <1>7, LogProgressIs DEF Encrypt
    <2>2. PICK b \in DOMAIN data : /\ packet' = [packet EXCEPT ![w] = b]
                                   /\ cipher' = [cipher EXCEPT ![w] = Encrypted(b)]
      BY <1>7 DEF Encrypt
    <2>3. b \in 0..size-1 /\ 0 \in 0..size-1
      BY <2>2, Assumed DEF Types
    <2>4. Encrypted(b) \in (Worker \cup {Raw}) \X (Worker \cup {Raw})
      BY <2>3 DEF Types, Encrypted
    <2>5. /\ packet' \in [Worker -> 0..size-1]
          /\ cipher' \in [Worker -> (Worker \cup {Raw}) \X (Worker \cup {Raw})]
      BY <2>2, <2>3, <2>4 DEF Types
    <2> QED
      BY <1>7, <2>1, <2>5 DEF Encrypt, Goto, Types, args, prepare, result
  <1>8. ASSUME NEW w \in Worker, DecryptPacket(w) PROVE Types'
    BY <1>8, LogProgressIs DEF DecryptPacket, Goto, Types, args, prepare, crypt, result
  <1>9. ASSUME NEW w \in Worker, Decrypt(w) PROVE Types'
    BY <1>9 DEF Decrypt, Goto, Types, args, prepare, result
  <1>10. ASSUME NEW w \in Worker, NextPattern(w) PROVE Types'
    <2>1. made[w] + 1 \in 0..Pattern
      BY <1>10, Assumed DEF NextPattern, Goto, Places, Types
    <2> QED
      BY <1>10, <2>1 DEF NextPattern, Goto, Types, args, prepare, result
  <1>11. ASSUME NEW w \in Worker, PatternsEnd(w) PROVE Types'
    BY <1>11 DEF PatternsEnd, Goto, Types, args, prepare, crypt, result
  <1>12. ASSUME NEW w \in Worker, PushBack(w) PROVE Types'
    BY <1>12 DEF PushBack, Goto, Types, args, prepare, crypt
  <1>13. ASSUME NEW w \in Worker, CountResult(w) PROVE Types'
    BY <1>13 DEF CountResult, Goto, Types, args, prepare, crypt
  <1>14. ASSUME NEW w \in Worker, LeaveResults(w) PROVE Types'
    BY <1>14 DEF LeaveResults, Goto, Types, args, prepare, crypt, result
  <1>15. CASE UNCHANGED vars
    BY <1>15 DEF vars, Types, args, prepare, crypt, result
  <1> QED
    BY <1>1, <1>2, <1>3, <1>4, <1>5, <1>6, <1>7, <1>8, <1>9, <1>10, <1>11, <1>12, <1>13,
       <1>14, <1>15 DEF Next, MainStep, WorkerStep
-----------------------------------------------------------------------------
LEMMA PlacesStep == Types /\ Places /\ [Next]_vars => Places'
  <1> SUFFICES ASSUME Types, Places, [Next]_vars PROVE Places'
    OBVIOUS
  <1>1. ASSUME NEW w \in Worker, StartPrepare(w) PROVE Places'
    BY <1>1 DEF StartPrepare, IsNext, Goto, Types, Places, Crew, args, crypt
  <1>2. ASSUME NEW w \in Worker, StartCipher(w) PROVE Places'
    BY <1>2 DEF StartCipher, IsNext, Goto, Types, Places, Crew, args, crypt
  <1>3. CASE ReadResults
    BY <1>3 DEF ReadResults, Places, Crew, args, crypt
  <1>4. CASE EndPhase
    BY <1>4 DEF EndPhase, Places
  <1>5. ASSUME NEW w \in Worker, Prepare(w) PROVE Places'
    BY <1>5 DEF Prepare, Goto, Types, Places, Crew, args, crypt
  <1>6. ASSUME NEW w \in Worker, PrepareEnds(w) PROVE Places'
    BY <1>6 DEF PrepareEnds, Goto, Types, Places, Crew, args, crypt
  <1>7. ASSUME NEW w \in Worker, Encrypt(w) PROVE Places'
    BY <1>7 DEF Encrypt, Goto, Types, Places, Crew, args
  <1>8. ASSUME NEW w \in Worker, DecryptPacket(w) PROVE Places'
    BY <1>8 DEF DecryptPacket, Goto, Types, Places, Crew, args, crypt
  <1>9. ASSUME NEW w \in Worker, Decrypt(w) PROVE Places'
    BY <1>9 DEF Decrypt, Goto, Types, Places, Crew, args
  <1>10. ASSUME NEW w \in Worker, NextPattern(w) PROVE Places'
    <2>1. /\ pc' = [pc EXCEPT ![w] = "pattern"] /\ pc[w] = "next"
          /\ made' = [made EXCEPT ![w] = @ + 1] /\ UNCHANGED <<phase, workers>>
      BY <1>10 DEF NextPattern, Goto, args
    <2> QED
      BY <2>1 DEF Types, Places, Crew
  <1>11. ASSUME NEW w \in Worker, PatternsEnd(w) PROVE Places'
    BY <1>11 DEF PatternsEnd, Goto, Types, Places, Crew, args, crypt
  <1>12. ASSUME NEW w \in Worker, PushBack(w) PROVE Places'
    BY <1>12 DEF PushBack, Goto, Types, Places, Crew, args, crypt
  <1>13. ASSUME NEW w \in Worker, CountResult(w) PROVE Places'
    BY <1>13 DEF CountResult, Goto, Types, Places, Crew, args, crypt
  <1>14. ASSUME NEW w \in Worker, LeaveResults(w) PROVE Places'
    BY <1>14 DEF LeaveResults, Goto, Types, Places, Crew, args, crypt
  <1>15. CASE UNCHANGED vars
    BY <1>15 DEF vars, Places, Crew, args, crypt
  <1> QED
    BY <1>1, <1>2, <1>3, <1>4, <1>5, <1>6, <1>7, <1>8, <1>9, <1>10, <1>11, <1>12, <1>13,
       <1>14, <1>15 DEF Next, MainStep, WorkerStep

\* data changes in setup only; a thread's packet and ciphertext change together.
LEMMA DataAtRest == Places /\ [Next]_vars => (phase # "setup" => UNCHANGED data)
  BY DEF Places, Next, MainStep, WorkerStep, StartPrepare, StartCipher, ReadResults, EndPhase,
         Prepare, PrepareEnds, Encrypt, DecryptPacket, Decrypt, NextPattern, PatternsEnd,
         PushBack, CountResult, LeaveResults, Goto, vars

LEMMA InHandStep == Types /\ Places /\ InHand /\ [Next]_vars => InHand'
  <1> SUFFICES ASSUME Types, Places, InHand, [Next]_vars PROVE InHand'
    OBVIOUS
  \* A step by which no thread begins to decrypt, and none that is about to is
  \* disturbed.
  <1>k. ASSUME UNCHANGED <<packet, cipher, mismatch>>,
               \A v \in Worker : pc'[v] = "decrypt" => pc[v] = "decrypt"
        PROVE  InHand'
    <2>1. CASE phase = "setup"
      BY <2>1, <1>k DEF Places, InHand
    <2>2. CASE phase # "setup"
      BY <2>2, <1>k, DataAtRest DEF InHand, Encrypted
    <2> QED
      BY <2>1, <2>2
  <1>1. ASSUME NEW w \in Worker, Encrypt(w) PROVE InHand'
    <2>1. PICK b \in DOMAIN data : /\ packet' = [packet EXCEPT ![w] = b]
                                   /\ cipher' = [cipher EXCEPT ![w] = Encrypted(b)]
      BY <1>1 DEF Encrypt
    <2>2. /\ UNCHANGED <<data, mismatch>>
          /\ \A v \in Worker : v # w => pc'[v] = pc[v]
      BY <1>1 DEF Encrypt, Goto, Types
    <2>3. Encrypted(b)' = Encrypted(b)
      BY <2>2 DEF Encrypted
    <2>4. cipher'[w] = Encrypted(b)' /\ packet'[w] = b
      BY <2>1, <2>3 DEF Types
    <2>5. \A v \in Worker : v # w => cipher'[v] = cipher[v] /\ packet'[v] = packet[v]
      BY <2>1 DEF Types
    <2> QED
      BY <2>2, <2>4, <2>5 DEF InHand, Encrypted
  <1>2. ASSUME NEW w \in Worker, Decrypt(w) PROVE InHand'
    <2>1. /\ pc[w] = "decrypt" /\ UNCHANGED <<packet, cipher>>
          /\ mismatch' = (mismatch \/ cipher[w] # Encrypted(packet[w]))
          /\ \A v \in Worker : pc'[v] = "decrypt" => pc[v] = "decrypt"
      BY <1>2 DEF Decrypt, Goto, Types
    <2>2. mismatch' = mismatch
      BY <2>1 DEF InHand, Types
    <2> QED
      BY <2>1, <2>2, <1>k
  <1>3. \/ \E w \in Worker : Encrypt(w) \/ Decrypt(w)
        \/ /\ UNCHANGED <<packet, cipher, mismatch>>
           /\ \A v \in Worker : pc'[v] = "decrypt" => pc[v] = "decrypt"
    BY DEF Types, Next, MainStep, WorkerStep, StartPrepare, StartCipher, ReadResults, EndPhase,
           Prepare, PrepareEnds, DecryptPacket, NextPattern, PatternsEnd, PushBack,
           CountResult, LeaveResults, Goto, vars, crypt
  <1> QED
    BY <1>1, <1>2, <1>3, <1>k

LEMMA WorkedStep == Types /\ Places /\ Worked /\ [Next]_vars => Worked'
  <1> SUFFICES ASSUME Types, Places, Worked, [Next]_vars, NEW v \in Worker,
                      pc'[v] \in {"report", "count", "leave", "done"}
               PROVE  IF phase' = "setup" THEN ptr'[v] >= end'[v] ELSE made'[v] = Pattern
    BY DEF Worked
  <1> DEFINE Past(w) == pc[w] \in {"report", "count", "leave", "done"}
  <1>1. ASSUME NEW w \in Worker, PrepareEnds(w), v = w
        PROVE  IF phase' = "setup" THEN ptr'[v] >= end'[v] ELSE made'[v] = Pattern
    BY <1>1 DEF PrepareEnds, Goto, Places, prepare
  <1>2. ASSUME NEW w \in Worker, PatternsEnd(w), v = w
        PROVE  IF phase' = "setup" THEN ptr'[v] >= end'[v] ELSE made'[v] = Pattern
    BY <1>2 DEF PatternsEnd, Goto, Places, crypt
  <1>3. ASSUME Past(v), UNCHANGED phase, ptr'[v] = ptr[v], end'[v] = end[v], made'[v] = made[v]
        PROVE  IF phase' = "setup" THEN ptr'[v] >= end'[v] ELSE made'[v] = Pattern
    BY <1>3 DEF Worked
  <1> DEFINE Same == Past(v) /\ UNCHANGED phase /\ ptr'[v] = ptr[v] /\ end'[v] = end[v]
                     /\ made'[v] = made[v]
  <1>4. ASSUME NEW w \in Worker, StartPrepare(w) \/ StartCipher(w) PROVE Same
    <2>1. \E to \in {"prepare", "pattern"} : pc' = [pc EXCEPT ![w] = to]
      BY <1>4 DEF StartPrepare, StartCipher, Goto
    <2>2. v # w /\ pc'[v] = pc[v]
      BY <2>1 DEF Types
    <2>3. CASE StartPrepare(w)
      BY <2>2, <2>3 DEF StartPrepare, Types, crypt
    <2>4. CASE StartCipher(w)
      BY <2>2, <2>4 DEF StartCipher, crypt, prepare
    <2> QED
      BY <1>4, <2>3, <2>4
  <1>5. CASE ReadResults
    BY <1>5 DEF ReadResults, Worked, crypt, prepare
  <1>6. CASE EndPhase
    BY <1>6 DEF EndPhase
  <1>7. ASSUME NEW w \in Worker, Prepare(w) PROVE Same
    BY <1>7 DEF Prepare, Goto, Types, crypt
  <1>8. ASSUME NEW w \in Worker, Encrypt(w) \/ DecryptPacket(w) \/ Decrypt(w) PROVE Same
    BY <1>8 DEF Encrypt, DecryptPacket, Decrypt, Goto, Types, crypt, prepare
  <1>9. ASSUME NEW w \in Worker, NextPattern(w) PROVE Same
    BY <1>9 DEF NextPattern, Goto, Types, prepare
  <1>10. ASSUME NEW w \in Worker, PrepareEnds(w) \/ PatternsEnd(w), v # w PROVE Same
    BY <1>10 DEF PrepareEnds, PatternsEnd, Goto, Types, crypt, prepare
  <1>11. ASSUME NEW w \in Worker, PushBack(w) \/ CountResult(w) \/ LeaveResults(w) PROVE Same
    <2>1. /\ pc[w] \in {"report", "count", "leave"}
          /\ \E to \in {"count", "leave", "done"} : pc' = [pc EXCEPT ![w] = to]
          /\ UNCHANGED <<phase, ptr, end, made>>
      BY <1>11 DEF PushBack, CountResult, LeaveResults, Goto, crypt, prepare
    <2> QED
      BY <2>1 DEF Types
  <1>12. CASE UNCHANGED vars
    BY <1>12 DEF vars, Worked, crypt, prepare
  <1> QED
    BY <1>1, <1>2, <1>3, <1>4, <1>5, <1>6, <1>7, <1>8, <1>9, <1>10, <1>11, <1>12
    DEF Next, MainStep, WorkerStep
-----------------------------------------------------------------------------
(* The list of results and its latch *)

LEMMA RangeOfAppend ==
  ASSUME NEW S, NEW s \in Seq(S), NEW e \in S
  PROVE  Range(Append(s, e)) = Range(s) \cup {e} /\ Len(Append(s, e)) = Len(s) + 1
  <1>1. DOMAIN s = 1..Len(s) /\ DOMAIN Append(s, e) = 1..Len(s)+1
    OBVIOUS
  <1>2. \A i \in 1..Len(s) : Append(s, e)[i] = s[i]
    OBVIOUS
  <1>3. Append(s, e)[Len(s)+1] = e
    OBVIOUS
  <1>4. 1..Len(s)+1 = 1..Len(s) \cup {Len(s)+1}
    OBVIOUS
  <1>5. Len(Append(s, e)) = Len(s) + 1
    OBVIOUS
  <1> QED
    BY <1>1, <1>2, <1>3, <1>4, <1>5 DEF Range

LEMMA Finite == /\ IsFiniteSet(Worker)
                /\ \A S \in SUBSET Worker : IsFiniteSet(S) /\ Cardinality(S) \in Nat
  <1>1. IsFiniteSet(Worker)
    BY Assumed, FS_Interval
  <1> QED
    BY <1>1, FS_Subset, FS_CardinalityType

\* When as many threads have counted as there are workers, all have.
LEMMA CrewIsCounted ==
  ASSUME Types, Places, Cardinality(Counted) = workers
  PROVE  Counted = Crew /\ Cardinality(Crew) = workers
  <1>1. Counted \subseteq Crew
    BY DEF Counted, Places
  <1>2. workers \in Nat
    <2>1. Counted \in SUBSET Worker
      BY DEF Counted
    <2>2. Cardinality(Counted) \in Nat
      BY <2>1, Finite, Zenon
    <2> QED
      BY <2>2
  <1>3. Crew = 0..workers-1
    <2>1. workers <= MaxWorkers /\ MaxWorkers \in Nat
      BY Assumed DEF Types
    <2> QED
      BY <1>2, <2>1 DEF Crew
  <1>4. IsFiniteSet(Crew) /\ Cardinality(Crew) = workers
    BY <1>2, <1>3, FS_Interval
  <1> QED
    BY <1>1, <1>4, FS_Subset

LEMMA ReportsStep == Types /\ Places /\ Reports /\ [Next]_vars => Reports'
  <1> SUFFICES ASSUME Types, Places, Reports, [Next]_vars PROVE Reports'
    OBVIOUS
  <1>k. ASSUME UNCHANGED <<workers, result>>, main' = "reading" => main = "reading" \/ open,
               Reported' = Reported, Counted' = Counted
        PROVE  Reports'
    BY <1>k DEF Reports, result
  <1>1. ASSUME NEW w \in Worker, PushBack(w) PROVE Reports'
    <2>1. /\ pc[w] = "report" /\ pc' = [pc EXCEPT ![w] = "count"]
          /\ results' = Append(results, w)
          /\ UNCHANGED <<main, workers, left, open>>
      BY <1>1 DEF PushBack, Goto, args
    <2>2. Reported' = Reported \cup {w} /\ w \notin Reported /\ Counted' = Counted
      BY <2>1 DEF Reported, Counted, Types
    <2>3. Cardinality(Reported \cup {w}) = Cardinality(Reported) + 1
      <3>1. IsFiniteSet(Reported)
        BY Finite DEF Reported
      <3> QED
        BY <2>2, <3>1, FS_AddElement
    <2>4. Range(results') = Range(results) \cup {w} /\ Len(results') = Len(results) + 1
      <3>1. results \in Seq(Worker)
        BY DEF Types
      <3>2. /\ Range(Append(results, w)) = Range(results) \cup {w}
            /\ Len(Append(results, w)) = Len(results) + 1
        BY <3>1, RangeOfAppend, Zenon
      <3> QED
        BY <2>1, <3>2
    <2> QED
      BY <2>1, <2>2, <2>3, <2>4 DEF Reports
  <1>2. ASSUME NEW w \in Worker, CountResult(w) PROVE Reports'
    <2>1. /\ pc[w] = "count" /\ pc' = [pc EXCEPT ![w] = "leave"]
          /\ left' = left - 1 /\ open' = (open \/ left' = 0)
          /\ UNCHANGED <<main, workers, results>>
      BY <1>2 DEF CountResult, Goto, args
    <2>2. Counted' = Counted \cup {w} /\ w \notin Counted /\ Reported' = Reported
      BY <2>1 DEF Reported, Counted, Types
    <2>3. Cardinality(Counted \cup {w}) = Cardinality(Counted) + 1 /\ Cardinality(Counted) \in Nat
      <3>1. IsFiniteSet(Counted) /\ Cardinality(Counted) \in Nat
        BY Finite DEF Counted
      <3> QED
        BY <2>2, <3>1, FS_AddElement
    <2>4. ~open
      <3>1. w \in Crew
        BY <2>1 DEF Places
      <3> QED
        BY <2>2, <3>1, CrewIsCounted DEF Reports
    <2>5. open' => Cardinality(Counted') = workers
      BY <2>1, <2>2, <2>3, <2>4 DEF Reports, Types
    <2>6. left' = workers - Cardinality(Counted')
      BY <2>1, <2>2, <2>3 DEF Reports, Types
    <2> QED
      BY <2>1, <2>2, <2>4, <2>5, <2>6 DEF Reports
  <1>3. CASE EndPhase
    <2>1. /\ main' = "starting" /\ left' = workers /\ open' = FALSE /\ results' = <<>>
          /\ workers' = workers /\ pc' = [w \in Worker |-> "new"]
      BY <1>3 DEF EndPhase, args
    <2>2. Reported' = {} /\ Counted' = {} /\ Range(results') = {} /\ Len(results') = 0
      BY <2>1 DEF Reported, Counted, Range
    <2> QED
      BY <2>1, <2>2, FS_EmptySet DEF Reports, Types
  <1>4. CASE ReadResults
    BY <1>4, <1>k DEF ReadResults, Reported, Counted, args, result
  <1>5. ASSUME NEW w \in Worker,
               \/ StartPrepare(w) \/ StartCipher(w) \/ Prepare(w) \/ PrepareEnds(w)
               \/ Encrypt(w) \/ DecryptPacket(w) \/ Decrypt(w) \/ NextPattern(w)
               \/ PatternsEnd(w) \/ LeaveResults(w)
        PROVE  Reports'
    <2>1. UNCHANGED <<workers, result>>
      BY <1>5 DEF StartPrepare, StartCipher, Prepare, PrepareEnds, Encrypt, DecryptPacket,
                  Decrypt, NextPattern, PatternsEnd, LeaveResults, args
    <2>2. main' \in {main, "crashed"}
      BY <1>5 DEF StartPrepare, StartCipher, Prepare, PrepareEnds, Encrypt, DecryptPacket,
                  Decrypt, NextPattern, PatternsEnd, LeaveResults, LogProgress
    <2>3. \/ /\ pc[w] = "leave" /\ pc' = [pc EXCEPT ![w] = "done"]
          \/ /\ pc[w] \in {"new", "prepare", "pattern", "decrypt", "next"}
             /\ \E to \in {"prepare", "pattern", "decrypt", "next", "report"} :
                  pc' = [pc EXCEPT ![w] = to]
      BY <1>5 DEF StartPrepare, StartCipher, Prepare, PrepareEnds, Encrypt, DecryptPacket,
                  Decrypt, NextPattern, PatternsEnd, LeaveResults, Goto
    <2>4. Reported' = Reported /\ Counted' = Counted
      BY <2>3 DEF Reported, Counted, Types
    <2> QED
      BY <2>1, <2>2, <2>4, <1>k
  <1>6. CASE UNCHANGED vars
    BY <1>6, <1>k DEF vars, Reported, Counted, args, result
  <1> QED
    BY <1>1, <1>2, <1>3, <1>4, <1>5, <1>6 DEF Next, MainStep, WorkerStep
-----------------------------------------------------------------------------
Inv == Types /\ Places /\ InHand /\ Worked /\ Reports

LEMMA AlwaysInv == Spec => []Inv
  <1>1. Init => Inv
    BY InitTypes, InitRest DEF Inv
  <1>2. Inv /\ [Next]_vars => Inv'
    BY TypesStep, PlacesStep, InHandStep, WorkedStep, ReportsStep DEF Inv
  <1> QED
    BY <1>1, <1>2, PTL DEF Spec

\* Every variable keeps its type.
THEOREM TypeCorrect == Spec => []TypeOK
  <1>1. Inv => TypeOK
    BY PhaseRange DEF Inv, Types, TypeOK
  <1> QED
    BY <1>1, AlwaysInv, PTL

\* No thread of back2back gets another packet back than it has encrypted, for any
\* number of threads, packets and bytes.
THEOREM ComesBack == Spec => []RoundTrip
  <1>1. Inv => RoundTrip
    BY DEF Inv, InHand, RoundTrip
  <1> QED
    BY <1>1, AlwaysInv, PTL

\* No step after setup writes the array that all threads read.
THEOREM Settled == Spec => DataSettled
  <1>1. Inv /\ [Next]_vars => [phase # "setup" => UNCHANGED data]_vars
    BY DataAtRest DEF Inv
  <1> QED
    BY <1>1, AlwaysInv, PTL DEF Spec, DataSettled

\* main reads the results of a phase when every thread has reported, once, with all
\* of its work done.
THEOREM ReadsAll == Spec => []PhaseComplete
  <1>1. Inv => PhaseComplete
    <2> SUFFICES ASSUME Inv, main = "reading"
                 PROVE  /\ Range(results) = Crew /\ Len(results) = workers
                        /\ \A w \in Crew : IF phase = "setup" THEN ptr[w] >= end[w]
                                           ELSE made[w] = Pattern
      BY DEF PhaseComplete
    <2>1. Counted = Crew /\ Cardinality(Crew) = workers
      BY CrewIsCounted DEF Inv, Reports
    <2>2. Reported = Crew
      BY <2>1 DEF Reported, Counted, Inv, Places
    <2>3. \A w \in Crew : pc[w] \in {"leave", "done"} /\ w \in Worker
      BY <2>1 DEF Counted
    <2> QED
      BY <2>1, <2>2, <2>3 DEF Inv, Reports, Worked
  <1> QED
    BY <1>1, AlwaysInv, PTL
=============================================================================
