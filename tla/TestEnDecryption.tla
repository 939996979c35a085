--------------------------- MODULE TestEnDecryption ---------------------------
(***************************************************************************)
(* main of src/TestEnDecryption.cc up to its last call: the arguments, and *)
(* the phases setup, encrypt, decrypt and back2back.  Each phase creates a *)
(* Result, starts one thread per worker, waits for all the results, reads  *)
(* them, joins the threads and destroys the Result.  The last phase,       *)
(* endecrypt, is the module EnDecrypt.                                     *)
(*                                                                         *)
(* All threads work on the one array data: setup's threads fill it, the    *)
(* others read packets from it, and its first bytes are the password and   *)
(* the iv.  The content of a byte is the thread that wrote it last.  An    *)
(* encrypted packet is what OpenSSL got, the password and the plain text;  *)
(* decrypting it with another password gives something else.               *)
(***************************************************************************)
EXTENDS Integers, Sequences, FiniteSets, Functions

CONSTANTS
  MemoryArg,   \* values of the first argument, in units of Mega
  WorkersArg,  \* values of the second argument
  Pattern,     \* the third argument: packets per thread and phase
  MaxWorkers,  \* bound: the largest number of workers
  Mega,        \* bytes in a megabyte (1024 * 1024 in the code)
  MaxMd,       \* EVP_MAX_MD_SIZE (64)
  MdLen,       \* bytes of a SHA-256 digest (32)
  LogParts,    \* progress is logged every size/LogParts packets (10)
  Garbage,     \* what an uninitialised long long may hold
  Raw          \* content of a byte of data that no thread has written

Worker == 0..MaxWorkers-1

ASSUME PhasesAssumption ==
  /\ MemoryArg \subseteq Int
  /\ WorkersArg \subseteq Int /\ \A a \in WorkersArg : a <= MaxWorkers
  /\ Pattern \in Nat
  /\ MaxWorkers \in Nat
  /\ {MaxMd, MdLen, LogParts} \subseteq Nat \ {0}
  /\ Mega \in Nat
  /\ MaxMd >= LogParts
  /\ Garbage \subseteq Int
  /\ Raw \notin Worker

VARIABLES
  main,      \* "starting", "reading" or "crashed"
  phase,     \* the phase main is in
  workers,   \* this->workers
  size,      \* this->size
  data,      \* this->data
  pc,        \* pc[w]: where the phase's thread w is
  ptr,       \* ptr[w]: ActionPrepare's ptr, an offset into data
  end,       \* end[w]: offset at which ActionPrepare's loop ends
  overrun,   \* some thread has written outside of data
  made,      \* made[w]: packets thread w has worked on in this phase
  packet,    \* packet[w]: offset of the packet w is working on
  cipher,    \* cipher[w]: <<password, plain text>> in w's ciphertext
  mismatch,  \* back2back has logged an error
  left,      \* count of result.cdl
  open,      \* a countDown() has opened result.cdl
  results    \* result.results: the threads that have reported

vars == <<main, phase, workers, size, data, pc, ptr, end, overrun, made, packet,
          cipher, mismatch, left, open, results>>
args == <<workers, size>>
prepare == <<ptr, end, overrun>>
crypt == <<made, packet, cipher, mismatch>>
result == <<left, open, results>>

\* Thread t goes on, as long as the process lives.
Goto(t, from, to) ==
  /\ main # "crashed"
  /\ pc[t] = from
  /\ pc' = [pc EXCEPT ![t] = to]

\* The threads of a phase.
Crew == {w \in Worker : w < workers}

\* memory *= 1024*1024; if (memory < 1024*1024) memory = 1024*1024
Memory(arg) == IF arg * Mega < Mega THEN Mega ELSE arg * Mega

\* (workers/2)*2, where / truncates towards zero
Workers(arg) == IF arg >= 0 THEN (arg \div 2) * 2 ELSE -(((-arg) \div 2) * 2)

\* OpenSSL::chunked_size
Chunked(bytes) == ((bytes \div MaxMd) + 1) * MaxMd

\* OpenSSL::Context::encrypt of the packet at b: the password is at the front of
\* data.  decrypt with the same password gives the packet back.
Encrypted(b) == <<data[0], data[b]>>

Phases == <<"setup", "encrypt", "decrypt", "back2back", "endecrypt">>

After(p) == Phases[(CHOOSE k \in 1..4 : Phases[k] = p) + 1]

Init ==
  /\ main = "starting"
  /\ phase = "setup"
  /\ \E arg \in WorkersArg : workers = Workers(arg)
  /\ \E arg \in MemoryArg : size = Chunked(Memory(arg))
  /\ data = [b \in 0..size-1 |-> Raw]
  /\ pc = [w \in Worker |-> "new"]
  /\ ptr = [w \in Worker |-> 0]
  /\ end = [w \in Worker |-> 0]
  /\ overrun = FALSE
  /\ made = [w \in Worker |-> 0]
  /\ packet = [w \in Worker |-> 0]
  /\ cipher = [w \in Worker |-> <<Raw, Raw>>]
  /\ mismatch = FALSE
  /\ left = workers
  /\ open = FALSE
  /\ results = <<>>

\* (1+i) % (size/10), which decides whether progress is logged
LogProgress == main' = IF size \div LogParts = 0 THEN "crashed" ELSE main
-----------------------------------------------------------------------------
(* Faulty variants of the actions below, one slip each; the runs must reject *)
(* them.                                                                     *)

\* One ciphertext for all threads.
Encrypt_SharedBuffer(w) ==
  /\ made[w] < Pattern
  /\ LogProgress
  /\ phase \in {"encrypt", "back2back"}
  /\ Goto(w, "pattern", IF phase = "back2back" THEN "decrypt" ELSE "next")
  /\ \E b \in DOMAIN data :
       /\ packet' = [packet EXCEPT ![w] = b]
       /\ cipher' = [v \in Worker |-> Encrypted(b)]
  /\ UNCHANGED <<phase, args, data, prepare, made, mismatch, result>>

\* Result::countDown forgets its latch.
CountResult_Forgotten(w) ==
  /\ Goto(w, "count", "leave")
  /\ UNCHANGED <<main, phase, args, data, prepare, crypt, result>>

\* The list is read without result.wait().
ReadResults_NoWait ==
  /\ main = "starting" /\ phase # "endecrypt"
  /\ \A w \in Crew : pc[w] # "new"
  /\ main' = "reading"
  /\ UNCHANGED <<phase, args, data, pc, prepare, crypt, result>>

-----------------------------------------------------------------------------
(* setup and ActionPrepare *)

Chunk == size \div workers

Lesser(a, b) == IF a < b THEN a ELSE b

\* Threads are started one after the other.
IsNext(w) ==
  /\ main = "starting"
  /\ w \in Crew
  /\ \A v \in Crew : v < w => pc[v] # "new"

\* long long size = std::min((i+1)*(this->size/this->workers), size), where the
\* second size is the variable that is being initialised; the thread starts
\* at i*(this->size/this->workers)
StartPrepare(w) ==
  /\ phase = "setup"
  /\ IsNext(w)
  /\ Goto(w, "new", "prepare")
  /\ ptr' = [ptr EXCEPT ![w] = w * Chunk]
  /\ \E garbage \in Garbage :
       end' = [end EXCEPT ![w] = w * Chunk + Lesser((w + 1) * Chunk, garbage)]
  /\ UNCHANGED <<main, phase, args, data, overrun, crypt, result>>

\* One iteration: the digest replaces the bytes from ptr.  Bytes beyond data
\* belong to somebody else: the process dies, or it goes on.
Prepare(w) ==
  LET bytes == ptr[w]..ptr[w] + MdLen - 1 IN
  /\ ptr[w] < end[w]
  /\ Goto(w, "prepare", "prepare")
  /\ ptr' = [ptr EXCEPT ![w] = @ + MdLen]
  /\ data' = [b \in DOMAIN data |-> IF b \in bytes THEN w ELSE data[b]]
  /\ overrun' = (overrun \/ ~ bytes \subseteq DOMAIN data)
  /\ main' \in IF bytes \subseteq DOMAIN data THEN {main} ELSE {main, "crashed"}
  /\ UNCHANGED <<phase, args, end, crypt, result>>

PrepareEnds(w) ==
  /\ ptr[w] >= end[w]
  /\ Goto(w, "prepare", "report")
  /\ UNCHANGED <<main, phase, args, data, prepare, crypt, result>>
-----------------------------------------------------------------------------
(* encrypt, decrypt, back2back and their threads *)

StartCipher(w) ==
  /\ phase \in {"encrypt", "decrypt", "back2back"}
  /\ IsNext(w)
  /\ Goto(w, "new", "pattern")
  /\ UNCHANGED <<main, phase, args, data, prepare, crypt, result>>

\* ctx.encrypt(pat->packet, ..., ciphertext, ...) of ActionEncrypt and
\* ActionBack2Back: a packet is anywhere in data.
Encrypt(w) ==
  /\ made[w] < Pattern
  /\ LogProgress
  /\ phase \in {"encrypt", "back2back"}
  /\ Goto(w, "pattern", IF phase = "back2back" THEN "decrypt" ELSE "next")
  /\ \E b \in DOMAIN data :
       /\ packet' = [packet EXCEPT ![w] = b]
       /\ cipher' = [cipher EXCEPT ![w] = Encrypted(b)]
  /\ UNCHANGED <<phase, args, data, prepare, made, mismatch, result>>

\* ActionDecrypt decrypts a packet of data, and leaves the outcome unused.
DecryptPacket(w) ==
  /\ made[w] < Pattern
  /\ LogProgress
  /\ phase = "decrypt"
  /\ Goto(w, "pattern", "next")
  /\ UNCHANGED <<phase, args, data, prepare, crypt, result>>

\* ActionBack2Back decrypts and compares with the packet.
Decrypt(w) ==
  /\ Goto(w, "decrypt", "next")
  /\ mismatch' = (mismatch \/ cipher[w] # Encrypted(packet[w]))
  /\ UNCHANGED <<main, phase, args, data, prepare, made, packet, cipher, result>>

\* ++i
NextPattern(w) ==
  /\ Goto(w, "next", "pattern")
  /\ made' = [made EXCEPT ![w] = @ + 1]
  /\ UNCHANGED <<main, phase, args, data, prepare, packet, cipher, mismatch, result>>

PatternsEnd(w) ==
  /\ made[w] = Pattern
  /\ Goto(w, "pattern", "report")
  /\ UNCHANGED <<main, phase, args, data, prepare, crypt, result>>
-----------------------------------------------------------------------------
(* Result::countDown; results_mutex is held in "count" and "leave" *)

PushBack(w) ==
  /\ \A v \in Crew : pc[v] \notin {"count", "leave"}
  /\ Goto(w, "report", "count")
  /\ results' = Append(results, w)
  /\ UNCHANGED <<main, phase, args, data, prepare, crypt, left, open>>

CountResult(w) ==
  /\ Goto(w, "count", "leave")
  /\ left' = left - 1
  /\ open' = (open \/ left' = 0)
  /\ UNCHANGED <<main, phase, args, data, prepare, crypt, results>>

LeaveResults(w) ==
  /\ Goto(w, "leave", "done")
  /\ UNCHANGED <<main, phase, args, data, prepare, crypt, result>>
-----------------------------------------------------------------------------
(* main, after the last thread of a phase is started *)

\* TestEnDecryption::wait(result)
ReadResults ==
  /\ main = "starting" /\ phase # "endecrypt"
  /\ \A w \in Crew : pc[w] # "new"
  /\ open
  /\ main' = "reading"
  /\ UNCHANGED <<phase, args, data, pc, prepare, crypt, result>>

\* The list of workers joins its threads, the Result is destroyed, and the
\* next phase begins with a new one.
EndPhase ==
  /\ main = "reading"
  /\ \A w \in Crew : pc[w] = "done"
  /\ main' = "starting"
  /\ phase' = After(phase)
  /\ pc' = [w \in Worker |-> "new"]
  /\ made' = [w \in Worker |-> 0]
  /\ left' = workers
  /\ open' = FALSE
  /\ results' = <<>>
  /\ UNCHANGED <<args, data, prepare, packet, cipher, mismatch>>
-----------------------------------------------------------------------------
WorkerStep(w) ==
  \/ Prepare(w) \/ PrepareEnds(w)
  \/ Encrypt(w) \/ DecryptPacket(w) \/ Decrypt(w) \/ NextPattern(w) \/ PatternsEnd(w)
  \/ PushBack(w) \/ CountResult(w) \/ LeaveResults(w)

MainStep ==
  \/ \E w \in Worker : StartPrepare(w) \/ StartCipher(w)
  \/ ReadResults
  \/ EndPhase

Next == MainStep \/ \E w \in Worker : WorkerStep(w)

Spec == Init /\ [][Next]_vars

\* The operating system runs every thread that can run.
FairSpec ==
  /\ Spec
  /\ WF_vars(MainStep)
  /\ \A w \in Worker : WF_vars(WorkerStep(w))
-----------------------------------------------------------------------------
TypeOK ==
  /\ main \in {"starting", "reading", "crashed"}
  /\ phase \in Range(Phases)
  /\ workers \in Int /\ workers <= MaxWorkers
  /\ size \in Nat
  /\ data \in [0..size-1 -> Worker \cup {Raw}]
  /\ pc \in [Worker -> {"new", "prepare", "pattern", "decrypt", "next", "report",
                        "count", "leave", "done"}]
  /\ ptr \in [Worker -> Int]
  /\ end \in [Worker -> Int]
  /\ overrun \in BOOLEAN
  /\ made \in [Worker -> 0..Pattern]
  /\ packet \in [Worker -> 0..size-1]
  /\ cipher \in [Worker -> (Worker \cup {Raw}) \X (Worker \cup {Raw})]
  /\ mismatch \in BOOLEAN
  /\ left \in Int
  /\ open \in BOOLEAN
  /\ results \in Seq(Worker)

\* Back2back never reports an error: neither the packet nor the password, which
\* is part of the same array, changes between a thread's encryption and its
\* decryption, and the threads do not disturb one another.
RoundTrip == ~mismatch

\* Only setup writes data: when a later phase reads packets and the password,
\* no thread that fills the array is left.
DataSettled == [][phase # "setup" => UNCHANGED data]_vars

\* When main reads the results of a phase, every thread has reported, once, and
\* has done all of its work.
PhaseComplete ==
  main = "reading" =>
    /\ Range(results) = Crew /\ Len(results) = workers
    /\ \A w \in Crew : IF phase = "setup" THEN ptr[w] >= end[w] ELSE made[w] = Pattern

\* With workers, main gets to endecrypt, or the process dies of setup's threads
\* writing beyond data, and of nothing else: no memory argument brings size/10 to
\* zero.  Without workers (fewer than two on the command line) the Result waits for
\* no results, its latch never opens, and main never leaves setup.
PhasesEnd ==
  /\ workers > 0 => <>(phase = "endecrypt" \/ (main = "crashed" /\ overrun))
  /\ workers <= 0 => [](phase = "setup" /\ main = "starting")

\* The threads of setup stay inside the array, which std::min is there for.
InsideData == ~overrun
=============================================================================
