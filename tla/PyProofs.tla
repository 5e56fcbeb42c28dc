------------------------------- MODULE PyProofs -------------------------------
(***************************************************************************)
(* The Python microphone object, proved for any number of microphone       *)
(* objects and any bounds: what the lock protects for any number of Python *)
(* threads, what one Python thread may rely on, and what a stop leaves in  *)
(* the queue, also of the two prototypes.                                  *)
(***************************************************************************)
EXTENDS MCPython, SequenceTheorems, TLAPS

PcTypeOK == pc \in [Threads -> CallerPlaces \cup ProducerPlaces]

(* The GIL: one Python thread at most is inside a call that keeps it.      *)
OneHoldsGil ==
  \A c, d \in Callers : pc[c] \in Holding /\ pc[d] \in Holding => c = d

(* A microphone has a background thread exactly when it can be joined.     *)
JoinableIsThread == \A m \in Mics : joinable[m] <=> pc[m] # "none"

Lifetime == {"ctorLock", "ctorInit", "dtorSet", "dtorJoin", "dtorEnd"}

(* While a microphone is constructed or destroyed no other Python thread   *)
(* uses it, and before and after it has no background thread.              *)
LifetimeAlone ==
  \A c \in Callers : pc[c] \in Lifetime =>
    /\ arg[c].mic \notin alive
    /\ \A d \in Callers : pc[d] # "py" /\ arg[d].mic = arg[c].mic => d = c
    /\ pc[c] \in {"ctorLock", "ctorInit", "dtorEnd"} => pc[arg[c].mic] = "none"

(* start_async is called on a microphone that lives.                       *)
StartedAlive ==
  \A c \in Callers :
    pc[c] \in {"startTest", "startSet", "spawn"} => arg[c].mic \in alive

(* A background thread outlives its microphone only until the destructor   *)
(* has joined it.                                                          *)
NoOrphan ==
  \A m \in Mics : m \in alive \/ pc[m] = "none"
                    \/ \E c \in Callers : arg[c].mic = m
                                           /\ pc[c] \in {"dtorSet", "dtorJoin"}

(* A background thread that reads the bus has irq_m, or else read_sync of  *)
(* the same microphone has taken it from its lock_ and keeps the GIL.      *)
ReaderHasLock ==
  \A m \in Mics : pc[m] = "transfer" =>
    irq_m = m \/ \E c \in Callers : arg[c].mic = m /\ pc[c] \in {"irqWait", "relock"}

CtorHasLock == \A c \in Callers : pc[c] = "ctorInit" => irq_m = arg[c].mic

ThreadInv == /\ TypeOK /\ PcTypeOK
             /\ OneHoldsGil /\ JoinableIsThread
             /\ LifetimeAlone /\ StartedAlive /\ NoOrphan

LockInv == ThreadInv /\ ReaderHasLock /\ CtorHasLock
------------------------------------------------------------------------------
(* One Python thread uses the microphones.                                 *)
OneCaller == \A c, d \in Callers : c = d

(* The places of a stop, between the flag and the join.                    *)
Stopping == {"drain", "drainCount", "join", "joining"}

(* Between the flag and the thread, and between the flag and the join.     *)
InBetween(m) ==
  \E c \in Callers : arg[c].mic = m /\ pc[c] \in Stopping \cup {"spawn", "dtorJoin"}

(* The flag says whether there is a background thread, but for the calls   *)
(* that are changing both.                                                 *)
FlagIsThread ==
  \A m \in Mics : InBetween(m) \/ (async_running[m] <=> joinable[m])

(* What the test of a call has found is still true when it acts on it: no  *)
(* other thread writes the flag or the thread object.                      *)
TestedStillTrue ==
  \A c \in Callers : LET m == arg[c].mic IN
    /\ pc[c] = "startSet" => ~async_running[m]
    /\ pc[c] = "spawn" => async_running[m] /\ ~joinable[m]
    /\ pc[c] = "stopSet" => async_running[m]
    /\ pc[c] \in Stopping \cup {"dtorJoin"} => ~async_running[m] /\ joinable[m]
    /\ pc[c] \in {"read", "irqWait", "relock", "transfer"} =>
         m \in alive /\ ~joinable[m]

(* The microphones whose array exists; those in the middle of a Read.      *)
Constructed(m) ==
  m \in alive \/ \E c \in Callers : arg[c].mic = m
                   /\ pc[c] \in {"ctorInit", "dtorSet", "dtorJoin", "dtorEnd"}

Waits(m) == \/ pc[m] \in {"irqWait", "relock"}
            \/ \E c \in Callers : arg[c].mic = m /\ pc[c] \in {"irqWait", "relock"}

(* An array gives irq_m up only while it waits for the interrupt.          *)
ArrayHasLock == \A m \in Mics : Constructed(m) /\ ~Waits(m) => irq_m = m

CallerInv == /\ OneCaller /\ ThreadInv
             /\ FlagIsThread /\ TestedStillTrue /\ ArrayHasLock /\ NeverBroken

------------------------------------------------------------------------------
One(condition) == IF condition THEN 1 ELSE 0

Half(m) == \E c \in Callers : arg[c].mic = m
             /\ (pc[c] = "drainCount" \/ (pc[c] = "readCount" /\ arg[c].got))

(* The counter lags behind the queue, in a push and in a pop.              *)
CounterLags ==
  \A m \in Mics :
    len_queue[m] + One(pc[m] = "count") <= queue[m] + One(Half(m))

CountInv == CallerInv /\ CounterLags

(* Once the drain has found the queue empty, the background thread, which  *)
(* finds async_running FALSE, pushes the block it is reading and ends.     *)
DrainInv == CallerInv /\ DrainLeavesOne
------------------------------------------------------------------------------
(* Calls have their fields, and broken is the outcome of a test.           *)
LEMMA NextArguments ==
  ASSUME ThreadInv, Next
  PROVE  arg' \in [Callers -> Calls] /\ broken' \in BOOLEAN
<1> USE PyConstants DEF ThreadInv, TypeOK, Threads, Goto, Call, MicOf
<1>1. ASSUME NEW c \in Callers, NewCall(c)
      PROVE  arg' \in [Callers -> Calls] /\ broken' = broken
  <2>1. broken' = broken
    BY <1>1 DEF NewCall, Construct, Destroy, StartAsync, StopAsync, ReadSync, ReadAsync
  <2>2. PICK m \in Mics, drain \in BOOLEAN, got \in BOOLEAN :
          arg' = [arg EXCEPT ![c] = [mic |-> m, drain |-> drain, got |-> got]]
    <3>1. ASSUME NEW m \in Mics,
                 \/ Construct(c, m) \/ Destroy(c, m) \/ StartAsync(c, m) \/ ReadSync(c, m)
          PROVE  arg' = [arg EXCEPT ![c] = [mic |-> m, drain |-> FALSE, got |-> FALSE]]
      BY <3>1 DEF Construct, Destroy, StartAsync, ReadSync
    <3>2. ASSUME NEW m \in Mics, ReadAsync(c, m)
          PROVE  /\ arg' = [arg EXCEPT ![c] = [mic |-> m, drain |-> FALSE,
                                           got |-> queue[m] > 0]]
                 /\ (queue[m] > 0) \in BOOLEAN
      BY <3>2 DEF ReadAsync
    <3>3. ASSUME NEW m \in Mics, NEW drain \in BOOLEAN, StopAsync(c, m, drain)
          PROVE  arg' = [arg EXCEPT ![c] = [mic |-> m, drain |-> drain, got |-> FALSE]]
      BY <3>3 DEF StopAsync
    <3>4. QED
      BY <1>1, <3>1, <3>2, <3>3, Zenon DEF NewCall
  <2>3. [mic |-> m, drain |-> drain, got |-> got] \in Calls
    BY <2>2 DEF Calls
  <2>4. QED
    BY <2>1, <2>2, <2>3
<1>2. ASSUME NEW c \in Callers, InCall(c)
      PROVE  arg' = arg /\ broken' \in BOOLEAN
  <2>1. CASE StartSpawns(c) \/ Joins(c, "joining", "return") \/ Joins(c, "dtorJoin", "dtorEnd")
    <3>1. joinable[arg[c].mic] \in BOOLEAN
      BY DEF Calls
    <3>2. arg' = arg /\ (broken' = joinable[arg[c].mic] \/ broken' = ~joinable[arg[c].mic])
      BY <2>1, Zenon DEF StartSpawns, Joins
    <3>3. QED
      BY <3>1, <3>2
  <2>2. CASE ReadWaits(c)
    BY <2>2, Zenon DEF ReadWaits
  <2>3. CASE ReadRelocks(c) \/ ReadTransfers(c)
    BY <2>3 DEF ReadRelocks, ReadTransfers
  <2>4. CASE \/ CtorLocks(c) \/ CtorInits(c) \/ StartTests(c) \/ StartSets(c)
             \/ StopTests(c) \/ StopSets(c) \/ DrainPops(c) \/ DrainCounts(c)
             \/ JoinTests(c) \/ DtorSets(c) \/ DtorEnds(c) \/ ReadCounts(c) \/ Return(c)
    BY <2>4 DEF CtorLocks, CtorInits, StartTests, StartSets, StopTests, StopSets,
       DrainPops, DrainCounts, JoinTests, DtorSets, DtorEnds, ReadCounts, Return
  <2>5. QED
    BY <1>2, <2>1, <2>2, <2>3, <2>4 DEF InCall, Read
<1>3. ASSUME NEW m \in Mics, Producer(m)
      PROVE  arg' = arg /\ broken' \in BOOLEAN
  <2>1. CASE ReadWaits(m)
    BY <2>1, Zenon DEF ReadWaits
  <2>2. CASE ~ReadWaits(m)
    BY <1>3, <2>2 DEF Producer, Read, ProducerTests, ReadRelocks, ReadTransfers,
       ProducerPushes, ProducerCounts
  <2>3. QED
    BY <2>1, <2>2
<1>4. CASE Irq
  BY <1>4 DEF Irq
<1>5. QED
  BY <1>1, <1>2, <1>3, <1>4 DEF Next

(* Every thread stays at its own places.                                   *)
LEMMA NextPcTypeOK ==
  ASSUME ThreadInv, Next
  PROVE  PcTypeOK'
<1> USE PyConstants DEF ThreadInv, TypeOK, PcTypeOK, Threads, CallerPlaces,
                        ProducerPlaces, Holding, Goto, Call, GilFree, MicOf
<1>1. ASSUME NEW c \in Callers, NewCall(c)
      PROVE  PcTypeOK'
  BY <1>1 DEF NewCall, Construct, Destroy, StartAsync, StopAsync, ReadSync,
              ReadAsync
<1>2. ASSUME NEW c \in Callers, InCall(c)
      PROVE  PcTypeOK'
  BY <1>2 DEF InCall, CtorLocks, CtorInits, StartTests, StartSets,
              StartSpawns, StopTests, StopSets, DrainPops, DrainCounts,
              JoinTests, Joins, DtorSets, DtorEnds, Read, ReadWaits,
              ReadRelocks, ReadTransfers, ReadCounts, Return
<1>3. ASSUME NEW p \in Mics, Producer(p)
      PROVE  PcTypeOK'
  BY <1>3 DEF Producer, ProducerTests, ProducerPushes, ProducerCounts, Read,
              ReadWaits, ReadRelocks, ReadTransfers
<1>4. CASE Irq
  BY <1>4 DEF Irq, Waiting
<1>5. QED
  BY <1>1, <1>2, <1>3, <1>4 DEF Next

(* The lock has an owner, and what lives is a microphone.                  *)
LEMMA NextOwners ==
  ASSUME ThreadInv, Next
  PROVE  irq_m' \in Mics \cup {Nobody} /\ alive' \subseteq Mics
<1> USE PyConstants DEF ThreadInv, TypeOK, PcTypeOK, Threads, CallerPlaces,
                        ProducerPlaces, Holding, Goto, Call, GilFree, MicOf,
                        Calls
<1>1. ASSUME NEW c \in Callers, NewCall(c)
      PROVE  irq_m' \in Mics \cup {Nobody} /\ alive' \subseteq Mics
  BY <1>1 DEF NewCall, Construct, Destroy, StartAsync, StopAsync, ReadSync,
              ReadAsync
<1>2. ASSUME NEW c \in Callers, InCall(c)
      PROVE  irq_m' \in Mics \cup {Nobody} /\ alive' \subseteq Mics
  BY <1>2 DEF InCall, CtorLocks, CtorInits, StartTests, StartSets,
              StartSpawns, StopTests, StopSets, DrainPops, DrainCounts,
              JoinTests, Joins, DtorSets, DtorEnds, Read, ReadWaits,
              ReadRelocks, ReadTransfers, ReadCounts, Return
<1>3. ASSUME NEW p \in Mics, Producer(p)
      PROVE  irq_m' \in Mics \cup {Nobody} /\ alive' \subseteq Mics
  BY <1>3 DEF Producer, ProducerTests, ProducerPushes, ProducerCounts, Read,
              ReadWaits, ReadRelocks, ReadTransfers
<1>4. CASE Irq
  BY <1>4 DEF Irq, Waiting
<1>5. QED
  BY <1>1, <1>2, <1>3, <1>4 DEF Next

(* The flags stay Boolean.                                                 *)
LEMMA NextFlags ==
  ASSUME ThreadInv, Next
  PROVE  async_running' \in [Mics -> BOOLEAN] /\ joinable' \in [Mics -> BOOLEAN]
<1> USE PyConstants DEF ThreadInv, TypeOK, PcTypeOK, Threads, CallerPlaces,
                        ProducerPlaces, Holding, Goto, Call, GilFree, MicOf
<1>1. ASSUME NEW c \in Callers, NewCall(c)
      PROVE  async_running' \in [Mics -> BOOLEAN] /\ joinable' \in [Mics -> BOOLEAN]
  BY <1>1 DEF NewCall, Construct, Destroy, StartAsync, StopAsync, ReadSync,
              ReadAsync
<1>2. ASSUME NEW c \in Callers, InCall(c)
      PROVE  async_running' \in [Mics -> BOOLEAN] /\ joinable' \in [Mics -> BOOLEAN]
  BY <1>2 DEF InCall, CtorLocks, CtorInits, StartTests, StartSets,
              StartSpawns, StopTests, StopSets, DrainPops, DrainCounts,
              JoinTests, Joins, DtorSets, DtorEnds, Read, ReadWaits,
              ReadRelocks, ReadTransfers, ReadCounts, Return
<1>3. ASSUME NEW p \in Mics, Producer(p)
      PROVE  async_running' \in [Mics -> BOOLEAN] /\ joinable' \in [Mics -> BOOLEAN]
  BY <1>3 DEF Producer, ProducerTests, ProducerPushes, ProducerCounts, Read,
              ReadWaits, ReadRelocks, ReadTransfers
<1>4. CASE Irq
  BY <1>4 DEF Irq, Waiting
<1>5. QED
  BY <1>1, <1>2, <1>3, <1>4 DEF Next

(* A queue has no fewer than zero blocks; its counter may.                 *)
LEMMA NextCounters ==
  ASSUME ThreadInv, Next
  PROVE  queue' \in [Mics -> Nat] /\ len_queue' \in [Mics -> Int]
<1> USE PyConstants DEF ThreadInv, TypeOK, PcTypeOK, Threads, CallerPlaces,
                        ProducerPlaces, Holding, Goto, Call, GilFree, MicOf
<1>1. ASSUME NEW c \in Callers, NewCall(c)
      PROVE  queue' \in [Mics -> Nat] /\ len_queue' \in [Mics -> Int]
  BY <1>1 DEF NewCall, Construct, Destroy, StartAsync, StopAsync, ReadSync,
              ReadAsync
<1>2. ASSUME NEW c \in Callers, InCall(c)
      PROVE  queue' \in [Mics -> Nat] /\ len_queue' \in [Mics -> Int]
  BY <1>2 DEF InCall, CtorLocks, CtorInits, StartTests, StartSets,
              StartSpawns, StopTests, StopSets, DrainPops, DrainCounts,
              JoinTests, Joins, DtorSets, DtorEnds, Read, ReadWaits,
              ReadRelocks, ReadTransfers, ReadCounts, Return
<1>3. ASSUME NEW p \in Mics, Producer(p)
      PROVE  queue' \in [Mics -> Nat] /\ len_queue' \in [Mics -> Int]
  BY <1>3 DEF Producer, ProducerTests, ProducerPushes, ProducerCounts, Read,
              ReadWaits, ReadRelocks, ReadTransfers
<1>4. CASE Irq
  BY <1>4 DEF Irq, Waiting
<1>5. QED
  BY <1>1, <1>2, <1>3, <1>4 DEF Next

(* Every step keeps every variable within its type.                        *)
LEMMA NextTypeOK ==
  ASSUME ThreadInv, Next
  PROVE  TypeOK'
<1>1. /\ \A c \in Callers : pc'[c] \in CallerPlaces
      /\ \A m \in Mics : pc'[m] \in ProducerPlaces
  <2> USE PyConstants DEF ThreadInv, TypeOK, PcTypeOK, Threads, CallerPlaces,
                          ProducerPlaces, Holding, Goto, Call, MicOf
  <2>1. ASSUME NEW c \in Callers, NewCall(c)
        PROVE  /\ \A d \in Callers : pc'[d] \in CallerPlaces
               /\ \A m \in Mics : pc'[m] \in ProducerPlaces
    BY <2>1 DEF NewCall, Construct, Destroy, StartAsync, StopAsync, ReadSync,
                ReadAsync
  <2>2. ASSUME NEW c \in Callers, InCall(c)
        PROVE  /\ \A d \in Callers : pc'[d] \in CallerPlaces
               /\ \A m \in Mics : pc'[m] \in ProducerPlaces
    <3>1. arg[c].mic \in Mics
      BY DEF Calls
    <3>2. CASE \/ StartSpawns(c)
               \/ Joins(c, "joining", "return") \/ Joins(c, "dtorJoin", "dtorEnd")
      BY <3>1, <3>2 DEF StartSpawns, Joins
    <3>3. CASE ~(\/ StartSpawns(c)
                 \/ Joins(c, "joining", "return") \/ Joins(c, "dtorJoin", "dtorEnd"))
      BY <2>2, <3>3 DEF InCall, CtorLocks, CtorInits, StartTests, StartSets,
                        StopTests, StopSets, DrainPops, DrainCounts,
                        JoinTests, DtorSets, DtorEnds, Read, ReadWaits,
                        ReadRelocks, ReadTransfers, ReadCounts, Return
    <3>4. QED
      BY <3>2, <3>3
  <2>3. ASSUME NEW p \in Mics, Producer(p)
        PROVE  /\ \A d \in Callers : pc'[d] \in CallerPlaces
               /\ \A m \in Mics : pc'[m] \in ProducerPlaces
    BY <2>3 DEF Producer, ProducerTests, ProducerPushes, ProducerCounts, Read,
                ReadWaits, ReadRelocks, ReadTransfers
  <2>4. CASE Irq
    BY <2>4 DEF Irq, Waiting
  <2>5. QED
    BY <2>1, <2>2, <2>3, <2>4 DEF Next
<1>2. QED
  BY <1>1, NextArguments, NextOwners, NextFlags, NextCounters DEF TypeOK

(* A call that keeps the GIL begins, or takes it back, only when no other  *)
(* call has it.                                                            *)
LEMMA NextGil ==
  ASSUME ThreadInv, Next
  PROVE  OneHoldsGil'
<1> USE PyConstants DEF ThreadInv, TypeOK, PcTypeOK, Threads, CallerPlaces,
                        ProducerPlaces, Holding, Goto, Call, GilFree, MicOf
<1>1. ASSUME NEW c \in Callers, NewCall(c)
      PROVE  OneHoldsGil'
  BY <1>1 DEF NewCall, Construct, Destroy, StartAsync, StopAsync, ReadSync,
              ReadAsync, OneHoldsGil
<1>2. ASSUME NEW c \in Callers, InCall(c)
      PROVE  OneHoldsGil'
  BY <1>2 DEF InCall, CtorLocks, CtorInits, StartTests, StartSets,
              StartSpawns, StopTests, StopSets, DrainPops, DrainCounts,
              JoinTests, Joins, DtorSets, DtorEnds, Read, ReadWaits,
              ReadRelocks, ReadTransfers, ReadCounts, Return, OneHoldsGil
<1>3. ASSUME NEW p \in Mics, Producer(p)
      PROVE  OneHoldsGil'
  BY <1>3 DEF Producer, ProducerTests, ProducerPushes, ProducerCounts, Read,
              ReadWaits, ReadRelocks, ReadTransfers, OneHoldsGil
<1>4. CASE Irq
  BY <1>4 DEF Irq, Waiting, OneHoldsGil
<1>5. QED
  BY <1>1, <1>2, <1>3, <1>4 DEF Next

(* start_async makes the thread and the object together, join ends both.   *)
LEMMA NextJoinable ==
  ASSUME ThreadInv, Next
  PROVE  JoinableIsThread'
<1> USE PyConstants DEF ThreadInv, TypeOK, PcTypeOK, Threads, CallerPlaces,
                        ProducerPlaces, Holding, Goto, Call, GilFree, MicOf
<1>1. ASSUME NEW c \in Callers, NewCall(c)
      PROVE  JoinableIsThread'
  BY <1>1 DEF NewCall, Construct, Destroy, StartAsync, StopAsync, ReadSync,
              ReadAsync, JoinableIsThread
<1>2. ASSUME NEW c \in Callers, InCall(c)
      PROVE  JoinableIsThread'
  BY <1>2 DEF InCall, CtorLocks, CtorInits, StartTests, StartSets,
              StartSpawns, StopTests, StopSets, DrainPops, DrainCounts,
              JoinTests, Joins, DtorSets, DtorEnds, Read, ReadWaits,
              ReadRelocks, ReadTransfers, ReadCounts, Return, JoinableIsThread
<1>3. ASSUME NEW p \in Mics, Producer(p)
      PROVE  JoinableIsThread'
  BY <1>3 DEF Producer, ProducerTests, ProducerPushes, ProducerCounts, Read,
              ReadWaits, ReadRelocks, ReadTransfers, JoinableIsThread
<1>4. CASE Irq
  BY <1>4 DEF Irq, Waiting, JoinableIsThread
<1>5. QED
  BY <1>1, <1>2, <1>3, <1>4 DEF Next

(* A background thread comes from start_async and nowhere else.            *)
LEMMA ThreadFromStart ==
  ASSUME ThreadInv,
         NEW m \in Mics, pc[m] = "none", pc'[m] # "none", Next
  PROVE  /\ alive' = alive
         /\ \E d \in Callers : pc[d] = "spawn" /\ arg[d].mic = m
<1> USE PyConstants DEF ThreadInv, TypeOK, PcTypeOK, Threads, CallerPlaces,
                        ProducerPlaces, Holding, Goto, Call, GilFree, MicOf
<1>1. ASSUME NEW c \in Callers, NewCall(c)
      PROVE  /\ alive' = alive
             /\ \E d \in Callers : pc[d] = "spawn" /\ arg[d].mic = m
  BY <1>1 DEF NewCall, Construct, Destroy, StartAsync, StopAsync, ReadSync,
              ReadAsync
<1>2. ASSUME NEW c \in Callers, InCall(c)
      PROVE  /\ alive' = alive
             /\ \E d \in Callers : pc[d] = "spawn" /\ arg[d].mic = m
  <2>1. CASE StartSpawns(c)
    <3>1. arg[c].mic \in Mics /\ alive' = alive /\ pc[c] = "spawn"
      BY <2>1 DEF StartSpawns, Calls
    <3>2. pc'[m] = pc[m] \/ m = arg[c].mic
      BY <2>1, <3>1 DEF StartSpawns
    <3>3. QED
      BY <3>1, <3>2
  <2>2. CASE ~StartSpawns(c)
    <3>1. pc'[m] = pc[m] \/ pc'[m] = "none"
      BY <1>2, <2>2 DEF InCall, CtorLocks, CtorInits, StartTests, StartSets,
                        StopTests, StopSets, DrainPops, DrainCounts,
                        JoinTests, Joins, DtorSets, DtorEnds, Read, ReadWaits,
                        ReadRelocks, ReadTransfers, ReadCounts, Return, Calls
    <3>2. QED
      BY <3>1
  <2>3. QED
    BY <2>1, <2>2
<1>3. ASSUME NEW p \in Mics, Producer(p)
      PROVE  /\ alive' = alive
             /\ \E d \in Callers : pc[d] = "spawn" /\ arg[d].mic = m
  BY <1>3 DEF Producer, ProducerTests, ProducerPushes, ProducerCounts, Read,
              ReadWaits, ReadRelocks, ReadTransfers
<1>4. CASE Irq
  BY <1>4 DEF Irq, Waiting
<1>5. QED
  BY <1>1, <1>2, <1>3, <1>4 DEF Next

(* A constructor finds no background thread of its microphone, and a       *)
(* destructor comes to its end without one.                                *)
LEMMA LifetimeBegins ==
  ASSUME ThreadInv,
         NEW d \in Callers, pc'[d] \in {"ctorLock", "ctorInit", "dtorEnd"}, Next
  PROVE  pc[arg'[d].mic] = "none" \/ pc'[arg'[d].mic] = "none"
<1> USE PyConstants DEF ThreadInv, TypeOK, PcTypeOK, Threads, CallerPlaces,
                        ProducerPlaces, Holding, Goto, Call, GilFree, MicOf
<1>1. ASSUME NEW c \in Callers, NewCall(c)
      PROVE  pc[arg'[d].mic] = "none" \/ pc'[arg'[d].mic] = "none"
  BY <1>1 DEF NewCall, Construct, Destroy, StartAsync, StopAsync, ReadSync,
              ReadAsync, LifetimeAlone, Lifetime, NoOrphan, JoinableIsThread,
              Calls
<1>2. ASSUME NEW c \in Callers, InCall(c)
      PROVE  pc[arg'[d].mic] = "none" \/ pc'[arg'[d].mic] = "none"
  BY <1>2 DEF InCall, CtorLocks, CtorInits, StartTests, StartSets,
              StartSpawns, StopTests, StopSets, DrainPops, DrainCounts,
              JoinTests, Joins, DtorSets, DtorEnds, Read, ReadWaits,
              ReadRelocks, ReadTransfers, ReadCounts, Return, LifetimeAlone,
              Lifetime, NoOrphan, JoinableIsThread, Calls
<1>3. ASSUME NEW p \in Mics, Producer(p)
      PROVE  pc[arg'[d].mic] = "none" \/ pc'[arg'[d].mic] = "none"
  BY <1>3 DEF Producer, ProducerTests, ProducerPushes, ProducerCounts, Read,
              ReadWaits, ReadRelocks, ReadTransfers, LifetimeAlone, Lifetime,
              NoOrphan, JoinableIsThread, Calls
<1>4. CASE Irq
  BY <1>4 DEF Irq, Waiting, LifetimeAlone, Lifetime, NoOrphan,
              JoinableIsThread, Calls
<1>5. QED
  BY <1>1, <1>2, <1>3, <1>4 DEF Next

(* A microphone lives after its constructor and before its destructor.     *)
LEMMA LifetimeNotAlive ==
  ASSUME ThreadInv, Next
  PROVE  \A d \in Callers : pc'[d] \in Lifetime => arg'[d].mic \notin alive'
<1> USE PyConstants DEF ThreadInv, TypeOK, PcTypeOK, Threads, CallerPlaces,
                        ProducerPlaces, Holding, Goto, Call, GilFree, MicOf
<1>1. ASSUME NEW c \in Callers, NewCall(c)
      PROVE  \A d \in Callers : pc'[d] \in Lifetime => arg'[d].mic \notin alive'
  BY <1>1 DEF NewCall, Construct, Destroy, StartAsync, StopAsync, ReadSync,
              ReadAsync, LifetimeAlone, Lifetime
<1>2. ASSUME NEW c \in Callers, InCall(c)
      PROVE  \A d \in Callers : pc'[d] \in Lifetime => arg'[d].mic \notin alive'
  BY <1>2 DEF InCall, CtorLocks, CtorInits, StartTests, StartSets,
              StartSpawns, StopTests, StopSets, DrainPops, DrainCounts,
              JoinTests, Joins, DtorSets, DtorEnds, Read, ReadWaits,
              ReadRelocks, ReadTransfers, ReadCounts, Return, LifetimeAlone,
              Lifetime
<1>3. ASSUME NEW p \in Mics, Producer(p)
      PROVE  \A d \in Callers : pc'[d] \in Lifetime => arg'[d].mic \notin alive'
  BY <1>3 DEF Producer, ProducerTests, ProducerPushes, ProducerCounts, Read,
              ReadWaits, ReadRelocks, ReadTransfers, LifetimeAlone, Lifetime
<1>4. CASE Irq
  BY <1>4 DEF Irq, Waiting, LifetimeAlone, Lifetime
<1>5. QED
  BY <1>1, <1>2, <1>3, <1>4 DEF Next

(* Nobody calls a method of a microphone that does not live.               *)
LEMMA LifetimeStaysAlone ==
  ASSUME ThreadInv,
         NEW d \in Callers, NEW e \in Callers,
         pc'[d] \in Lifetime, pc'[e] # "py", arg'[e].mic = arg'[d].mic, Next
  PROVE  e = d
<1> USE PyConstants DEF ThreadInv, TypeOK, PcTypeOK, Threads, CallerPlaces,
                        ProducerPlaces, Holding, Goto, Call, GilFree, MicOf
<1>1. ASSUME NEW c \in Callers, NewCall(c)
      PROVE  e = d
  BY <1>1 DEF NewCall, Construct, Destroy, StartAsync, StopAsync, ReadSync,
              ReadAsync, LifetimeAlone, Lifetime, StartedAlive
<1>2. ASSUME NEW c \in Callers, InCall(c)
      PROVE  e = d
  BY <1>2 DEF InCall, CtorLocks, CtorInits, StartTests, StartSets,
              StartSpawns, StopTests, StopSets, DrainPops, DrainCounts,
              JoinTests, Joins, DtorSets, DtorEnds, Read, ReadWaits,
              ReadRelocks, ReadTransfers, ReadCounts, Return, LifetimeAlone,
              Lifetime, StartedAlive
<1>3. ASSUME NEW p \in Mics, Producer(p)
      PROVE  e = d
  BY <1>3 DEF Producer, ProducerTests, ProducerPushes, ProducerCounts, Read,
              ReadWaits, ReadRelocks, ReadTransfers, LifetimeAlone, Lifetime,
              StartedAlive
<1>4. CASE Irq
  BY <1>4 DEF Irq, Waiting, LifetimeAlone, Lifetime, StartedAlive
<1>5. QED
  BY <1>1, <1>2, <1>3, <1>4 DEF Next

(* No destructor runs beside start_async.                                  *)
LEMMA NextStartedAlive ==
  ASSUME ThreadInv, Next
  PROVE  StartedAlive'
<1> USE PyConstants DEF ThreadInv, TypeOK, PcTypeOK, Threads, CallerPlaces,
                        ProducerPlaces, Holding, Goto, Call, GilFree, MicOf
<1>1. ASSUME NEW c \in Callers, NewCall(c)
      PROVE  StartedAlive'
  BY <1>1 DEF NewCall, Construct, Destroy, StartAsync, StopAsync, ReadSync,
              ReadAsync, LifetimeAlone, Lifetime, StartedAlive
<1>2. ASSUME NEW c \in Callers, InCall(c)
      PROVE  StartedAlive'
  BY <1>2 DEF InCall, CtorLocks, CtorInits, StartTests, StartSets,
              StartSpawns, StopTests, StopSets, DrainPops, DrainCounts,
              JoinTests, Joins, DtorSets, DtorEnds, Read, ReadWaits,
              ReadRelocks, ReadTransfers, ReadCounts, Return, LifetimeAlone,
              Lifetime, StartedAlive
<1>3. ASSUME NEW p \in Mics, Producer(p)
      PROVE  StartedAlive'
  BY <1>3 DEF Producer, ProducerTests, ProducerPushes, ProducerCounts, Read,
              ReadWaits, ReadRelocks, ReadTransfers, LifetimeAlone, Lifetime,
              StartedAlive
<1>4. CASE Irq
  BY <1>4 DEF Irq, Waiting, LifetimeAlone, Lifetime, StartedAlive
<1>5. QED
  BY <1>1, <1>2, <1>3, <1>4 DEF Next

(* The destructor keeps its microphone's thread in sight until the join.   *)
LEMMA NextNoOrphan ==
  ASSUME ThreadInv, Next
  PROVE  NoOrphan'
<1> USE PyConstants DEF ThreadInv, TypeOK, PcTypeOK, Threads, CallerPlaces,
                        ProducerPlaces, Holding, Goto, Call, GilFree, MicOf
<1>1. ASSUME NEW c \in Callers, NewCall(c)
      PROVE  NoOrphan'
  BY <1>1 DEF NewCall, Construct, Destroy, StartAsync, StopAsync, ReadSync,
              ReadAsync, NoOrphan, StartedAlive, JoinableIsThread
<1>2. ASSUME NEW c \in Callers, InCall(c)
      PROVE  NoOrphan'
  BY <1>2 DEF InCall, CtorLocks, CtorInits, StartTests, StartSets,
              StartSpawns, StopTests, StopSets, DrainPops, DrainCounts,
              JoinTests, Joins, DtorSets, DtorEnds, Read, ReadWaits,
              ReadRelocks, ReadTransfers, ReadCounts, Return, NoOrphan,
              StartedAlive, JoinableIsThread
<1>3. ASSUME NEW p \in Mics, Producer(p)
      PROVE  NoOrphan'
  BY <1>3 DEF Producer, ProducerTests, ProducerPushes, ProducerCounts, Read,
              ReadWaits, ReadRelocks, ReadTransfers, NoOrphan, StartedAlive,
              JoinableIsThread
<1>4. CASE Irq
  BY <1>4 DEF Irq, Waiting, NoOrphan, StartedAlive, JoinableIsThread
<1>5. QED
  BY <1>1, <1>2, <1>3, <1>4 DEF Next

(* A constructor or destructor is alone with its microphone.               *)
LEMMA NextLifetimeAlone ==
  ASSUME ThreadInv, Next
  PROVE  LifetimeAlone'
<1>1. ASSUME NEW d \in Callers, pc'[d] \in {"ctorLock", "ctorInit", "dtorEnd"}
      PROVE  pc'[arg'[d].mic] = "none"
  <2>1. arg'[d].mic \in Mics
    BY NextArguments DEF Calls
  <2>2. pc[arg'[d].mic] = "none" \/ pc'[arg'[d].mic] = "none"
    BY <1>1, LifetimeBegins
  <2>3. arg'[d].mic \notin alive'
    BY <1>1, LifetimeNotAlive DEF Lifetime
  <2>4. CASE pc[arg'[d].mic] = "none" /\ pc'[arg'[d].mic] # "none"
    <3>1. /\ alive' = alive
          /\ \E e \in Callers : pc[e] = "spawn" /\ arg[e].mic = arg'[d].mic
      BY <2>1, <2>4, ThreadFromStart
    <3>2. arg'[d].mic \in alive
      BY <3>1 DEF ThreadInv, StartedAlive
    <3>3. QED
      BY <2>3, <3>1, <3>2
  <2>5. QED
    BY <2>2, <2>4
<1>2. QED
  BY <1>1, LifetimeNotAlive, LifetimeStaysAlone DEF LifetimeAlone

(* The threads and the lifetimes of the microphones, step by step.         *)
LEMMA NextThreadInv ==
  ASSUME ThreadInv, Next
  PROVE  ThreadInv'
<1>1. QED
  BY NextTypeOK, NextPcTypeOK, NextGil, NextJoinable, NextLifetimeAlone,
     NextStartedAlive, NextNoOrphan DEF ThreadInv

------------------------------------------------------------------------------

(* read_sync keeps the GIL, so while it has taken irq_m from a background  *)
(* thread no constructor takes it.                                         *)
LEMMA NextReaderHasLock ==
  ASSUME LockInv, Next
  PROVE  ReaderHasLock'
<1> USE PyConstants DEF LockInv, ThreadInv, TypeOK, PcTypeOK, Threads,
                        CallerPlaces, ProducerPlaces, Holding, Goto, Call,
                        GilFree, MicOf
<1>1. ASSUME NEW c \in Callers, NewCall(c)
      PROVE  ReaderHasLock'
  BY <1>1 DEF NewCall, Construct, Destroy, StartAsync, StopAsync, ReadSync,
              ReadAsync, ReaderHasLock, LifetimeAlone, OneHoldsGil, Lifetime,
              Calls
<1>2. ASSUME NEW c \in Callers, InCall(c)
      PROVE  ReaderHasLock'
  BY <1>2 DEF InCall, CtorLocks, CtorInits, StartTests, StartSets,
              StartSpawns, StopTests, StopSets, DrainPops, DrainCounts,
              JoinTests, Joins, DtorSets, DtorEnds, Read, ReadWaits,
              ReadRelocks, ReadTransfers, ReadCounts, Return, ReaderHasLock,
              LifetimeAlone, OneHoldsGil, Lifetime, Calls
<1>3. ASSUME NEW p \in Mics, Producer(p)
      PROVE  ReaderHasLock'
  BY <1>3 DEF Producer, ProducerTests, ProducerPushes, ProducerCounts, Read,
              ReadWaits, ReadRelocks, ReadTransfers, ReaderHasLock,
              LifetimeAlone, OneHoldsGil, Lifetime, Calls
<1>4. CASE Irq
  BY <1>4 DEF Irq, Waiting, ReaderHasLock, LifetimeAlone, OneHoldsGil,
              Lifetime, Calls
<1>5. QED
  BY <1>1, <1>2, <1>3, <1>4 DEF Next

(* Only the constructor's own microphone could give its lock up, and that  *)
(* one has no thread yet.                                                  *)
LEMMA NextCtorHasLock ==
  ASSUME LockInv, Next
  PROVE  CtorHasLock'
<1> USE PyConstants DEF LockInv, ThreadInv, TypeOK, PcTypeOK, Threads,
                        CallerPlaces, ProducerPlaces, Holding, Goto, Call,
                        GilFree, MicOf
<1>1. ASSUME NEW c \in Callers, NewCall(c)
      PROVE  CtorHasLock'
  BY <1>1 DEF NewCall, Construct, Destroy, StartAsync, StopAsync, ReadSync,
              ReadAsync, CtorHasLock, LifetimeAlone, OneHoldsGil, Lifetime,
              Calls
<1>2. ASSUME NEW c \in Callers, InCall(c)
      PROVE  CtorHasLock'
  BY <1>2 DEF InCall, CtorLocks, CtorInits, StartTests, StartSets,
              StartSpawns, StopTests, StopSets, DrainPops, DrainCounts,
              JoinTests, Joins, DtorSets, DtorEnds, Read, ReadWaits,
              ReadRelocks, ReadTransfers, ReadCounts, Return, CtorHasLock,
              LifetimeAlone, OneHoldsGil, Lifetime, Calls
<1>3. ASSUME NEW p \in Mics, Producer(p)
      PROVE  CtorHasLock'
  BY <1>3 DEF Producer, ProducerTests, ProducerPushes, ProducerCounts, Read,
              ReadWaits, ReadRelocks, ReadTransfers, CtorHasLock,
              LifetimeAlone, OneHoldsGil, Lifetime, Calls
<1>4. CASE Irq
  BY <1>4 DEF Irq, Waiting, CtorHasLock, LifetimeAlone, OneHoldsGil, Lifetime,
              Calls
<1>5. QED
  BY <1>1, <1>2, <1>3, <1>4 DEF Next

------------------------------------------------------------------------------

(* A test and what is done about it: nobody comes in between.              *)
LEMMA NextNeverBroken ==
  ASSUME CallerInv, Next
  PROVE  NeverBroken'
<1> USE PyConstants DEF CallerInv, OneCaller, ThreadInv, TypeOK, PcTypeOK,
                        Threads, CallerPlaces, ProducerPlaces, Holding, Goto,
                        Call, GilFree, MicOf
<1>1. ASSUME NEW c \in Callers, NewCall(c)
      PROVE  NeverBroken'
  BY <1>1 DEF NewCall, Construct, Destroy, StartAsync, StopAsync, ReadSync,
              ReadAsync, NeverBroken, TestedStillTrue, JoinableIsThread,
              ArrayHasLock, Waits, Constructed, NoOrphan, Stopping, Calls
<1>2. ASSUME NEW c \in Callers, InCall(c)
      PROVE  NeverBroken'
  BY <1>2 DEF InCall, CtorLocks, CtorInits, StartTests, StartSets,
              StartSpawns, StopTests, StopSets, DrainPops, DrainCounts,
              JoinTests, Joins, DtorSets, DtorEnds, Read, ReadWaits,
              ReadRelocks, ReadTransfers, ReadCounts, Return, NeverBroken,
              TestedStillTrue, JoinableIsThread, ArrayHasLock, Waits,
              Constructed, NoOrphan, Stopping, Calls
<1>3. ASSUME NEW p \in Mics, Producer(p)
      PROVE  NeverBroken'
  BY <1>3 DEF Producer, ProducerTests, ProducerPushes, ProducerCounts, Read,
              ReadWaits, ReadRelocks, ReadTransfers, NeverBroken,
              TestedStillTrue, JoinableIsThread, ArrayHasLock, Waits,
              Constructed, NoOrphan, Stopping, Calls
<1>4. CASE Irq
  BY <1>4 DEF Irq, Waiting, NeverBroken, TestedStillTrue, JoinableIsThread,
              ArrayHasLock, Waits, Constructed, NoOrphan, Stopping, Calls
<1>5. QED
  BY <1>1, <1>2, <1>3, <1>4 DEF Next

(* A call that returns leaves the flag and the thread in agreement.        *)
LEMMA NextFlagIsThread ==
  ASSUME CallerInv, Next
  PROVE  FlagIsThread'
<1> USE PyConstants DEF CallerInv, OneCaller, ThreadInv, TypeOK, PcTypeOK,
                        Threads, CallerPlaces, ProducerPlaces, Holding, Goto,
                        Call, GilFree, MicOf
<1>1. ASSUME NEW c \in Callers, NewCall(c)
      PROVE  FlagIsThread'
  BY <1>1 DEF NewCall, Construct, Destroy, StartAsync, StopAsync, ReadSync,
              ReadAsync, FlagIsThread, TestedStillTrue, InBetween, Stopping,
              LifetimeAlone, Lifetime, Calls
<1>2. ASSUME NEW c \in Callers, InCall(c)
      PROVE  FlagIsThread'
  BY <1>2 DEF InCall, CtorLocks, CtorInits, StartTests, StartSets,
              StartSpawns, StopTests, StopSets, DrainPops, DrainCounts,
              JoinTests, Joins, DtorSets, DtorEnds, Read, ReadWaits,
              ReadRelocks, ReadTransfers, ReadCounts, Return, FlagIsThread,
              TestedStillTrue, InBetween, Stopping, LifetimeAlone, Lifetime,
              Calls
<1>3. ASSUME NEW p \in Mics, Producer(p)
      PROVE  FlagIsThread'
  BY <1>3 DEF Producer, ProducerTests, ProducerPushes, ProducerCounts, Read,
              ReadWaits, ReadRelocks, ReadTransfers, FlagIsThread,
              TestedStillTrue, InBetween, Stopping, LifetimeAlone, Lifetime,
              Calls
<1>4. CASE Irq
  BY <1>4 DEF Irq, Waiting, FlagIsThread, TestedStillTrue, InBetween,
              Stopping, LifetimeAlone, Lifetime, Calls
<1>5. QED
  BY <1>1, <1>2, <1>3, <1>4 DEF Next

(* The only caller is the only one who writes what it has tested.          *)
LEMMA NextTestedStillTrue ==
  ASSUME CallerInv, Next
  PROVE  TestedStillTrue'
<1> USE PyConstants DEF CallerInv, OneCaller, ThreadInv, TypeOK, PcTypeOK,
                        Threads, CallerPlaces, ProducerPlaces, Holding, Goto,
                        Call, GilFree, MicOf
<1>1. ASSUME NEW c \in Callers, NewCall(c)
      PROVE  TestedStillTrue'
  BY <1>1 DEF NewCall, Construct, Destroy, StartAsync, StopAsync, ReadSync,
              ReadAsync, TestedStillTrue, FlagIsThread, InBetween, Stopping,
              Calls
<1>2. ASSUME NEW c \in Callers, InCall(c)
      PROVE  TestedStillTrue'
  BY <1>2 DEF InCall, CtorLocks, CtorInits, StartTests, StartSets,
              StartSpawns, StopTests, StopSets, DrainPops, DrainCounts,
              JoinTests, Joins, DtorSets, DtorEnds, Read, ReadWaits,
              ReadRelocks, ReadTransfers, ReadCounts, Return, TestedStillTrue,
              FlagIsThread, InBetween, Stopping, Calls
<1>3. ASSUME NEW p \in Mics, Producer(p)
      PROVE  TestedStillTrue'
  BY <1>3 DEF Producer, ProducerTests, ProducerPushes, ProducerCounts, Read,
              ReadWaits, ReadRelocks, ReadTransfers, TestedStillTrue,
              FlagIsThread, InBetween, Stopping, Calls
<1>4. CASE Irq
  BY <1>4 DEF Irq, Waiting, TestedStillTrue, FlagIsThread, InBetween,
              Stopping, Calls
<1>5. QED
  BY <1>1, <1>2, <1>3, <1>4 DEF Next

(* Every array but the one that locks is waiting, when it locks.           *)
LEMMA NextArrayHasLock ==
  ASSUME CallerInv, Next
  PROVE  ArrayHasLock'
<1> USE PyConstants DEF CallerInv, OneCaller, ThreadInv, TypeOK, PcTypeOK,
                        Threads, CallerPlaces, ProducerPlaces, Holding, Goto,
                        Call, GilFree, MicOf
<1>1. ASSUME NEW c \in Callers, NewCall(c)
      PROVE  ArrayHasLock'
  BY <1>1 DEF NewCall, Construct, Destroy, StartAsync, StopAsync, ReadSync,
              ReadAsync, ArrayHasLock, TestedStillTrue, NeverBroken,
              JoinableIsThread, Constructed, Waits, Calls
<1>2. ASSUME NEW c \in Callers, InCall(c)
      PROVE  ArrayHasLock'
  <2>1. CASE CtorLocks(c)
    <3>1. irq_m = Nobody /\ irq_m' = arg[c].mic /\ arg' = arg /\ alive' = alive
          /\ pc' = [pc EXCEPT ![c] = "ctorInit"] /\ pc[c] = "ctorLock"
      BY <2>1 DEF CtorLocks
    <3>2. ASSUME NEW m \in Mics, m # arg[c].mic PROVE Constructed(m)' => Waits(m)'
      <4>1. Constructed(m)' => m \in alive
        BY <3>1, <3>2 DEF Constructed
      <4>2. m \in alive => Waits(m)
        BY <3>1 DEF ArrayHasLock, Constructed
      <4>3. Waits(m) => Waits(m)'
        BY <3>1 DEF Waits
      <4>4. QED
        BY <4>1, <4>2, <4>3
    <3>3. QED
      BY <3>1, <3>2 DEF ArrayHasLock
  <2>2. CASE DtorEnds(c)
    <3>1. /\ arg' = arg /\ alive' = alive /\ pc[c] = "dtorEnd"
          /\ pc' = [pc EXCEPT ![c] = "py"] /\ arg[c].mic \notin alive
          /\ irq_m' = IF irq_m = arg[c].mic THEN Nobody ELSE irq_m
      BY <2>2 DEF DtorEnds, LifetimeAlone, Lifetime
    <3>2. \A m \in Mics : Constructed(m)' => Constructed(m) /\ m # arg[c].mic
      BY <3>1 DEF Constructed
    <3>3. \A m \in Mics : Waits(m) => Waits(m)'
      BY <3>1 DEF Waits
    <3>4. QED
      BY <3>1, <3>2, <3>3 DEF ArrayHasLock
  <2>3. CASE ReadWaits(c)
    BY <2>3 DEF ReadWaits, ArrayHasLock, Constructed, Waits
  <2>4. CASE ReadRelocks(c)
    BY <2>4 DEF ReadRelocks, ArrayHasLock, Constructed, Waits, TestedStillTrue
  <2>5. CASE ~(CtorLocks(c) \/ DtorEnds(c) \/ ReadWaits(c) \/ ReadRelocks(c))
    <3>1. irq_m' = irq_m
      BY <1>2, <2>5 DEF InCall, Read, CtorInits, StartTests, StartSets,
                        StartSpawns, StopTests, StopSets, DrainPops,
                        DrainCounts, JoinTests, Joins, DtorSets,
                        ReadTransfers, ReadCounts, Return
    <3>2. \A m \in Mics : Constructed(m)' => Constructed(m)
      BY <1>2, <2>5 DEF InCall, Read, CtorInits, StartTests, StartSets,
                        StartSpawns, StopTests, StopSets, DrainPops,
                        DrainCounts, JoinTests, Joins, DtorSets,
                        ReadTransfers, ReadCounts, Return, Constructed
    <3>3. \A m \in Mics : Waits(m) => Waits(m)'
      BY <1>2, <2>5 DEF InCall, Read, CtorInits, StartTests, StartSets,
                        StartSpawns, StopTests, StopSets, DrainPops,
                        DrainCounts, JoinTests, Joins, DtorSets,
                        ReadTransfers, ReadCounts, Return, Waits,
                        TestedStillTrue, JoinableIsThread
    <3>4. QED
      BY <3>1, <3>2, <3>3 DEF ArrayHasLock
  <2>6. QED
    BY <2>1, <2>2, <2>3, <2>4, <2>5
<1>3. ASSUME NEW p \in Mics, Producer(p)
      PROVE  ArrayHasLock'
  BY <1>3 DEF Producer, ProducerTests, ProducerPushes, ProducerCounts, Read,
              ReadWaits, ReadRelocks, ReadTransfers, ArrayHasLock,
              TestedStillTrue, NeverBroken, JoinableIsThread, Constructed,
              Waits, Calls
<1>4. CASE Irq
  BY <1>4 DEF Irq, Waiting, ArrayHasLock, TestedStillTrue, NeverBroken,
              JoinableIsThread, Constructed, Waits, Calls
<1>5. QED
  BY <1>1, <1>2, <1>3, <1>4 DEF Next

------------------------------------------------------------------------------

(* After the drain the background thread finds the flag FALSE.             *)
LEMMA NextDrainLeavesOne ==
  ASSUME DrainInv, Next
  PROVE  DrainLeavesOne'
<1> USE PyConstants DEF DrainInv, CallerInv, OneCaller, ThreadInv, TypeOK,
                        PcTypeOK, Threads, CallerPlaces, ProducerPlaces,
                        Holding, Goto, Call, GilFree, MicOf
<1>1. ASSUME NEW c \in Callers, NewCall(c)
      PROVE  DrainLeavesOne'
  BY <1>1 DEF NewCall, Construct, Destroy, StartAsync, StopAsync, ReadSync,
              ReadAsync, DrainLeavesOne, TestedStillTrue, Stopping,
              JoinableIsThread, Calls
<1>2. ASSUME NEW c \in Callers, InCall(c)
      PROVE  DrainLeavesOne'
  BY <1>2 DEF InCall, CtorLocks, CtorInits, StartTests, StartSets,
              StartSpawns, StopTests, StopSets, DrainPops, DrainCounts,
              JoinTests, Joins, DtorSets, DtorEnds, Read, ReadWaits,
              ReadRelocks, ReadTransfers, ReadCounts, Return, DrainLeavesOne,
              TestedStillTrue, Stopping, JoinableIsThread, Calls
<1>3. ASSUME NEW p \in Mics, Producer(p)
      PROVE  DrainLeavesOne'
  BY <1>3 DEF Producer, ProducerTests, ProducerPushes, ProducerCounts, Read,
              ReadWaits, ReadRelocks, ReadTransfers, DrainLeavesOne,
              TestedStillTrue, Stopping, JoinableIsThread, Calls
<1>4. CASE Irq
  BY <1>4 DEF Irq, Waiting, DrainLeavesOne, TestedStillTrue, Stopping,
              JoinableIsThread, Calls
<1>5. QED
  BY <1>1, <1>2, <1>3, <1>4 DEF Next

(* The queue goes up before the counter does, and down before it does.     *)
LEMMA NextCounterLags ==
  ASSUME CountInv, Next
  PROVE  CounterLags'
<1> USE PyConstants DEF CountInv, CallerInv, OneCaller, ThreadInv, TypeOK,
                        PcTypeOK, Threads, CallerPlaces, ProducerPlaces,
                        Holding, Goto, Call, GilFree, MicOf
<1>1. ASSUME NEW c \in Callers, NewCall(c)
      PROVE  CounterLags'
  <2>1. /\ pc[c] = "py" /\ \A m \in Mics : ~Half(m) /\ UNCHANGED len_queue
        /\ \A m \in Mics : pc'[m] = pc[m]
    BY <1>1 DEF NewCall, Construct, Destroy, StartAsync, StopAsync, ReadSync,
       ReadAsync, Half
  <2>2. \A m \in Mics : len_queue[m] + One(pc[m] = "count") <= queue[m]
    BY <2>1 DEF CounterLags, One
  <2>3. \A m \in Mics : queue[m] <= queue'[m] + One(Half(m)')
    <3>1. CASE queue' = queue
      BY <3>1 DEF One
    <3>2. ASSUME NEW m \in Mics, ReadAsync(c, m), queue[m] > 0
          PROVE  \A n \in Mics : queue[n] <= queue'[n] + One(Half(n)')
      <4>1. queue' = [queue EXCEPT ![m] = @ - 1]
        BY <3>2 DEF ReadAsync
      <4>2. arg'[c].mic = m /\ arg'[c].got /\ pc'[c] = "readCount"
        BY <3>2 DEF ReadAsync
      <4>3. Half(m)'
        BY <4>2 DEF Half
      <4>4. QED
        BY <4>1, <4>3 DEF One
    <3>3. ASSUME NEW m \in Mics, ReadAsync(c, m), ~(queue[m] > 0)
          PROVE  queue' = queue
      <4>1. queue' = [queue EXCEPT ![m] = 0] /\ queue[m] = 0
        BY <3>3 DEF ReadAsync
      <4>2. QED
        BY <4>1
    <3>4. (\E m \in Mics : ReadAsync(c, m)) \/ queue' = queue
      BY <1>1 DEF NewCall, Construct, Destroy, StartAsync, StopAsync, ReadSync
    <3>5. QED
      BY <3>1, <3>2, <3>3, <3>4
  <2>4. ASSUME NEW m \in Mics
        PROVE  len_queue'[m] + One(pc'[m] = "count") <= queue'[m] + One(Half(m)')
    <3>1. len_queue'[m] = len_queue[m] /\ pc'[m] = pc[m]
      BY <2>1
    <3>2. /\ len_queue[m] \in Int /\ queue[m] \in Nat /\ queue'[m] \in Nat
          /\ One(pc[m] = "count") \in Nat /\ One(Half(m)') \in Nat
      BY NextCounters DEF One
    <3>3. QED
      BY <2>2, <2>3, <3>1, <3>2
  <2>5. QED
    BY <2>4 DEF CounterLags
<1>2. ASSUME NEW c \in Callers, InCall(c)
      PROVE  CounterLags'
  BY <1>2 DEF InCall, CtorLocks, CtorInits, StartTests, StartSets,
              StartSpawns, StopTests, StopSets, DrainPops, DrainCounts,
              JoinTests, Joins, DtorSets, DtorEnds, Read, ReadWaits,
              ReadRelocks, ReadTransfers, ReadCounts, Return, CounterLags,
              Half, One, Calls, LifetimeAlone, Lifetime
<1>3. ASSUME NEW p \in Mics, Producer(p)
      PROVE  CounterLags'
  BY <1>3 DEF Producer, ProducerTests, ProducerPushes, ProducerCounts, Read,
              ReadWaits, ReadRelocks, ReadTransfers, CounterLags, Half, One,
              Calls, LifetimeAlone, Lifetime
<1>4. CASE Irq
  BY <1>4 DEF Irq, Waiting, CounterLags, Half, One, Calls, LifetimeAlone,
              Lifetime
<1>5. QED
  BY <1>1, <1>2, <1>3, <1>4 DEF Next

------------------------------------------------------------------------------
(* At first nobody is in a call and no microphone exists.                  *)
LEMMA InitThreadInv ==
  ASSUME Init
  PROVE  ThreadInv /\ \A m \in Mics : pc[m] = "none"
<1> USE PyConstants DEF Init, Threads
<1>1. /\ \A c \in Callers : pc[c] = "py"
      /\ \A m \in Mics : pc[m] = "none"
  OBVIOUS
<1>2. arg \in [Callers -> Calls]
  BY DEF Calls
<1>3. broken \in BOOLEAN
  OBVIOUS
<1>4. TypeOK
  BY <1>1, <1>2, <1>3 DEF TypeOK, CallerPlaces, ProducerPlaces
<1>5. PcTypeOK
  BY DEF PcTypeOK, CallerPlaces, ProducerPlaces
<1>6. OneHoldsGil /\ JoinableIsThread /\ LifetimeAlone /\ StartedAlive /\ NoOrphan
  BY <1>1 DEF OneHoldsGil, Holding, JoinableIsThread, LifetimeAlone, Lifetime,
              StartedAlive, NoOrphan
<1>7. QED
  BY <1>1, <1>4, <1>5, <1>6 DEF ThreadInv

(* So no array has or needs the lock.                                      *)
LEMMA InitLockInv == Init => LockInv
<1>1. ASSUME Init PROVE \A c \in Callers : pc[c] = "py"
  BY <1>1, PyConstants DEF Init, Threads
<1>2. QED
  BY <1>1, InitThreadInv DEF LockInv, ReaderHasLock, CtorHasLock

(* And nothing is started, queued or counted.                              *)
LEMMA InitCallerInv ==
  ASSUME OneCaller, Init
  PROVE  CallerInv /\ CounterLags /\ DrainLeavesOne
<1>1. ThreadInv /\ \A m \in Mics : pc[m] = "none"
  BY InitThreadInv
<1>2. /\ \A c \in Callers : pc[c] = "py"
      /\ alive = {} /\ ~broken
      /\ \A m \in Mics : /\ ~async_running[m] /\ ~joinable[m]
                         /\ queue[m] = 0 /\ len_queue[m] = 0
  BY PyConstants DEF Init, Threads
<1>3. FlagIsThread /\ TestedStillTrue /\ ArrayHasLock /\ NeverBroken
  BY <1>1, <1>2 DEF FlagIsThread, TestedStillTrue, Stopping, ArrayHasLock,
                    Constructed, NeverBroken
<1>4. CounterLags /\ DrainLeavesOne
  BY <1>1, <1>2 DEF CounterLags, Half, One, DrainLeavesOne
<1>5. QED
  BY <1>1, <1>3, <1>4 DEF CallerInv

(* The invariants hold after every step, or where nothing changes.         *)
LEMMA NextLockInv == LockInv /\ [Next]_vars => LockInv'
<1>1. ASSUME LockInv, Next PROVE LockInv'
  BY <1>1, NextThreadInv, NextReaderHasLock, NextCtorHasLock DEF LockInv
<1>2. ASSUME LockInv, UNCHANGED vars PROVE LockInv'
  BY <1>2 DEF vars, LockInv, ThreadInv, TypeOK, PcTypeOK, OneHoldsGil,
     JoinableIsThread, LifetimeAlone, StartedAlive, NoOrphan, ReaderHasLock,
     CtorHasLock
<1>3. QED
  BY <1>1, <1>2

(* The same, for one Python thread.                                        *)
LEMMA NextCallerInv == CallerInv /\ [Next]_vars => CallerInv'
<1>1. ASSUME CallerInv, Next PROVE CallerInv'
  <2>1. OneCaller
    BY <1>1 DEF CallerInv
  <2>2. ThreadInv'
    BY <1>1, NextThreadInv DEF CallerInv
  <2>3. QED
    BY <1>1, <2>1, <2>2, NextFlagIsThread, NextTestedStillTrue,
       NextArrayHasLock, NextNeverBroken DEF CallerInv
<1>2. ASSUME CallerInv, UNCHANGED vars PROVE CallerInv'
  BY <1>2 DEF vars, CallerInv, ThreadInv, TypeOK, PcTypeOK, OneHoldsGil,
     JoinableIsThread, LifetimeAlone, StartedAlive, NoOrphan, FlagIsThread,
     InBetween, TestedStillTrue, ArrayHasLock, Constructed, Waits, NeverBroken
<1>3. QED
  BY <1>1, <1>2

(* The counter and the drain, on top of it.                                *)
LEMMA NextCountInv == CountInv /\ [Next]_vars => CountInv'
<1>1. ASSUME CountInv, Next PROVE CounterLags'
  BY <1>1, NextCounterLags
<1>2. ASSUME CountInv, UNCHANGED vars PROVE CounterLags'
  BY <1>2 DEF vars, CountInv, CounterLags, Half, One
<1>3. QED
  BY <1>1, <1>2, NextCallerInv DEF CountInv

(* DrainInv is inductive.                                                  *)
LEMMA NextDrainInv == DrainInv /\ [Next]_vars => DrainInv'
<1>1. ASSUME DrainInv, Next PROVE DrainLeavesOne'
  BY <1>1, NextDrainLeavesOne
<1>2. ASSUME DrainInv, UNCHANGED vars PROVE DrainLeavesOne'
  BY <1>2 DEF vars, DrainInv, DrainLeavesOne
<1>3. QED
  BY <1>1, <1>2, NextCallerInv DEF DrainInv

------------------------------------------------------------------------------
(* The prototypes: at each place of a call, what the flag, the thread and  *)
(* the queue are.                                                          *)
PrototypeInv ==
  /\ blocks \in Seq(Int)
  /\ caller \in {"drains", "joins"} => ~running
  /\ caller = "drains" => drained
  /\ caller = "idle" /\ ~running => thread = "none"
  /\ caller = "joins" /\ drained =>
       \/ blocks = <<>>
       \/ Len(blocks) = 1 /\ thread \in {"counts", "tests", "ended", "none"}
  /\ Prototype!StopLeavesOne

(* The counter of blocks made is a number.                                 *)
MadeOK == made \in Nat

(* Every step of a prototype keeps it.                                     *)
LEMMA PrototypeNext ==
  ASSUME PrototypeInv, MadeOK, Prototype!ConsumerNext
  PROVE  PrototypeInv' /\ MadeOK'
<1> USE DEF PrototypeInv, MadeOK, Prototype!StopLeavesOne, Prototype!Calls
<1>1. CASE Prototype!Start
  BY <1>1 DEF Prototype!Start
<1>2. CASE Prototype!Stop
  BY <1>2 DEF Prototype!Stop
<1>3. CASE Prototype!Drains
  <2>1. CASE blocks = <<>>
    BY <1>3, <2>1 DEF Prototype!Drains
  <2>2. CASE blocks # <<>>
    <3>1. Tail(blocks) \in Seq(Int)
      BY <2>2, HeadTailProperties
    <3>2. QED
      BY <1>3, <2>2, <3>1 DEF Prototype!Drains
  <2>3. QED
    BY <2>1, <2>2
<1>4. CASE Prototype!Joins
  <2>1. blocks = <<>> => Len(blocks) = 0
    OBVIOUS
  <2>2. /\ UNCHANGED <<running, made, blocks, drained>> /\ thread' = "none"
        /\ \/ caller = "joins" /\ caller' = "idle"
           \/ caller = "destroys" /\ caller' = "gone"
    BY <1>4 DEF Prototype!Joins
  <2>3. caller = "joins" /\ drained => Len(blocks) <= 1
    BY <2>1
  <2>4. Prototype!StopLeavesOne'
    BY <2>2, <2>3
  <2>5. QED
    BY <2>2, <2>4
<1>5. CASE Prototype!Destroy \/ Prototype!ReadSync
  BY <1>5 DEF Prototype!Destroy, Prototype!ReadSync
<1>6. CASE Prototype!ExampleReadAsync \/ Prototype!BindingsReadAsync
  <2>1. blocks' = blocks \/ (blocks # <<>> /\ blocks' = Tail(blocks))
    BY <1>6 DEF Prototype!ExampleReadAsync, Prototype!BindingsReadAsync
  <2>2. /\ UNCHANGED <<caller, running, thread, made, drained>>
        /\ caller = "idle"
    BY <1>6 DEF Prototype!ExampleReadAsync, Prototype!BindingsReadAsync
  <2>3. blocks' \in Seq(Int) /\ Len(blocks') <= Len(blocks)
    <3>1. CASE blocks' = blocks
      BY <3>1
    <3>2. CASE blocks # <<>> /\ blocks' = Tail(blocks)
      BY <3>2, HeadTailProperties
    <3>3. QED
      BY <2>1, <3>1, <3>2
  <2>4. Len(blocks) \in Nat /\ Len(blocks') \in Nat
    BY <2>3
  <2>5. QED
    BY <2>2, <2>3, <2>4
<1>7. CASE Prototype!Produces
  <2>1. /\ UNCHANGED <<caller, running, drained>>
        /\ thread # "none" /\ thread' # "none"
    BY <1>7 DEF Prototype!Produces
  <2>2. CASE thread = "pushes"
    <3>1. /\ made' = made + 1 /\ blocks' = Append(blocks, made')
          /\ thread' \in {"counts", "tests"}
      BY <1>7, <2>2 DEF Prototype!Produces
    <3>2. blocks' \in Seq(Int) /\ Len(blocks') = Len(blocks) + 1 /\ made' \in Nat
      BY <3>1
    <3>3. blocks = <<>> => Len(blocks) = 0
      OBVIOUS
    <3>4. QED
      BY <2>1, <2>2, <3>1, <3>2, <3>3
  <2>3. CASE thread # "pushes"
    <3>1. UNCHANGED <<blocks, made>>
      BY <1>7, <2>3 DEF Prototype!Produces
    <3>2. thread = "tests" /\ ~running => thread' = "ended"
      BY <1>7 DEF Prototype!Produces
    <3>3. thread = "counts" => thread' = "tests"
      BY <1>7 DEF Prototype!Produces
    <3>4. thread # "ended"
      BY <1>7 DEF Prototype!Produces
    <3>5. QED
      BY <2>1, <3>1, <3>2, <3>3, <3>4
  <2>4. QED
    BY <2>2, <2>3
<1>8. QED
  BY <1>1, <1>2, <1>3, <1>4, <1>5, <1>6, <1>7
     DEF Prototype!ConsumerNext, Prototype!Example, Prototype!ExampleMain,
         Prototype!Bindings, Prototype!InMethod

(* A prototype begins with no thread and an empty queue.                   *)
LEMMA PrototypeInit == Prototype!ConsumerInit => PrototypeInv /\ MadeOK
BY DEF Prototype!ConsumerInit, PrototypeInv, MadeOK, Prototype!StopLeavesOne

(* In the run's composition one of the two programs takes each step.       *)
LEMMA NextOfComposition ==
  ASSUME [MCNext]_<<vars, consumer, object>>
  PROVE  [Next]_vars /\ [Prototype!ConsumerNext]_consumer
BY DEF MCNext

(* The same for every step of a prototype.                                 *)
LEMMA PrototypeStep ==
  PrototypeInv /\ MadeOK /\ [Prototype!ConsumerNext]_consumer
    => PrototypeInv' /\ MadeOK'
<1>1. ASSUME PrototypeInv, MadeOK, UNCHANGED consumer
      PROVE  PrototypeInv' /\ MadeOK'
  BY <1>1 DEF consumer, PrototypeInv, MadeOK, Prototype!StopLeavesOne
<1>2. QED
  BY <1>1, PrototypeNext

------------------------------------------------------------------------------
(* The invariant of the threads and the lock, in every behaviour, for any  *)
(* number of Python threads.                                               *)
THEOREM LockInvariant == Spec => []LockInv
<1>1. QED
  BY InitLockInv, NextLockInv, PTL DEF Spec

(* Every variable of the microphone objects has its type.                  *)
THEOREM PythonTypeCorrect == Spec => []TypeOK
<1>1. LockInv => TypeOK
  BY DEF LockInv, ThreadInv
<1>2. QED
  BY <1>1, LockInvariant, PTL

(* The constructor of a microphone deletes the bus driver in bus.Init      *)
(* (matrixio_bus.cpp:51-72), and no thread is then between bus_->Read and  *)
(* its return (microphone_array.cpp:71-80): irq_m and the GIL see to it. *)
THEOREM InitNeverDuringRead == Spec => []InitExcludesReads
<1>1. LockInv => InitExcludesReads
  <2> SUFFICES ASSUME LockInv, NEW c \in Callers, pc[c] = "ctorInit",
                      NEW t \in Threads, pc[t] = "transfer"
               PROVE  FALSE
    BY DEF InitExcludesReads
  <2>1. CASE t \in Callers
    BY <2>1 DEF LockInv, ThreadInv, OneHoldsGil, Holding
  <2>2. CASE t \in Mics
    <3>1. irq_m = arg[c].mic /\ pc[arg[c].mic] = "none"
      BY DEF LockInv, CtorHasLock, ThreadInv, LifetimeAlone, Lifetime
    <3>2. irq_m # t
      BY <3>1
    <3>3. PICK r \in Callers : pc[r] \in {"irqWait", "relock"}
      BY <2>2, <3>2 DEF LockInv, ReaderHasLock
    <3>4. QED
      BY <3>3 DEF LockInv, ThreadInv, OneHoldsGil, Holding
  <2>3. QED
    BY <2>1, <2>2 DEF Threads
<1>2. QED
  BY <1>1, LockInvariant, PTL

(* The invariant of one Python thread's calls.                             *)
THEOREM CallerInvariant == OneCaller /\ Spec => []CallerInv
<1>1. OneCaller /\ Init => CallerInv
  BY InitCallerInv
<1>2. QED
  BY <1>1, NextCallerInv, PTL DEF Spec

(* One Python thread may call start_async, stop_async, read_sync,          *)
(* read_async, make and drop microphones in any order: no thread is joined *)
(* twice or assigned unjoined (microphones.cpp:120-173), and Read never    *)
(* waits with a lock it does not hold.                                     *)
THEOREM NeverTerminated == OneCaller /\ Spec => []NeverBroken
<1>1. CallerInv => NeverBroken
  BY DEF CallerInv
<1>2. QED
  BY <1>1, CallerInvariant, PTL

(* When stop_async has returned the background thread is joined and the    *)
(* array holds its lock again.                                             *)
THEOREM StopJoins == OneCaller /\ Spec => []StoppedMeansJoined
<1>1. CallerInv => StoppedMeansJoined
  <2> SUFFICES ASSUME CallerInv, NEW c \in Callers, NEW m \in alive,
                      pc[c] = "py", ~async_running[m]
               PROVE  pc[m] = "none" /\ ~joinable[m] /\ irq_m = m
    BY DEF StoppedMeansJoined
  <2>1. m \in Mics /\ \A d \in Callers : pc[d] = "py"
    BY DEF CallerInv, OneCaller, ThreadInv, TypeOK
  <2>2. ~joinable[m]
    BY <2>1 DEF CallerInv, FlagIsThread, InBetween, Stopping
  <2>3. pc[m] = "none"
    BY <2>1, <2>2 DEF CallerInv, ThreadInv, JoinableIsThread
  <2>4. irq_m = m
    BY <2>1, <2>3 DEF CallerInv, ArrayHasLock, Constructed, Waits
  <2>5. QED
    BY <2>2, <2>3, <2>4
<1>2. QED
  BY <1>1, CallerInvariant, PTL

(* len_async_queue never promises a block that is not in the queue.        *)
THEOREM LenIsAvailable == OneCaller /\ Spec => []LenNeverOverstates
<1>1. OneCaller /\ Init => CountInv
  BY InitCallerInv DEF CountInv
<1>2. CountInv => LenNeverOverstates
  <2> SUFFICES ASSUME CountInv, NEW c \in Callers, NEW m \in Mics, pc[c] = "py"
               PROVE  len_queue[m] <= queue[m]
    BY DEF LenNeverOverstates
  <2>1. ~Half(m)
    BY DEF CountInv, CallerInv, OneCaller, Half
  <2>2. len_queue[m] + One(pc[m] = "count") <= queue[m] + One(Half(m))
    BY DEF CountInv, CounterLags
  <2>3. len_queue[m] \in Int /\ queue[m] \in Nat
    BY DEF CountInv, CallerInv, ThreadInv, TypeOK
  <2>4. QED
    BY <2>1, <2>2, <2>3 DEF One
<1>3. QED
  BY <1>1, <1>2, NextCountInv, PTL DEF Spec

(* A stop that drains (microphones.cpp:154-172) leaves one block at most,  *)
(* and so do those of the two prototypes.                                  *)
THEOREM StopDrains == OneCaller /\ MCSpec => []StopsLeaveOne
<1>1. OneCaller /\ Init => DrainInv
  BY InitCallerInv DEF DrainInv
<1>2. DrainInv /\ PrototypeInv => StopsLeaveOne
  BY DEF DrainInv, PrototypeInv, StopsLeaveOne
<1>3. MCInit => Init /\ PrototypeInv /\ MadeOK
  BY PrototypeInit DEF MCInit
<1>4. [MCNext]_<<vars, consumer, object>>
        => [Next]_vars /\ [Prototype!ConsumerNext]_consumer
  BY NextOfComposition
<1>5. QED
  BY <1>1, <1>2, <1>3, <1>4, NextDrainInv, PrototypeStep, PTL DEF MCSpec
==============================================================================
