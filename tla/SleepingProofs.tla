--------------------------- MODULE SleepingProofs ---------------------------
(***************************************************************************)
(* Proofs about the primitives of Primitives that sleep on their word:     *)
(* Latch, Barrier, Semaphore, Baton and CallOnce, for every number of      *)
(* threads and calls.  The kernel is Linux's: with the condition-variable  *)
(* fallback no theorem on sleepers holds.                                  *)
(***************************************************************************)
EXTENDS Primitives, FiniteSetTheorems, TLAPS

-----------------------------------------------------------------------------
(* The word, the calls and the wakes. *)

WordTypeOK ==
    /\ word \in Nat
    /\ DOMAIN pc = Threads
    /\ local \in [Threads -> Nat]
    /\ calls \in [Threads -> Nat]

\* The threads are finitely many, and so is every set of them.
LEMMA ThreadSets ==
    ASSUME NEW S \in SUBSET Threads
    PROVE  /\ IsFiniteSet(S)
           /\ Cardinality(S) \in Nat
           /\ Cardinality(S) <= Cardinality(Threads)
           /\ Cardinality(Threads) \in Nat
           /\ Cardinality(S) = 0 <=> S = {}
  BY FutexWordAssumption, FS_Subset, FS_CardinalityType, FS_EmptySet

\* Only sleepers are woken.
LEMMA WokenSleep ==
    ASSUME NEW n, NEW S \in Woken(n)
    PROVE  S \subseteq Sleepers
  BY DEF Woken, WakeSome, WakeOne, WakeAll

\* futex::wake_all reaches every sleeper.
LEMMA WakeEverybody ==
    ASSUME Backend = "futex"
    PROVE  Woken(Everybody) = {Sleepers}
<1>1. Sleepers \in SUBSET Threads
  BY DEF Sleepers
<1>2. Cardinality(Sleepers) <= Everybody
  BY <1>1, ThreadSets DEF Everybody
<1> QED
  BY <1>2 DEF Woken, WakeSome

\* A wake moves nobody but the caller and some of the sleepers, on Linux all
\* of them.
Wakes(t) ==
    /\ DOMAIN pc' = Threads
    /\ \A u \in Threads \ {t} :
          pc'[u] = pc[u] \/ (pc[u] = "asleep" /\ pc'[u] = "woken")
    /\ Backend = "futex" => \A u \in Threads \ {t} : pc'[u] # "asleep"

LEMMA WakeEffect ==
    ASSUME DOMAIN pc = Threads, NEW t \in Threads, NEW label, FutexWake(t, Everybody, label)
    PROVE  Wakes(t) /\ pc'[t] = label /\ pc[t] = "wake"
<1> PICK S \in Woken(Everybody) :
          pc' = [u \in Threads |-> IF u = t THEN label
                                   ELSE IF u \in S THEN "woken" ELSE pc[u]]
  BY DEF FutexWake
<1>1. S \subseteq Sleepers
  BY WokenSleep
<1>2. Backend = "futex" => S = Sleepers
  BY WakeEverybody
<1> QED
  BY <1>1, <1>2 DEF Sleepers, Wakes, FutexWake

\* Somebody is about to call futex::wake.
WakeComes == \E u \in Threads : pc[u] = "wake"

-----------------------------------------------------------------------------
(* Latch *)

LatchInv ==
    /\ WordTypeOK
    /\ \A t \in Threads : pc[t] = "wait" => local[t] > 0
    /\ Backend = "futex" =>
          \A t \in Threads : pc[t] = "asleep" => word > 0 \/ WakeComes

\* A step of the program is one of the latch's, if that is its object.
LatchNext ==
    \E t \in Threads :
        \/ \E n \in 1 .. 2, o \in {"count_down", "arrive_and_wait"} : CountDown(t, o, n)
        \/ \E o \in {"wait", "wait_for"} : LatchWait(t, o)
        \/ LatchExpire(t) \/ Interrupt(t) \/ LatchRun(t)

LEMMA LatchSteps ==
    ASSUME kind = "latch", [Next]_vars
    PROVE  kind' = "latch" /\ (LatchNext \/ UNCHANGED wordVars)
  BY DEF Next, vars, Start, Disturb, Run, Over, LatchNext,
     WordStep, BarrierStep, OnceStep, TicketStep, SeqStep, GuardStep

LEMMA LatchStart == Init /\ kind = "latch" => LatchInv
  BY FutexWordAssumption, LatchAssumption
  DEF Init, LatchInit, WordInit, LatchInv, WordTypeOK, Sleepers

LEMMA LatchStep ==
    ASSUME LatchInv, LatchNext \/ UNCHANGED wordVars
    PROVE  LatchInv'
<1> USE DEF LatchInv, WordTypeOK
<1>1. CASE UNCHANGED wordVars
  BY <1>1 DEF wordVars, WakeComes
<1>2. ASSUME NEW t \in Threads, NEW n \in 1 .. 2,
             NEW o \in {"count_down", "arrive_and_wait"}, CountDown(t, o, n)
      PROVE  LatchInv'
  BY <1>2 DEF CountDown, AfterCountDown, Begin, Keep, Idle, WakeComes
<1>3. ASSUME NEW t \in Threads, NEW o \in {"wait", "wait_for"}, LatchWait(t, o)
      PROVE  LatchInv'
  BY <1>3 DEF LatchWait, Begin, Keep, Idle, WakeComes
<1>4. ASSUME NEW t \in Threads, LatchExpire(t) \/ LatchLoop(t)
      PROVE  LatchInv'
  BY <1>4 DEF LatchExpire, LatchLoop, Move, Keep, Idle, WakeComes
<1>5. ASSUME NEW t \in Threads, Interrupt(t) \/ FutexReturn(t) \/ LatchFutexWait(t)
      PROVE  LatchInv'
  BY <1>5 DEF Interrupt, FutexReturn, LatchFutexWait, FutexWait, WakeComes
<1>6. ASSUME NEW t \in Threads, LatchWake(t)
      PROVE  LatchInv'
  <2>1. Wakes(t) /\ pc'[t] \in {"loop", "out"}
    BY <1>6, WakeEffect DEF LatchWake, AfterCountDown
  <2>2. WordTypeOK' /\ word' = word /\ \A u \in Threads \ {t} : local'[u] = local[u]
    BY <1>6, <2>1 DEF LatchWake, FutexWake, Keep, Wakes
  <2> QED
    BY <2>1, <2>2 DEF Wakes
<1> QED
  BY <1>1, <1>2, <1>3, <1>4, <1>5, <1>6 DEF LatchNext, LatchRun

-----------------------------------------------------------------------------
(* Baton *)

BatonInv ==
    /\ WordTypeOK
    /\ \A t \in Threads : pc[t] = "got" => t = Resetter /\ word = kReady
    /\ Backend = "futex" =>
          \A t \in Threads : pc[t] = "asleep" => word = kWaiting \/ WakeComes

BatonNext ==
    \E t \in Threads :
        \/ Post(t) \/ Reset(t)
        \/ \E o \in {"wait", "wait_for"} : BatonWait(t, o)
        \/ BatonExpire(t) \/ Interrupt(t) \/ BatonRun(t)

LEMMA BatonSteps ==
    ASSUME kind = "baton", [Next]_vars
    PROVE  kind' = "baton" /\ (BatonNext \/ UNCHANGED wordVars)
  BY DEF Next, vars, Start, Disturb, Run, Over, BatonNext,
     WordStep, BarrierStep, OnceStep, TicketStep, SeqStep, GuardStep

LEMMA BatonStart == Init /\ kind = "baton" => BatonInv
  BY FutexWordAssumption
  DEF Init, BatonInit, WordInit, BatonInv, WordTypeOK, kEmpty

LEMMA BatonStep ==
    ASSUME BatonInv, BatonNext \/ UNCHANGED wordVars
    PROVE  BatonInv'
<1> USE DEF BatonInv, WordTypeOK, kEmpty, kWaiting, kReady
<1>1. CASE UNCHANGED wordVars
  BY <1>1 DEF wordVars, WakeComes
<1>2. ASSUME NEW t \in Threads, Post(t)
      PROVE  BatonInv'
  BY <1>2 DEF Post, Begin, Keep, Idle, WakeComes
<1>3. ASSUME NEW t \in Threads, Reset(t)
      PROVE  BatonInv'
  BY <1>3 DEF Reset, Move, Keep, Idle, WakeComes
<1>4. ASSUME NEW t \in Threads, NEW o \in {"wait", "wait_for"}, BatonWait(t, o)
      PROVE  BatonInv'
  BY <1>4 DEF BatonWait, AfterReady, Begin, Keep, Idle, WakeComes
<1>5. ASSUME NEW t \in Threads, BatonExpire(t) \/ BatonLoop(t) \/ AnnounceWait(t)
      PROVE  BatonInv'
  BY <1>5 DEF BatonExpire, BatonLoop, AnnounceWait, AfterReady, Move, Keep, Idle, WakeComes
<1>6. ASSUME NEW t \in Threads, Interrupt(t) \/ FutexReturn(t) \/ BatonFutexWait(t)
      PROVE  BatonInv'
  BY <1>6 DEF Interrupt, FutexReturn, BatonFutexWait, FutexWait, WakeComes
<1>7. ASSUME NEW t \in Threads, BatonWake(t)
      PROVE  BatonInv'
  <2>1. Wakes(t) /\ pc'[t] = "out"
    BY <1>7, WakeEffect DEF BatonWake
  <2>2. WordTypeOK' /\ word' = word
    BY <1>7, <2>1 DEF BatonWake, FutexWake, Keep, Wakes
  <2> QED
    BY <2>1, <2>2 DEF Wakes
<1> QED
  BY <1>1, <1>2, <1>3, <1>4, <1>5, <1>6, <1>7 DEF BatonNext, BatonRun

-----------------------------------------------------------------------------
(* CallOnce *)

\* The threads between the winning compare-exchange and the store that ends
\* the attempt: while there is one, and only then, the flag is initializing.
Attempting(t) == pc[t] \in {"run", "store"}

OnceInv ==
    /\ WordTypeOK
    /\ completed \in Nat
    /\ word \in {uninitialized, initializing, initialized}
    /\ \A t, u \in Threads : Attempting(t) /\ Attempting(u) => t = u
    /\ word = initializing <=> \E t \in Threads : Attempting(t)
    /\ \A t \in Threads : pc[t] = "store" => local[t] \in {uninitialized, initialized}
    /\ completed = IF \/ word = initialized
                      \/ \E t \in Threads : pc[t] = "store" /\ local[t] = initialized
                   THEN 1 ELSE 0
    /\ \A t \in Threads :
          pc[t] = "called" \/ (pc[t] = "wake" /\ local[t] = initialized) => completed = 1
    /\ Backend = "futex" =>
          \A t \in Threads : pc[t] = "asleep" => word = initializing \/ WakeComes

OnceNext ==
    \E t \in Threads : CallOnce(t) \/ OnceInterrupt(t) \/ OnceRun(t)

LEMMA OnceSteps ==
    ASSUME kind = "once", [Next]_vars
    PROVE  kind' = "once" /\ (OnceNext \/ UNCHANGED <<wordVars, onceVars>>)
  BY DEF Next, vars, Start, Disturb, Run, Over, OnceNext,
     WordStep, BarrierStep, OnceStep, TicketStep, SeqStep, GuardStep

LEMMA OnceStart == Init /\ kind = "once" => OnceInv
  BY FutexWordAssumption
  DEF Init, OnceInit, WordInit, OnceInv, WordTypeOK, Attempting,
      uninitialized, initializing, initialized

LEMMA OnceStepInv ==
    ASSUME OnceInv, OnceNext \/ UNCHANGED <<wordVars, onceVars>>
    PROVE  OnceInv'
<1> USE DEF OnceInv, WordTypeOK, Attempting, onceVars, uninitialized, initializing, initialized
<1>1. CASE UNCHANGED <<wordVars, onceVars>>
  BY <1>1 DEF wordVars, WakeComes
<1>2. ASSUME NEW t \in Threads, CallOnce(t)
      PROVE  OnceInv'
  BY <1>2 DEF CallOnce, Begin, Keep, Idle, WakeComes
<1>3. ASSUME NEW t \in Threads, OnceLoop(t)
      PROVE  OnceInv'
  BY <1>3 DEF OnceLoop, Move, Keep, Idle, WakeComes
<1>4. ASSUME NEW t \in Threads, CallableReturns(t) \/ CallableThrows(t)
      PROVE  OnceInv'
  BY <1>4 DEF CallableReturns, CallableThrows, Move, Keep, Idle, WakeComes
<1>5. ASSUME NEW t \in Threads, StoreState(t)
      PROVE  OnceInv'
  BY <1>5 DEF StoreState, Move, Keep, Idle, WakeComes
<1>6. ASSUME NEW t \in Threads, OnceInterrupt(t) \/ OnceReturn(t) \/ OnceFutexWait(t)
      PROVE  OnceInv'
  BY <1>6 DEF OnceInterrupt, OnceReturn, OnceFutexWait, Interrupt, FutexReturn, FutexWait, WakeComes
<1>7. ASSUME NEW t \in Threads, OnceWake(t)
      PROVE  OnceInv'
  <2>1. Wakes(t) /\ pc[t] = "wake"
        /\ pc'[t] = IF local[t] = initialized THEN "called" ELSE "out"
    BY <1>7, WakeEffect DEF OnceWake
  <2>2. /\ WordTypeOK' /\ word' = word /\ completed' = completed
        /\ \A u \in Threads \ {t} : local'[u] = local[u]
    BY <1>7, <2>1 DEF OnceWake, FutexWake, Keep, Wakes
  <2> QED
    BY <2>1, <2>2 DEF Wakes
<1> QED
  BY <1>1, <1>2, <1>3, <1>4, <1>5, <1>6, <1>7 DEF OnceNext, OnceRun

-----------------------------------------------------------------------------
(* Barrier *)

\* Adding one modulo the number of phases, without the remainder.
LEMMA NextPhase ==
    ASSUME NEW x \in 0 .. PhaseModulus - 1
    PROVE  /\ (x + 1) % PhaseModulus \in 0 .. PhaseModulus - 1
           /\ (x + 1) % PhaseModulus = IF x = PhaseModulus - 1 THEN 0 ELSE x + 1
           /\ (x + 1) % PhaseModulus # x
  BY BarrierAssumption

Advancing(t) == pc[t] \in {"reset", "advance"}

\* The threads that have not arrived in the phase after the first P.
Missing(P) == {t \in Threads : Arrivals(t) = P}

\* P phases are over.  Everybody has arrived P times, and some once more; the
\* last of these is about to advance the phase, and by then nobody is missing.
\* The token of a thread that has arrived in the current phase is the current
\* phase, that of a thread still on its way out is the one before.
PhaseInv(P) ==
    /\ \A t \in Threads : Arrivals(t) \in {P, P + 1}
    /\ \A t \in Threads : pc[t] \in {"out", "subtract", "wake"} => Arrivals(t) = P
    /\ \A t \in Threads : pc[t] = "subtract" => local[t] = word
    /\ \A t \in Threads : pc[t] \notin {"out", "subtract"} =>
          IF Arrivals(t) = P + 1 THEN local[t] = word
          ELSE (local[t] + 1) % PhaseModulus = word
    /\ \A t \in Threads : Advancing(t) =>
          \A u \in Threads : Arrivals(u) = P + 1 /\ (Advancing(u) => u = t)
    /\ \A t \in Threads : pc[t] = "advance" => arrived = expected
    /\ (\A t \in Threads : ~ Advancing(t)) => arrived = Cardinality(Missing(P))

BarrierTypeOK ==
    /\ DOMAIN pc = Threads
    /\ \A t \in Threads : pc[t] # "called"
    /\ word \in 0 .. PhaseModulus - 1
    /\ local \in [Threads -> 0 .. PhaseModulus - 1]
    /\ calls \in [Threads -> Nat]

BarrierInv ==
    /\ BarrierTypeOK
    /\ \E P \in Nat : PhaseInv(P)
    /\ Backend = "futex" =>
          \A t \in Threads : pc[t] = "asleep" => word = local[t] \/ WakeComes

BarrierNext ==
    \E t \in Threads :
        \/ \E o \in {"arrive", "arrive_and_wait"} : Arrive(t, o)
        \/ WaitToken(t) \/ BarrierInterrupt(t) \/ BarrierRun(t)

LEMMA BarrierSteps ==
    ASSUME kind = "barrier", [Next]_vars
    PROVE  kind' = "barrier" /\ (BarrierNext \/ UNCHANGED <<wordVars, arrived>>)
  BY DEF Next, vars, Start, Disturb, Run, Over, BarrierNext,
     WordStep, BarrierStep, OnceStep, TicketStep, SeqStep, GuardStep

LEMMA BarrierStart == Init /\ kind = "barrier" => BarrierInv
<1> SUFFICES ASSUME Init, kind = "barrier" PROVE BarrierInv
  OBVIOUS
<1>1. BarrierInit
  BY DEF Init
<1>2. BarrierTypeOK /\ \A t \in Threads : pc[t] = "out" /\ Arrivals(t) = 0
  BY <1>1, BarrierAssumption DEF BarrierInit, WordInit, BarrierTypeOK, Arrivals
<1>3. Missing(0) = Threads
  BY <1>2 DEF Missing
<1>4. PhaseInv(0)
  BY <1>1, <1>2, <1>3 DEF BarrierInit, PhaseInv, Advancing, expected
<1> QED
  BY <1>2, <1>4 DEF BarrierInv

\* A step that leaves the word and the number of arrivals of every thread alone,
\* and neither enters nor leaves the steps of the last arrival.
LEMMA SamePhase ==
    ASSUME NEW P \in Nat, PhaseInv(P), BarrierTypeOK, BarrierTypeOK',
           word' = word, arrived' = arrived, local' \in [Threads -> Nat],
           \A u \in Threads :
              /\ Arrivals(u)' = Arrivals(u)
              /\ Advancing(u)' <=> Advancing(u)
              /\ pc'[u] = "advance" <=> pc[u] = "advance"
              /\ \/ pc'[u] = pc[u] /\ local'[u] = local[u]
                 \/ pc'[u] = "out" /\ Arrivals(u) = P
                 \/ pc'[u] = "subtract" /\ local'[u] = word /\ Arrivals(u) = P
                 \/ /\ pc'[u] \notin {"out", "subtract", "wake"}
                    /\ pc[u] \notin {"out", "subtract"} /\ local'[u] = local[u]
    PROVE  PhaseInv(P)'
<1>1. Missing(P)' = Missing(P)
  BY DEF Missing
<1> QED
  BY <1>1 DEF PhaseInv, expected

LEMMA BarrierStepInv ==
    ASSUME BarrierInv, BarrierNext \/ UNCHANGED <<wordVars, arrived>>
    PROVE  BarrierInv'
<1> PICK P \in Nat : PhaseInv(P)
  BY DEF BarrierInv
<1> USE DEF BarrierInv
<1>1. CASE UNCHANGED <<wordVars, arrived>>
  <2>1. PhaseInv(P)'
    BY <1>1 DEF wordVars, PhaseInv, Advancing, Missing, Arrivals, expected
  <2> QED
    BY <1>1, <2>1 DEF wordVars, WakeComes, BarrierTypeOK
<1>2. ASSUME NEW t \in Threads, NEW o \in {"arrive", "arrive_and_wait"}, Arrive(t, o)
      PROVE  BarrierInv'
  <2>1. pc[t] = "out" /\ Arrivals(t) = P
    BY <1>2 DEF Arrive, Begin, Idle, BarrierTypeOK, PhaseInv
  <2>2. BarrierTypeOK'
    BY <1>2 DEF Arrive, Begin, Keep, Idle, BarrierTypeOK
  <2>3. \A u \in Threads : Arrivals(u)' = Arrivals(u)
    BY <1>2, <2>1, BarrierAssumption DEF Arrive, Begin, Keep, BarrierTypeOK, Arrivals
  <2>4. PhaseInv(P)'
    BY <1>2, <2>1, <2>2, <2>3, SamePhase
    DEF Arrive, Begin, Keep, Idle, BarrierTypeOK, Advancing
  <2> QED
    BY <1>2, <2>1, <2>2, <2>4 DEF Arrive, Begin, Keep, Idle, BarrierTypeOK, WakeComes
<1>3. ASSUME NEW t \in Threads, WaitToken(t) \/ BarrierLoop(t)
      PROVE  BarrierInv'
  <2>1. BarrierTypeOK'
    BY <1>3, BarrierAssumption DEF WaitToken, BarrierLoop, Move, Keep, Idle, BarrierTypeOK
  <2>2. \A u \in Threads : Arrivals(u)' = Arrivals(u)
    BY <1>3 DEF WaitToken, BarrierLoop, Move, Keep, BarrierTypeOK, Arrivals
  <2>3. pc[t] = "loop" /\ word # local[t] => Arrivals(t) = P
    BY DEF PhaseInv
  <2>4. PhaseInv(P)'
    BY <1>3, <2>1, <2>2, <2>3, SamePhase
    DEF WaitToken, BarrierLoop, Move, Keep, Idle, BarrierTypeOK, Advancing
  <2> QED
    BY <1>3, <2>1, <2>4 DEF WaitToken, BarrierLoop, Move, Keep, Idle, BarrierTypeOK, WakeComes
<1>4. ASSUME NEW t \in Threads, BarrierInterrupt(t) \/ BarrierReturn(t) \/ BarrierFutexWait(t)
      PROVE  BarrierInv'
  <2> USE DEF BarrierInterrupt, BarrierReturn, BarrierFutexWait, Interrupt, FutexReturn, FutexWait
  <2>1. BarrierTypeOK'
    BY <1>4 DEF BarrierTypeOK
  <2>2. \A u \in Threads : Arrivals(u)' = Arrivals(u)
    BY <1>4 DEF BarrierTypeOK, Arrivals
  <2>3. PhaseInv(P)'
    BY <1>4, <2>1, <2>2, SamePhase DEF BarrierTypeOK, Advancing
  <2> QED
    BY <1>4, <2>1, <2>3 DEF BarrierTypeOK, WakeComes
<1>5. ASSUME NEW t \in Threads, BarrierWake(t)
      PROVE  BarrierInv'
  <2>1. DOMAIN pc = Threads
    BY DEF BarrierTypeOK
  <2>2. Wakes(t) /\ pc[t] = "wake" /\ pc'[t] = AfterArrival(t, TRUE)
    BY <1>5, <2>1, WakeEffect DEF BarrierWake
  <2>3. pc'[t] \in {"token", "out"}
    BY <2>2 DEF AfterArrival
  <2>4. /\ word' = word /\ arrived' = arrived /\ calls' = calls
        /\ local' = [local EXCEPT ![t] = IF pc'[t] \in Idle THEN 0 ELSE local[t]]
    BY <1>5, <2>2 DEF BarrierWake, FutexWake, Keep
  <2>5. BarrierTypeOK'
    <3>1. local' \in [Threads -> 0 .. PhaseModulus - 1]
      BY <2>4, BarrierAssumption DEF BarrierTypeOK
    <3>2. DOMAIN pc' = Threads /\ \A u \in Threads : pc'[u] # "called"
      BY <2>2, <2>3 DEF BarrierTypeOK, Wakes
    <3> QED
      BY <2>4, <3>1, <3>2 DEF BarrierTypeOK
  <2>6. \A u \in Threads : Arrivals(u)' = Arrivals(u)
    BY <2>2, <2>3, <2>4 DEF Arrivals, Wakes
  <2>7. Arrivals(t) = P
    BY <2>2 DEF PhaseInv
  <2>8. \A u \in Threads \ {t} : local'[u] = local[u]
    BY <2>4 DEF BarrierTypeOK
  <2>9. pc'[t] = "token" => local'[t] = local[t]
    BY <2>4 DEF BarrierTypeOK, Idle
  <2>10. \A u \in Threads :
            /\ Advancing(u)' <=> Advancing(u)
            /\ pc'[u] = "advance" <=> pc[u] = "advance"
            /\ \/ pc'[u] = pc[u] /\ local'[u] = local[u]
               \/ pc'[u] = "out" /\ Arrivals(u) = P
               \/ /\ pc'[u] \notin {"out", "subtract", "wake"}
                  /\ pc[u] \notin {"out", "subtract"} /\ local'[u] = local[u]
    BY <2>2, <2>3, <2>7, <2>8, <2>9 DEF Advancing, Wakes
  <2>11. local' \in [Threads -> Nat]
    BY <2>5 DEF BarrierTypeOK
  <2>12. PhaseInv(P)'
    BY <2>4, <2>5, <2>6, <2>10, <2>11, SamePhase
  <2> QED
    BY <2>2, <2>3, <2>5, <2>12 DEF Wakes
<1>6. ASSUME NEW t \in Threads, Subtract(t)
      PROVE  BarrierInv'
  <2> USE DEF Subtract, AfterArrival, Move, Keep, Idle
  <2>1. BarrierTypeOK'
    BY <1>6 DEF BarrierTypeOK
  <2>2. /\ Arrivals(t) = P /\ Arrivals(t)' = P + 1
        /\ \A u \in Threads \ {t} : Arrivals(u)' = Arrivals(u)
    BY <1>6, BarrierAssumption DEF PhaseInv, BarrierTypeOK, Arrivals
  <2>3. \A u \in Threads : ~ Advancing(u)
    BY <2>2 DEF PhaseInv
  <2>4. t \in Missing(P) /\ Missing(P)' = Missing(P) \ {t}
    BY <2>2 DEF Missing
  <2>5. /\ arrived = Cardinality(Missing(P)) /\ IsFiniteSet(Missing(P)) /\ arrived \in Nat
        /\ IsFiniteSet(Missing(P)') /\ Cardinality(Missing(P)') = arrived - 1
        /\ (arrived = 1 => Missing(P)' = {})
    <3>1. Missing(P) \in SUBSET Threads /\ Missing(P)' \in SUBSET Threads
      BY DEF Missing
    <3>2. IsFiniteSet(Missing(P)) /\ IsFiniteSet(Missing(P)')
          /\ Cardinality(Missing(P)) \in Nat
      BY <3>1, ThreadSets
    <3>3. Cardinality(Missing(P)') = Cardinality(Missing(P)) - 1
      BY <2>4, <3>2, FS_RemoveElement
    <3>4. Cardinality(Missing(P)') = 0 => Missing(P)' = {}
      BY <3>2, FS_EmptySet
    <3> QED
      BY <2>3, <3>2, <3>3, <3>4 DEF PhaseInv
  <2>6. CASE arrived = 1
    <3>1. \A u \in Threads : Arrivals(u)' = P + 1
      BY <2>2, <2>4, <2>5, <2>6 DEF PhaseInv, Missing
    <3>2. PhaseInv(P)'
      BY <1>6, <2>2, <2>3, <2>6, <3>1 DEF PhaseInv, Advancing, BarrierTypeOK
    <3> QED
      BY <1>6, <2>1, <3>2 DEF BarrierTypeOK, WakeComes
  <2>7. CASE arrived # 1
    <3>1. \A u \in Threads : ~ Advancing(u)'
      BY <1>6, <2>3, <2>7 DEF Advancing, BarrierTypeOK
    <3>2. PhaseInv(P)'
      BY <1>6, <2>2, <2>5, <2>7, <3>1 DEF PhaseInv, Advancing, BarrierTypeOK
    <3> QED
      BY <1>6, <2>1, <3>2 DEF BarrierTypeOK, WakeComes
  <2> QED
    BY <2>6, <2>7
<1>7. ASSUME NEW t \in Threads, ResetArrived(t)
      PROVE  BarrierInv'
  <2> USE DEF ResetArrived, Move, Keep, Idle
  <2>1. BarrierTypeOK'
    BY <1>7 DEF BarrierTypeOK
  <2>2. \A u \in Threads : Arrivals(u)' = Arrivals(u)
    BY <1>7 DEF BarrierTypeOK, Arrivals
  <2>3. PhaseInv(P)'
    BY <1>7, <2>2 DEF PhaseInv, Advancing, BarrierTypeOK, expected
  <2> QED
    BY <1>7, <2>1, <2>3 DEF BarrierTypeOK, WakeComes
<1>8. ASSUME NEW t \in Threads, Advance(t)
      PROVE  BarrierInv'
  <2> USE DEF Advance, Move, Keep, Idle
  <2>1. BarrierTypeOK'
    BY <1>8, NextPhase DEF BarrierTypeOK
  <2>2. \A u \in Threads : Arrivals(u) = P + 1 /\ Arrivals(u)' = P + 1
    BY <1>8 DEF BarrierTypeOK, Arrivals, PhaseInv, Advancing
  <2>3. \A u \in Threads : ~ Advancing(u)'
    BY <1>8 DEF BarrierTypeOK, PhaseInv, Advancing
  <2>4. Missing(P + 1)' = Threads /\ arrived' = expected
    BY <1>8, <2>2 DEF Missing, PhaseInv
  <2>5. PhaseInv(P + 1)'
    BY <1>8, <2>2, <2>3, <2>4, NextPhase DEF PhaseInv, BarrierTypeOK, expected
  <2> QED
    BY <1>8, <2>1, <2>5 DEF BarrierTypeOK, WakeComes
<1> QED
  BY <1>1, <1>2, <1>3, <1>4, <1>5, <1>6, <1>7, <1>8 DEF BarrierNext, BarrierRun

-----------------------------------------------------------------------------
(* Sums as numbers of units *)

\* Disjoint sets add up.
LEMMA DisjointUnion ==
    ASSUME NEW S, NEW T, IsFiniteSet(S), IsFiniteSet(T), S \cap T = {}
    PROVE  Cardinality(S \cup T) = Cardinality(S) + Cardinality(T)
<1>1. Cardinality(S \cup T) = Cardinality(S) + Cardinality(T) - Cardinality(S \cap T)
  BY FS_Union
<1>2. Cardinality(S) \in Nat /\ Cardinality(T) \in Nat /\ Cardinality(S \cap T) = 0
  BY FS_CardinalityType, FS_EmptySet
<1> QED
  BY <1>1, <1>2

\* Two functions that agree on S have the same units there.
LEMMA UnitsSame ==
    ASSUME NEW f, NEW g, NEW S, \A u \in S : f[u] = g[u]
    PROVE  Units(f, S) = Units(g, S)
  BY DEF Units

\* One member has as many units as f gives it.
LEMMA UnitsOfOne ==
    ASSUME NEW u, NEW n \in Nat
    PROVE  IsFiniteSet({u} \X (1 .. n)) /\ Cardinality({u} \X (1 .. n)) = n
<1> DEFINE A == {u}
<1> DEFINE B == 1 .. n
<1>1. IsFiniteSet(A) /\ Cardinality(A) = 1
  BY FS_Singleton
<1>2. IsFiniteSet(B) /\ Cardinality(B) = n
  BY FS_Interval
<1>3. IsFiniteSet(A \X B) /\ Cardinality(A \X B) = n
  <2> HIDE DEF A, B
  <2>1. IsFiniteSet(A \X B) /\ Cardinality(A \X B) = Cardinality(A) * Cardinality(B)
    BY <1>1, <1>2, FS_Product
  <2> QED
    BY <2>1, <1>1, <1>2
<1> QED
  BY <1>3

\* Finitely many natural numbers have finitely many units.
LEMMA UnitsFinite ==
    ASSUME NEW S, IsFiniteSet(S), NEW f, \A u \in S : f[u] \in Nat
    PROVE  IsFiniteSet(Units(f, S)) /\ Cardinality(Units(f, S)) \in Nat
<1> DEFINE Part(u) == {u} \X (1 .. f[u])
<1> DEFINE Parts == {Part(u) : u \in S}
<1>1. [u \in S |-> Part(u)] \in Surjection(S, Parts)
  BY DEF Surjection
<1>2. IsFiniteSet(Parts)
  BY <1>1, FS_Surjection
<1>3. \A u \in S : IsFiniteSet(Part(u))
  BY UnitsOfOne
<1>4. IsFiniteSet(UNION Parts)
  BY <1>2, <1>3, FS_UNION
<1> QED
  BY <1>4, FS_CardinalityType DEF Units

\* The units of one member more.
LEMMA UnitsAdd ==
    ASSUME NEW S, IsFiniteSet(S), NEW f, NEW t, t \notin S,
           \A u \in S \cup {t} : f[u] \in Nat
    PROVE  Cardinality(Units(f, S \cup {t})) = Cardinality(Units(f, S)) + f[t]
<1> DEFINE Part == {t} \X (1 .. f[t])
<1>1. IsFiniteSet(Part) /\ Cardinality(Part) = f[t]
  BY UnitsOfOne
<1>2. Units(f, S \cup {t}) = Units(f, S) \cup Part
  BY DEF Units
<1>3. Units(f, S) \cap Part = {}
  <2>1. \A x \in Units(f, S) : x[1] \in S
    BY DEF Units
  <2>2. \A x \in Part : x[1] = t
    OBVIOUS
  <2> QED
    BY <2>1, <2>2
<1>4. IsFiniteSet(Units(f, S)) /\ Cardinality(Units(f, S)) \in Nat
  BY UnitsFinite
<1> QED
  BY <1>1, <1>2, <1>3, <1>4, DisjointUnion

-----------------------------------------------------------------------------
(* Semaphore *)

SemaphoreInv ==
    /\ WordTypeOK
    /\ \A t \in Threads : pc[t] = "cas" => local[t] > 0
    /\ Backend = "futex" =>
          \A t \in Threads :
              pc[t] = "asleep" => word <= Announced + Cardinality(Contenders)

SemaphoreNext ==
    \E t \in Threads :
        \/ \E n \in 1 .. 2 : Release(t, n)
        \/ \E o \in {"try_acquire", "acquire", "try_acquire_for"} : Acquire(t, o)
        \/ SemaphoreExpire(t) \/ Interrupt(t) \/ SemaphoreRun(t)

LEMMA SemaphoreSteps ==
    ASSUME kind = "semaphore", [Next]_vars
    PROVE  kind' = "semaphore" /\ (SemaphoreNext \/ UNCHANGED wordVars)
  BY DEF Next, vars, Start, Disturb, Run, Over, SemaphoreNext,
     WordStep, BarrierStep, OnceStep, TicketStep, SeqStep, GuardStep

LEMMA SemaphoreStart == Init /\ kind = "semaphore" => SemaphoreInv
<1> SUFFICES ASSUME Init, kind = "semaphore" PROVE SemaphoreInv
  OBVIOUS
<1>1. SemaphoreInit
  BY DEF Init
<1> QED
  BY <1>1, FutexWordAssumption, SemaphoreAssumption
  DEF SemaphoreInit, WordInit, SemaphoreInv, WordTypeOK

\* Wakers and contenders are finitely many, and what they count is a number.
LEMMA SemaphoreCounts ==
    ASSUME WordTypeOK
    PROVE  /\ IsFiniteSet(Wakers) /\ IsFiniteSet(Contenders)
           /\ Cardinality(Contenders) \in Nat /\ Announced \in Nat
<1>1. Wakers \in SUBSET Threads /\ Contenders \in SUBSET Threads
  BY DEF Wakers, Contenders
<1> QED
  BY <1>1, ThreadSets, UnitsFinite DEF WordTypeOK, Announced, Wakers

\* The same after a step.
LEMMA SemaphoreCountsNext ==
    ASSUME WordTypeOK'
    PROVE  /\ IsFiniteSet(Wakers') /\ IsFiniteSet(Contenders')
           /\ Cardinality(Contenders') \in Nat /\ Announced' \in Nat
<1>1. Wakers' \in SUBSET Threads /\ Contenders' \in SUBSET Threads
  BY DEF Wakers, Contenders
<1> QED
  BY <1>1, ThreadSets, UnitsFinite DEF WordTypeOK, Announced, Wakers

\* A step that announces no wake and makes none.
LEMMA SameAnnounced ==
    ASSUME WordTypeOK, WordTypeOK',
           \A u \in Threads : pc'[u] = "wake" <=> pc[u] = "wake",
           \A u \in Threads : pc[u] = "wake" => local'[u] = local[u]
    PROVE  Announced' = Announced
<1>1. Wakers' = Wakers
  BY DEF Wakers
<1>2. \A u \in Wakers : local'[u] = local[u]
  BY DEF Wakers
<1>3. Units(local', Wakers) = Units(local, Wakers)
  BY <1>2, UnitsSame
<1> QED
  BY <1>1, <1>3 DEF Announced

\* Contenders that come add to the count, and nobody leaves.
LEMMA MoreContenders ==
    ASSUME Contenders \subseteq Contenders'
    PROVE  Cardinality(Contenders) <= Cardinality(Contenders')
<1>1. Contenders' \in SUBSET Threads
  BY DEF Contenders
<1> QED
  BY <1>1, ThreadSets, FS_Subset

\* A thread that is not counted elsewhere comes or goes on as a contender.
LEMMA StillContends ==
    ASSUME SemaphoreInv, WordTypeOK', word' = word,
           NEW t \in Threads, pc[t] # "wake",
           pc'[t] \in {"loop", "cas", "check", "wait", "woken"},
           pc'[t] = "cas" => local'[t] > 0,
           \A u \in Threads \ {t} : pc'[u] = pc[u] /\ local'[u] = local[u]
    PROVE  SemaphoreInv'
<1>1. Announced' = Announced
  BY SameAnnounced DEF SemaphoreInv
<1>2. Contenders \subseteq Contenders'
  BY DEF Contenders
<1>3. Cardinality(Contenders) <= Cardinality(Contenders')
  BY <1>2, MoreContenders
<1>4. Cardinality(Contenders) \in Nat /\ Cardinality(Contenders') \in Nat
      /\ Announced \in Nat
  <2>1. Contenders \in SUBSET Threads /\ Contenders' \in SUBSET Threads
    BY DEF Contenders
  <2> QED
    BY <2>1, ThreadSets, SemaphoreCounts DEF SemaphoreInv
<1> QED
  BY <1>1, <1>3, <1>4 DEF SemaphoreInv, WordTypeOK

LEMMA SemaphoreStepInv ==
    ASSUME SemaphoreInv, SemaphoreNext \/ UNCHANGED wordVars
    PROVE  SemaphoreInv'
<1>1. CASE UNCHANGED wordVars
  BY <1>1 DEF wordVars, SemaphoreInv, WordTypeOK, Announced, Contenders, Wakers, Units
<1>2. ASSUME NEW t \in Threads, NEW n \in 1 .. 2, Release(t, n)
      PROVE  SemaphoreInv'
  <2> USE DEF Release, Begin, Keep, Idle
  <2>1. WordTypeOK'
    BY <1>2 DEF SemaphoreInv, WordTypeOK
  <2>2. Wakers' = Wakers \cup {t} /\ t \notin Wakers
    BY <1>2 DEF SemaphoreInv, WordTypeOK, Wakers
  <2>3. Contenders' = Contenders
    BY <1>2 DEF SemaphoreInv, WordTypeOK, Contenders
  <2>4. Units(local', Wakers) = Units(local, Wakers)
    <3>1. \A u \in Wakers : local'[u] = local[u]
      BY <1>2, <2>2 DEF SemaphoreInv, WordTypeOK, Wakers
    <3> QED
      BY <3>1, UnitsSame
  <2>5. Announced' = Announced + n
    <3>1. local'[t] = n /\ \A u \in Wakers \cup {t} : local'[u] \in Nat
      <4>1. WordTypeOK /\ \A u \in Wakers : u \in Threads
        BY DEF SemaphoreInv, Wakers
      <4> QED
        BY <1>2, <2>1, <4>1 DEF WordTypeOK
    <3>2. IsFiniteSet(Wakers)
      BY SemaphoreCounts DEF SemaphoreInv
    <3>3. Cardinality(Units(local', Wakers \cup {t})) = Cardinality(Units(local', Wakers)) + local'[t]
      BY <2>2, <3>1, <3>2, UnitsAdd
    <3> QED
      BY <2>2, <2>4, <3>1, <3>3 DEF Announced
  <2> QED
    BY <1>2, <2>1, <2>3, <2>5, SemaphoreCounts DEF SemaphoreInv, WordTypeOK
<1>3. ASSUME NEW t \in Threads, NEW o \in {"try_acquire", "acquire", "try_acquire_for"},
             Acquire(t, o)
      PROVE  SemaphoreInv'
  <2> USE DEF Acquire, Begin, Keep, Idle, WordTypeOK
  <2>1. WordTypeOK' /\ word' = word
    BY <1>3 DEF SemaphoreInv
  <2>2. /\ pc[t] # "wake" /\ pc'[t] = "loop"
        /\ \A u \in Threads \ {t} : pc'[u] = pc[u] /\ local'[u] = local[u]
    BY <1>3 DEF SemaphoreInv
  <2> QED
    BY <2>1, <2>2, StillContends
<1>4. ASSUME NEW t \in Threads, TryAcquire(t) \/ TakeToken(t)
      PROVE  SemaphoreInv'
  <2> USE DEF TryAcquire, TakeToken, AfterNoToken, Move, Keep, Idle
  <2>1. /\ WordTypeOK' /\ pc[t] # "wake"
        /\ \A u \in Threads \ {t} : pc'[u] = pc[u] /\ local'[u] = local[u]
    BY <1>4 DEF SemaphoreInv, WordTypeOK
  <2>2. CASE pc'[t] # "out"
    <3>1. word' = word /\ pc'[t] \in {"cas", "check"} /\ (pc'[t] = "cas" => local'[t] > 0)
      BY <1>4, <2>2 DEF SemaphoreInv, WordTypeOK
    <3> QED
      BY <2>1, <3>1, StillContends
  <2>3. CASE pc'[t] = "out" /\ word = 0
    <3>1. word' = 0
      BY <1>4, <2>3 DEF SemaphoreInv
    <3> QED
      BY <2>1, <2>3, <3>1, SemaphoreCountsNext
      DEF SemaphoreInv, WordTypeOK
  <2>4. CASE pc'[t] = "out" /\ word > 0
    <3>1. word' = word - 1 /\ pc[t] = "cas"
      BY <1>4, <2>4 DEF SemaphoreInv, WordTypeOK
    <3>2. Announced' = Announced
      BY <2>1, <2>4, SameAnnounced DEF SemaphoreInv
    <3>3. Contenders' = Contenders \ {t} /\ t \in Contenders
      BY <2>1, <2>4, <3>1 DEF Contenders
    <3>4. Cardinality(Contenders') = Cardinality(Contenders) - 1
      BY <3>3, SemaphoreCounts, FS_RemoveElement DEF SemaphoreInv
    <3>5. \A u \in Threads : pc'[u] = "asleep" => pc[u] = "asleep"
      BY <2>1, <2>4
    <3> QED
      BY <2>1, <2>4, <3>1, <3>2, <3>4, <3>5, SemaphoreCounts DEF SemaphoreInv, WordTypeOK
  <2> QED
    BY <2>2, <2>3, <2>4 DEF SemaphoreInv, WordTypeOK
<1>5. ASSUME NEW t \in Threads,
             SemaphoreExpire(t) \/ CheckCount(t) \/ Interrupt(t) \/ FutexReturn(t)
      PROVE  SemaphoreInv'
  <2> USE DEF SemaphoreExpire, CheckCount, Interrupt, FutexReturn, Move, Keep, Idle
  <2>1. /\ WordTypeOK' /\ word' = word /\ pc[t] # "wake"
        /\ pc'[t] \in {"loop", "wait", "woken"}
        /\ \A u \in Threads \ {t} : pc'[u] = pc[u] /\ local'[u] = local[u]
    BY <1>5 DEF SemaphoreInv, WordTypeOK
  <2> QED
    BY <2>1, StillContends
<1>6. ASSUME NEW t \in Threads, SemaphoreFutexWait(t)
      PROVE  SemaphoreInv'
  <2> USE DEF SemaphoreFutexWait, FutexWait
  <2>1. /\ WordTypeOK' /\ word' = word /\ pc[t] = "wait"
        /\ pc'[t] = IF word = 0 THEN "asleep" ELSE "loop"
        /\ \A u \in Threads \ {t} : pc'[u] = pc[u] /\ local'[u] = local[u]
    BY <1>6 DEF SemaphoreInv, WordTypeOK
  <2>2. CASE word = 0
    BY <2>1, <2>2, SemaphoreCountsNext DEF SemaphoreInv, WordTypeOK
  <2>3. CASE word # 0
    BY <2>1, <2>3, StillContends
  <2> QED
    BY <2>2, <2>3
<1>7. ASSUME NEW t \in Threads, SemaphoreWake(t)
      PROVE  SemaphoreInv'
  <2> PICK S \in Woken(local[t]) :
             pc' = [u \in Threads |-> IF u = t THEN "out"
                                      ELSE IF u \in S THEN "woken" ELSE pc[u]]
    BY <1>7 DEF SemaphoreWake, FutexWake
  <2>1. WordTypeOK' /\ word' = word /\ pc[t] = "wake"
    BY <1>7 DEF SemaphoreWake, FutexWake, Keep, Idle, SemaphoreInv, WordTypeOK
  <2>2. \A u \in Threads \ {t} : local'[u] = local[u]
    BY <1>7 DEF SemaphoreWake, FutexWake, Keep, SemaphoreInv, WordTypeOK
  <2>3. S \subseteq Sleepers /\ t \notin Sleepers
    BY <2>1, WokenSleep DEF Sleepers
  <2>4. CASE Backend # "futex" \/ S = Sleepers
    <3>1. Backend = "futex" => \A u \in Threads : pc'[u] # "asleep"
      BY <2>4 DEF Sleepers
    <3> QED
      BY <2>1, <2>2, <3>1 DEF SemaphoreInv
  <2>5. CASE Backend = "futex" /\ S # Sleepers
    <3>1. Cardinality(S) = local[t]
      BY <2>5 DEF Woken, WakeSome
    <3>2. Contenders' = Contenders \cup S /\ Contenders \cap S = {}
      BY <2>1, <2>3 DEF Contenders, Sleepers
    <3>3. Cardinality(Contenders') = Cardinality(Contenders) + local[t]
      <4>1. S \in SUBSET Threads
        BY <2>3 DEF Sleepers
      <4>2. IsFiniteSet(S) /\ IsFiniteSet(Contenders)
        BY <4>1, ThreadSets, SemaphoreCounts DEF SemaphoreInv
      <4> QED
        BY <3>1, <3>2, <4>2, DisjointUnion
    <3>4. Wakers = Wakers' \cup {t} /\ t \notin Wakers'
      BY <2>1, <2>3 DEF Wakers, Sleepers
    <3>5. Announced = Announced' + local[t]
      <4>1. IsFiniteSet(Wakers') /\ \A u \in Wakers' \cup {t} : local[u] \in Nat
        BY <2>1, <3>4, SemaphoreCountsNext DEF SemaphoreInv, WordTypeOK, Wakers
      <4>2. Units(local, Wakers') = Units(local', Wakers')
        <5>1. \A u \in Wakers' : local[u] = local'[u]
          BY <2>2, <3>4 DEF Wakers
        <5> QED
          BY <5>1, UnitsSame
      <4>3. Cardinality(Units(local, Wakers)) = Cardinality(Units(local, Wakers')) + local[t]
        BY <3>4, <4>1, UnitsAdd
      <4> QED
        BY <4>2, <4>3 DEF Announced
    <3>6. \A u \in Threads : pc'[u] = "asleep" => pc[u] = "asleep"
      OBVIOUS
    <3>7. \A u \in Threads : pc'[u] = "cas" => local'[u] > 0
      BY <2>2 DEF SemaphoreInv
    <3> QED
      BY <2>1, <3>3, <3>5, <3>6, <3>7, SemaphoreCounts, SemaphoreCountsNext
      DEF SemaphoreInv, WordTypeOK
  <2> QED
    BY <2>4, <2>5
<1> QED
  BY <1>1, <1>2, <1>3, <1>4, <1>5, <1>6, <1>7 DEF SemaphoreNext, SemaphoreRun

-----------------------------------------------------------------------------
(* The theorems *)

\* The object's invariant, whichever kind it is of.
SleepInv ==
    /\ kind = "latch" => LatchInv
    /\ kind = "baton" => BatonInv
    /\ kind = "once" => OnceInv
    /\ kind = "barrier" => BarrierInv
    /\ kind = "semaphore" => SemaphoreInv

LEMMA SleepInvInductive ==
    ASSUME SleepInv, [Next]_vars
    PROVE  SleepInv'
<1>0. kind' = kind
  BY DEF Next, vars, Start, Disturb, Run, Over,
     WordStep, BarrierStep, OnceStep, TicketStep, SeqStep, GuardStep
<1>1. CASE kind = "latch"
  BY <1>0, <1>1, LatchSteps, LatchStep DEF SleepInv
<1>2. CASE kind = "baton"
  BY <1>0, <1>2, BatonSteps, BatonStep DEF SleepInv
<1>3. CASE kind = "once"
  BY <1>0, <1>3, OnceSteps, OnceStepInv DEF SleepInv
<1>4. CASE kind = "barrier"
  BY <1>0, <1>4, BarrierSteps, BarrierStepInv DEF SleepInv
<1>5. CASE kind = "semaphore"
  BY <1>0, <1>5, SemaphoreSteps, SemaphoreStepInv DEF SleepInv
<1> QED
  BY <1>0, <1>1, <1>2, <1>3, <1>4, <1>5 DEF SleepInv

\* The invariants of the five primitives hold always.
LEMMA SleepInvAlways == Spec => []SleepInv
<1>1. Init => SleepInv
  BY LatchStart, BatonStart, OnceStart, BarrierStart, SemaphoreStart DEF SleepInv
<1>2. SleepInv /\ [Next]_vars => SleepInv'
  BY SleepInvInductive
<1> QED
  BY <1>1, <1>2, PTL DEF Spec

\* On Linux nobody sleeps on a latch, a barrier, a semaphore, a baton or a
\* once-flag whose condition has come true, unless a wake that reaches it is
\* on its way: for every number of threads, calls and tokens.
THEOREM SleepersAlwaysCovered ==
    ASSUME Backend = "futex"
    PROVE  Spec => []SleepersCovered
<1>1. SleepInv => SleepersCovered
  <2> SUFFICES ASSUME SleepInv PROVE SleepersCovered
    OBVIOUS
  <2>1. kind = "latch" => LatchCovered
    BY DEF SleepInv, LatchInv, LatchCovered, Sleepers, Wakers, WakeComes
  <2>2. kind = "baton" => BatonCovered
    BY DEF SleepInv, BatonInv, BatonCovered, Sleepers, Wakers, WakeComes
  <2>3. kind = "once" => OnceCovered
    BY DEF SleepInv, OnceInv, OnceCovered, Sleepers, Wakers, WakeComes
  <2>4. kind = "barrier" => BarrierCovered
    BY DEF SleepInv, BarrierInv, BarrierCovered, Sleepers, Wakers, WakeComes
  <2>5. kind = "semaphore" => SemaphoreCovered
    BY DEF SleepInv, SemaphoreInv, SemaphoreCovered, Sleepers
  <2> QED
    BY <2>1, <2>2, <2>3, <2>4, <2>5 DEF SleepersCovered
<1> QED
  BY <1>1, SleepInvAlways, PTL

\* Nobody leaves a phase of the barrier in which somebody has not arrived,
\* for any number of participants, of phases, and any modulus from 2 up.
THEOREM BarrierAlwaysInPhase == Spec => []BarrierInPhase
<1>1. SleepInv => BarrierInPhase
  <2> SUFFICES ASSUME SleepInv, kind = "barrier", NEW t \in Threads, NEW u \in Threads
               PROVE  Departures(t) <= Arrivals(u)
    BY DEF BarrierInPhase
  <2> PICK P \in Nat : PhaseInv(P)
    BY DEF SleepInv, BarrierInv
  <2>1. calls \in [Threads -> Nat]
    BY DEF SleepInv, BarrierInv, BarrierTypeOK
  <2>2. P <= Arrivals(u)
    BY DEF PhaseInv
  <2>3. Departures(t) <= P
    BY <2>1, BarrierAssumption DEF PhaseInv, Departures, Arrivals
  <2>4. Departures(t) \in Int /\ Arrivals(u) \in Int
    BY <2>1, BarrierAssumption DEF Departures, Arrivals
  <2> QED
    BY <2>2, <2>3, <2>4
<1> QED
  BY <1>1, SleepInvAlways, PTL

\* The callable of call_once() never runs twice at a time nor again after it
\* has returned, and nobody returns normally before it has, for any number of
\* callers and of attempts that throw.
THEOREM CallableRunsOnce == Spec => []RunsOnce
<1>1. SleepInv => RunsOnce
  <2> SUFFICES ASSUME SleepInv, kind = "once"
               PROVE  /\ Cardinality(Running) + completed <= 1
                      /\ \A t \in Threads : pc[t] = "called" => completed = 1
    BY DEF RunsOnce
  <2> USE DEF SleepInv, OnceInv, Attempting, uninitialized, initializing, initialized
  <2>1. CASE Running = {}
    BY <2>1, FS_EmptySet
  <2>2. CASE Running # {}
    <3>1. PICK t \in Threads : pc[t] = "run"
      BY <2>2 DEF Running
    <3>2. Running = {t}
      BY <3>1 DEF Running
    <3>3. completed = 0
      BY <3>1
    <3> QED
      BY <3>2, <3>3, FS_Singleton
  <2> QED
    BY <2>1, <2>2
<1> QED
  BY <1>1, SleepInvAlways, PTL
=============================================================================
