--------------------------- MODULE McpWorkerProofs ---------------------------
(***************************************************************************)
(* McpWorker for any set of callers and any bounds: its sessions, then the *)
(* requests, from put to answer (none is lost or answered twice), then     *)
(* that it implements McpService, then that no queue is left alone.        *)
(***************************************************************************)
EXTENDS McpWorker, SequenceTheorems, FiniteSetTheorems, TLAPS

Tasks == Callers \cup Sessions
PcValues == {"start", "ensure", "ready", "have", "wait", "close", "join", "closed"}
              \cup CallEnds

\* Sequences of one or two elements are sequences over any set that has them.
LEMMA ShortSequences ==
  /\ \A S : << >> \in Seq(S)
  /\ \A S : \A x \in S : <<x>> \in Seq(S)
OBVIOUS

\* What a task that is running appends to the ready queue are tasks.
LEMMA WakeTypes ==
  ASSUME TypeOK
  PROVE  /\ LockWake \in Seq(Tasks)
         /\ PutWake \in Seq(Tasks)
         /\ \A S \in SUBSET Callers : WakeOne(S) \in Seq(Tasks)
         /\ \A g \in Sessions : serving[g] \in Callers => ResolveWake(g) \in Seq(Tasks)
<1> USE ShortSequences
<1>1. LockWake \in Seq(Tasks)
  <2>1. waiters \in Seq(Callers)  BY DEF TypeOK
  <2>2. CASE waiters = <<>>  BY <2>2 DEF LockWake
  <2>3. CASE waiters # <<>>
    <3>1. Head(waiters) \in Callers  BY <2>1, <2>3, HeadTailProperties
    <3>2. Head(waiters) \in Tasks  BY <3>1 DEF Tasks
    <3>3. QED  BY <3>2, <2>3 DEF LockWake
  <2>4. QED  BY <2>2, <2>3
<1>2. PutWake \in Seq(Tasks)
  <2>1. Getters \subseteq Tasks  BY DEF Getters, Tasks
  <2>2. CASE Getters = {}  BY <2>2 DEF PutWake
  <2>3. CASE Getters # {}
    <3>1. (CHOOSE g \in Getters : TRUE) \in Tasks  BY <2>3, <2>1
    <3>2. QED  BY <3>1, <2>3 DEF PutWake
  <2>4. QED  BY <2>2, <2>3
<1>3. ASSUME NEW S \in SUBSET Callers PROVE WakeOne(S) \in Seq(Tasks)
  <2>1. CASE S = {}  BY <2>1 DEF WakeOne
  <2>2. CASE S # {}
    <3>1. (CHOOSE c \in S : TRUE) \in Tasks  BY <2>2 DEF Tasks
    <3>2. QED  BY <3>1, <2>2 DEF WakeOne
  <2>3. QED  BY <2>1, <2>2
<1>4. ASSUME NEW g \in Sessions, serving[g] \in Callers
      PROVE  ResolveWake(g) \in Seq(Tasks)
  <2>1. serving[g] \in Tasks  BY <1>4 DEF Tasks
  <2>2. QED  BY <2>1 DEF ResolveWake
<1>5. QED  BY <1>1, <1>2, <1>3, <1>4

\* Removing an element of a sequence leaves a sequence over the same set.
LEMMA RemoveAtType ==
  ASSUME NEW S, NEW s \in Seq(S), NEW i \in DOMAIN s
  PROVE  RemoveAt(s, i) \in Seq(S)
<1>1. i \in 1..Len(s) /\ i \in Int  OBVIOUS
<1>2. SubSeq(s, 1, i - 1) \in Seq(S)  BY <1>1, SubSeqProperties
<1>3. SubSeq(s, i + 1, Len(s)) \in Seq(S)  BY <1>1, SubSeqProperties
<1>4. QED  BY <1>2, <1>3, ConcatProperties DEF RemoveAt

\* Suspending and waking keep the ready queue a sequence of tasks.
LEMMA RunqTypes ==
  ASSUME runq \in Seq(Tasks)
  PROVE  /\ runq # <<>> => Tail(runq) \in Seq(Tasks)
         /\ \A wake \in Seq(Tasks) :
              /\ runq # <<>> => Tail(runq) \o wake \in Seq(Tasks)
              /\ runq \o wake \in Seq(Tasks)
<1>1. runq # <<>> => Tail(runq) \in Seq(Tasks)  BY HeadTailProperties
<1>2. QED  BY <1>1, ConcatProperties

\* Each action of a caller keeps the types.
LEMMA CallerTypes ==
  ASSUME TypeOK, NEW c \in Callers, CallerStep(c) \/ Call(c)
  PROVE  TypeOK'
<1> USE WorkerAssumption
<1> DEFINE Q == Seq(Tasks)
<1>0. runq \in Q  BY DEF TypeOK, Tasks
<1>t. c \in Tasks /\ <<c>> \in Q  BY ShortSequences DEF Tasks
<1>w. LockWake \in Q /\ PutWake \in Q  BY WakeTypes
<1>r. /\ Suspend /\ runq # <<>> => runq' \in Q
      /\ \A wake \in Q : SuspendAnd(wake) /\ runq # <<>> => runq' \in Q
      /\ \A wake \in Q : KeepRunning(wake) => runq' \in Q
  BY <1>0, RunqTypes DEF Suspend, SuspendAnd, KeepRunning
<1> HIDE DEF Q
<1> USE <1>0, <1>t, <1>w, <1>r
<1> USE DEF callerVars, lockVars, sessionVars, Release, Running
<1>1. CASE Call(c)
  <2>1. runq' \in Q  BY <1>1, ConcatProperties DEF Call, Q
  <2>2. QED  BY <1>1, <2>1 DEF Call, TypeOK, Q, Tasks
<1>2. CASE Acquire(c)
  <2>1. runq' \in Q  BY <1>2 DEF Acquire
  <2>2. waiters' \in Seq(Callers)
    <3>1. waiters \in Seq(Callers)  BY DEF TypeOK
    <3>2. waiters # <<>> => Tail(waiters) \in Seq(Callers)  BY <3>1, HeadTailProperties
    <3>3. QED  BY <1>2, <3>1, <3>2 DEF Acquire
  <2>3. lock' = c /\ UNCHANGED <<callerVars, requests, task, sessionVars>>  BY <1>2 DEF Acquire
  <2>4. QED  BY <2>1, <2>2, <2>3 DEF TypeOK, Q, Tasks
<1>3. CASE Enqueue(c)
  <2>1. runq' \in Q  BY <1>3 DEF Enqueue, AtLock
  <2>2. QED  BY <1>3, <2>1 DEF Enqueue, AtLock, TypeOK, Q, Tasks
<1>4. CASE EnsureAlive(c)
  <2>1. runq' \in Q  BY <1>4 DEF EnsureAlive, InEnsure
  <2>2. QED  BY <1>4, <2>1 DEF EnsureAlive, InEnsure, TypeOK, Q, Tasks
<1>5. CASE EnsurePoisoned(c)
  <2>1. runq' \in Q  BY <1>5 DEF EnsurePoisoned, InEnsure
  <2>2. QED  BY <1>5, <2>1 DEF EnsurePoisoned, InEnsure, TypeOK, Q, Tasks, CallEnds
<1>6. CASE EnsureStart(c)
  <2>1. runq' \in Q  BY <1>6 DEF EnsureStart, InEnsure
  <2>2. QED  BY <1>6, <2>1 DEF EnsureStart, InEnsure, TypeOK, Q, Tasks, Sessions, Live
<1>7. CASE AfterReady(c)
  <2>1. runq' \in Q  BY <1>7 DEF AfterReady
  <2>2. ReadyEnd(c) \in {"have", "error", "cancelled"}  BY DEF ReadyEnd
  <2>3. QED  BY <1>7, <2>1, <2>2 DEF AfterReady, TypeOK, Q, Tasks, CallEnds
<1>8. CASE ToolsReturn(c)
  <2>1. runq' \in Q  BY <1>8 DEF ToolsReturn
  <2>2. pc' \in [Callers -> PcValues] /\ attempt' \in [Callers -> 0..2]
    <3>1. CASE Op[c] = "tools"
      BY <1>8, <3>1 DEF ToolsReturn, Suspend, TypeOK, PcValues, CallEnds
    <3>2. CASE Op[c] # "tools"
      <4>1. attempt' = [attempt EXCEPT ![c] = 1]  BY <1>8, <3>2 DEF ToolsReturn
      <4>2. pc' = [pc EXCEPT ![c] = "ensure"]  BY <1>8, <3>2 DEF ToolsReturn
      <4>3. pc' \in [Callers -> PcValues]  BY <4>2 DEF TypeOK, PcValues, CallEnds
      <4>4. attempt' \in [Callers -> 0..2]  BY <4>1 DEF TypeOK
      <4>5. QED  BY <4>3, <4>4
    <3>3. QED  BY <3>1, <3>2
  <2>3. QED  BY <1>8, <2>1, <2>2 DEF ToolsReturn, TypeOK, Q, Tasks, PcValues
<1>9. CASE PutRequest(c)
  <2>1. runq' \in Q  BY <1>9 DEF PutRequest
  <2>2. requests' \in Seq(Callers)  BY <1>9 DEF PutRequest, TypeOK
  <2>3. QED  BY <1>9, <2>1, <2>2 DEF PutRequest, TypeOK, Q, Tasks
<1>10. CASE AfterWait(c)
  <2>1. runq' \in Q  BY <1>10 DEF AfterWait
  <2>2. QED  BY <1>10, <2>1 DEF AfterWait, TypeOK, Q, Tasks, CallEnds
<1>11. CASE Aclose(c)
  <2>1. runq' \in Q
    <3>1. CASE Alive
      <4>1. task \in Tasks  BY <3>1 DEF Alive, TypeOK, Tasks
      <4>2. (IF Blocked(task) THEN <<task>> ELSE <<>>) \in Q  BY <4>1, ShortSequences DEF Q
      <4>3. LockWake \o (IF Blocked(task) THEN <<task>> ELSE <<>>) \in Q
        BY <4>2, ConcatProperties DEF Q
      <4>4. QED  BY <1>11, <3>1, <4>3 DEF Aclose
    <3>2. CASE ~Alive  BY <1>11, <3>2 DEF Aclose
    <3>3. QED  BY <3>1, <3>2
  <2>2. /\ pc' \in [Callers -> PcValues]
        /\ target' \in [Callers -> Sessions \cup {NoSession}]
        /\ killed' \subseteq Sessions
    <3>1. CASE Alive
      <4>1. task \in Sessions  BY <3>1 DEF Alive, TypeOK
      <4>2. /\ pc' = [pc EXCEPT ![c] = "join"]
            /\ target' = [target EXCEPT ![c] = task]
            /\ killed' = killed \cup {task}
        BY <1>11, <3>1 DEF Aclose
      <4>3. pc' \in [Callers -> PcValues]  BY <4>2 DEF TypeOK, PcValues
      <4>4. QED  BY <4>1, <4>2, <4>3 DEF TypeOK
    <3>2. CASE ~Alive  BY <1>11, <3>2 DEF Aclose, SuspendAnd, KeepRunning, TypeOK, PcValues
    <3>3. QED  BY <3>1, <3>2
  <2>3. QED  BY <1>11, <2>1, <2>2 DEF Aclose, TypeOK, Q, Tasks, PcValues
<1>12. CASE AfterJoin(c)
  <2>1. runq' \in Q  BY <1>12 DEF AfterJoin
  <2>2. QED  BY <1>12, <2>1 DEF AfterJoin, TypeOK, Q, Tasks
<1>13. CASE Retry(c)
  <2>1. runq' \in Q  BY <1>13 DEF Retry
  <2>2. pc' \in [Callers -> PcValues] /\ attempt' \in [Callers -> 0..2]
    <3>1. CASE attempt[c] = 2
      BY <1>13, <3>1 DEF Retry, Suspend, TypeOK, PcValues, CallEnds
    <3>2. CASE attempt[c] # 2
      <4>1. attempt' = [attempt EXCEPT ![c] = 2]  BY <1>13, <3>2 DEF Retry
      <4>2. pc' = [pc EXCEPT ![c] = "ensure"]  BY <1>13, <3>2 DEF Retry
      <4>3. pc' \in [Callers -> PcValues]  BY <4>2 DEF TypeOK, PcValues, CallEnds
      <4>4. attempt' \in [Callers -> 0..2]  BY <4>1 DEF TypeOK
      <4>5. QED  BY <4>3, <4>4
    <3>3. QED  BY <3>1, <3>2
  <2>3. QED  BY <1>13, <2>1, <2>2 DEF Retry, TypeOK, Q, Tasks, PcValues
<1>14. QED
  BY <1>1, <1>2, <1>3, <1>4, <1>5, <1>6, <1>7, <1>8, <1>9, <1>10, <1>11, <1>12, <1>13
  DEF CallerStep

\* Cancelling a caller keeps the types.
LEMMA CancelTypes ==
  ASSUME TypeOK, NEW c \in Callers, Cancel(c)
  PROVE  TypeOK'
<1> DEFINE Q == Seq(Tasks)
<1>0. runq \in Q  BY DEF TypeOK, Tasks
<1>1. CASE CancelAtLock(c)
  <2>1. PICK i \in DOMAIN waiters :
          /\ waiters' = RemoveAt(waiters, i)
          /\ pc' = [pc EXCEPT ![c] = "cancelled"]
          /\ cancel' = [cancel EXCEPT ![c] = "seen"]
          /\ IF Blocked(c)
             THEN UNCHANGED runq
             ELSE \E j \in DOMAIN runq :
                    /\ runq[j] = c
                    /\ runq' = RemoveAt(runq, j) \o
                         (IF Len(waiters) > 1 THEN <<waiters[2]>> ELSE <<>>)
    BY <1>1 DEF CancelAtLock
  <2>2. waiters' \in Seq(Callers)  BY <2>1, RemoveAtType DEF TypeOK
  <2>3. runq' \in Q
    <3>1. CASE Blocked(c)  BY <3>1, <2>1, <1>0
    <3>2. CASE ~Blocked(c)
      <4>1. PICK j \in DOMAIN runq : runq' = RemoveAt(runq, j) \o
                  (IF Len(waiters) > 1 THEN <<waiters[2]>> ELSE <<>>)
        BY <3>2, <2>1
      <4>2. RemoveAt(runq, j) \in Q  BY <1>0, RemoveAtType
      <4>3. Len(waiters) > 1 => waiters[2] \in Tasks  BY DEF TypeOK, Tasks
      <4>4. (IF Len(waiters) > 1 THEN <<waiters[2]>> ELSE <<>>) \in Q
        BY <4>3, ShortSequences
      <4>5. QED  BY <4>1, <4>2, <4>4, ConcatProperties
    <3>3. QED  BY <3>1, <3>2
  <2>4. UNCHANGED <<attempt, future, target, lock, requests, task, sessionVars>>
    BY <1>1 DEF CancelAtLock
  <2>5. QED  BY <2>1, <2>2, <2>3, <2>4 DEF TypeOK, sessionVars, Tasks, CallEnds
<1>2. CASE CancelAtAwait(c)
  <2>1. runq' \in Q
    <3>1. Append(runq, c) \in Q  BY <1>0, AppendProperties DEF Tasks
    <3>2. QED  BY <1>0, <1>2, <3>1 DEF CancelAtAwait
  <2>2. /\ ready' \in [Sessions -> {"pending", "ok", "failed", "cancelled"}]
        /\ future' \in [Callers -> {"none", "pending", "result", "exception", "cancelled"}]
    BY <1>2 DEF CancelAtAwait, TypeOK
  <2>3. cancel' \in [Callers -> {"no", "asked", "seen"}]
    BY <1>2 DEF CancelAtAwait, TypeOK
  <2>4. QED  BY <1>2, <2>1, <2>2, <2>3 DEF CancelAtAwait, TypeOK, Tasks, lockVars
<1>3. QED  BY <1>1, <1>2 DEF Cancel

\* Each step of a session keeps the types.
LEMMA SessionTypes ==
  ASSUME TypeOK, ServingHasCaller, NEW g \in Sessions,
         SessionStep(g) \/ Io(g) \/ DieIdle(g)
  PROVE  TypeOK'
<1> USE WorkerAssumption
<1> DEFINE Q == Seq(Tasks)
<1>0. runq \in Q  BY DEF TypeOK, Tasks
<1>h. requests # <<>> => Head(requests) \in Callers /\ Tail(requests) \in Seq(Callers)
  BY HeadTailProperties DEF TypeOK
<1>t. /\ g \in Tasks /\ <<g>> \in Q /\ <<>> \in Q
      /\ requests # <<>> => <<Head(requests)>> \in Q
  BY <1>h, ShortSequences DEF Tasks
<1>w. /\ WakeOne(Starter(g)) \in Q /\ WakeOne(Joiner(g)) \in Q
      /\ session[g] = "serving" => ResolveWake(g) \in Q
  BY WakeTypes DEF ServingHasCaller, Starter, Joiner
<1>r. /\ Suspend /\ runq # <<>> => runq' \in Q
      /\ \A wake \in Q : SuspendAnd(wake) /\ runq # <<>> => runq' \in Q
      /\ \A wake \in Q : KeepRunning(wake) => runq' \in Q
  BY <1>0, RunqTypes DEF Suspend, SuspendAnd, KeepRunning
<1> HIDE DEF Q
<1>f. ASSUME NEW v \in {"result", "exception", "cancelled"}, Resolve(g, v)
      PROVE  future' \in [Callers -> {"none", "pending", "result", "exception", "cancelled"}]
  BY <1>f DEF Resolve, TypeOK
<1> USE <1>0, <1>t, <1>w, <1>r
<1> USE DEF callerVars, lockVars, sessionVars, Running, Awake
<1>1. CASE Io(g)
  <2>1. runq' \in Q  BY <1>1, AppendProperties DEF Io, Q
  <2>2. QED  BY <1>1, <2>1 DEF Io, TypeOK, Q, Tasks
<1>2. CASE DieIdle(g)  BY <1>2 DEF DieIdle, TypeOK, Live
<1>3. CASE StartOk(g)
  <2>1. runq' \in Q  BY <1>3 DEF StartOk
  <2>2. QED  BY <1>3, <2>1 DEF StartOk, TypeOK, Q, Tasks, Live
<1>4. CASE StartFail(g)
  <2>1. runq' \in Q  BY <1>4 DEF StartFail
  <2>2. QED  BY <1>4, <2>1 DEF StartFail, TypeOK, Q, Tasks, Live
<1>5. CASE SkipCancelled(g)
  <2>1. runq' \in Q  BY <1>5 DEF SkipCancelled
  <2>2. QED  BY <1>5, <2>1, <1>h DEF SkipCancelled, TypeOK, Q, Tasks
<1>6. CASE RefuseUnlisted(g)
  <2>1. runq' \in Q  BY <1>6 DEF RefuseUnlisted
  <2>2. QED  BY <1>6, <2>1, <1>h DEF RefuseUnlisted, TypeOK, Q, Tasks, Live
<1>7. CASE Execute(g)
  <2>1. runq' \in Q  BY <1>7 DEF Execute
  <2>2. /\ serving' \in [Sessions -> Callers \cup {NoOne}]
        /\ executed' \in [Callers -> Nat]
        /\ session' \in [Sessions -> Live \cup {"none", "done"}]
    BY <1>7, <1>h DEF Execute, TypeOK, Live
  <2>3. QED  BY <1>7, <2>1, <2>2, <1>h DEF Execute, TypeOK, Q, Tasks
<1>8. CASE NothingToTake(g)
  <2>1. runq' \in Q  BY <1>8 DEF NothingToTake
  <2>2. QED  BY <1>8, <2>1 DEF NothingToTake, TypeOK, Q, Tasks
<1>9. CASE Answer(g)
  <2>1. runq' \in Q  BY <1>9 DEF Answer
  <2>2. QED  BY <1>9, <2>1, <1>f DEF Answer, TypeOK, Q, Tasks, Live
<1>10. CASE Break(g)
  <2>1. runq' \in Q  BY <1>10 DEF Break
  <2>2. QED  BY <1>10, <2>1, <1>f DEF Break, TypeOK, Q, Tasks, Live
<1>11. CASE Cancelled(g)
  <2>1. runq' \in Q  BY <1>11 DEF Cancelled
  <2>2. /\ future' \in [Callers -> {"none", "pending", "result", "exception", "cancelled"}]
        /\ serving' \in [Sessions -> Callers \cup {NoOne}]
    <3>1. CASE session[g] = "serving"  BY <1>11, <3>1, <1>f DEF Cancelled, TypeOK
    <3>2. CASE session[g] # "serving"  BY <1>11, <3>2 DEF Cancelled, Suspend, TypeOK
    <3>3. QED  BY <3>1, <3>2
  <2>3. QED  BY <1>11, <2>1, <2>2 DEF Cancelled, TypeOK, Q, Tasks, Live
<1>12. CASE TornDown(g)
  <2>1. runq' \in Q  BY <1>12 DEF TornDown
  <2>2. ready' \in [Sessions -> {"pending", "ok", "failed", "cancelled"}]
    <3>1. ready \in [Sessions -> {"pending", "ok", "failed", "cancelled"}]
      BY DEF TypeOK
    <3>2. ready' = ready \/ ready' = [ready EXCEPT ![g] = "failed"]
      BY <1>12 DEF TornDown
    <3>3. QED
      BY <3>1, <3>2
  <2>3. QED  BY <1>12, <2>1, <2>2 DEF TornDown, TypeOK, Q, Tasks, Live
<1>13. CASE Drain(g)
  <2>1. runq' \in Q  BY <1>13 DEF Drain
  <2>2. QED  BY <1>13, <2>1, <1>h DEF Drain, TypeOK, Q, Tasks
<1>14. CASE End(g)
  <2>1. runq' \in Q  BY <1>14 DEF End
  <2>2. QED  BY <1>14, <2>1 DEF End, TypeOK, Q, Tasks
<1>15. QED
  BY <1>1, <1>2, <1>3, <1>4, <1>5, <1>6, <1>7, <1>8, <1>9, <1>10, <1>11, <1>12,
     <1>13, <1>14 DEF SessionStep

Parts == /\ ServingHasCaller /\ OpenIsReady /\ StartingIsHeld /\ FutureSessionsFresh
         /\ StarterHoldsLock /\ NoOrphanSession /\ StartIsWatched

\* Each action of a caller keeps the parts of SessionInv beside the types.
LEMMA CallerParts ==
  ASSUME SessionInv, NEW c \in Callers, CallerStep(c) \/ Call(c)
  PROVE  Parts'
<1> USE WorkerAssumption
<1> USE DEF callerVars, lockVars, sessionVars, Release
<1>t. /\ pc \in [Callers -> PcValues] /\ target \in [Callers -> Sessions \cup {NoSession}]
      /\ session \in [Sessions -> Live \cup {"none", "done"}]
      /\ ready \in [Sessions -> {"pending", "ok", "failed", "cancelled"}]
      /\ task \in Sessions \cup {NoSession}
  BY DEF SessionInv, TypeOK, PcValues
<1>s. /\ ServingHasCaller /\ OpenIsReady /\ StartingIsHeld /\ FutureSessionsFresh
      /\ StarterHoldsLock /\ NoOrphanSession /\ StartIsWatched
  BY DEF SessionInv
<1>1. CASE Call(c)
  BY <1>1, <1>t, <1>s DEF Call, Parts, ServingHasCaller, OpenIsReady, StartingIsHeld, FutureSessionsFresh,
     StarterHoldsLock, NoOrphanSession, StartIsWatched
<1>2. CASE Acquire(c)
  BY <1>2, <1>t, <1>s DEF Acquire, AtLock, Parts, ServingHasCaller, OpenIsReady, StartingIsHeld, FutureSessionsFresh,
     StarterHoldsLock, NoOrphanSession, StartIsWatched
<1>3. CASE Enqueue(c)
  BY <1>3, <1>t, <1>s DEF Enqueue, AtLock, Parts, ServingHasCaller, OpenIsReady, StartingIsHeld, FutureSessionsFresh,
     StarterHoldsLock, NoOrphanSession, StartIsWatched
<1>4. CASE EnsureAlive(c)
  BY <1>4, <1>t, <1>s DEF EnsureAlive, InEnsure, Alive, Parts, ServingHasCaller, OpenIsReady, StartingIsHeld, FutureSessionsFresh,
     StarterHoldsLock, NoOrphanSession, StartIsWatched
<1>5. CASE EnsurePoisoned(c)
  BY <1>5, <1>t, <1>s DEF EnsurePoisoned, InEnsure, Alive, Parts, ServingHasCaller, OpenIsReady, StartingIsHeld, FutureSessionsFresh,
     StarterHoldsLock, NoOrphanSession, StartIsWatched
<1>6. CASE EnsureStart(c)
  <2> DEFINE n == started + 1
  <2>1. /\ lock = c /\ pc[c] = "ensure" /\ ~(Alive /\ ready[task] \in {"ok", "cancelled"})
        /\ started' = n /\ task' = n /\ started < MaxSessions
        /\ session' = [session EXCEPT ![n] = "starting"]
        /\ target' = [target EXCEPT ![c] = n]
        /\ pc' = [pc EXCEPT ![c] = "ready"]
        /\ UNCHANGED <<lock, ready, serving, killed>>
    BY <1>6 DEF EnsureStart, InEnsure
  <2>2. started \in Nat /\ n \in Sessions
    BY <2>1 DEF SessionInv, TypeOK, Sessions
  <2>3. session[n] = "none" /\ ready[n] = "pending" /\ n \notin killed'
    <3>1. n > started  BY <2>2
    <3>2. QED  BY <3>1, <2>1, <2>2, <1>s DEF FutureSessionsFresh
  \* The lock is free of starters and the old session, if open, is being closed.
  <2>4. ASSUME NEW g \in Sessions, session[g] \in {"starting", "idle", "serving"}
        PROVE  g \in killed
    <3>1. SUFFICES ASSUME g \notin killed PROVE FALSE  OBVIOUS
    <3>2. g = task  BY <2>4, <3>1, <1>s DEF NoOrphanSession
    <3>3. task # NoSession  BY <3>2 DEF Sessions, NoSession
    <3>4. Alive  BY <2>4, <3>2, <3>3 DEF Alive, Live
    <3>5. ready[g] \notin {"ok", "cancelled"}  BY <2>1, <3>2, <3>4
    <3>6. CASE session[g] \in {"idle", "serving"}  BY <3>5, <3>6, <1>s DEF OpenIsReady
    <3>7. CASE session[g] = "starting"
      <4>1. PICK c2 \in Callers : lock = c2 /\ pc[c2] = "ready"
        BY <3>5, <3>7, <1>s DEF StartingIsHeld
      <4>2. QED  BY <4>1, <2>1
    <3>8. QED  BY <2>4, <3>6, <3>7
  <2> HIDE DEF n
  <2>5. ServingHasCaller' /\ OpenIsReady'
    BY <2>1, <1>t, <1>s DEF ServingHasCaller, OpenIsReady
  <2>6. StartingIsHeld'
    BY <2>1, <2>2, <2>3, <1>t, <1>s DEF StartingIsHeld
  <2>7. FutureSessionsFresh'
    BY <2>1, <2>2, <1>t, <1>s DEF FutureSessionsFresh, Sessions, n
  <2>8. StarterHoldsLock'
    BY <2>1, <2>2, <1>t, <1>s DEF StarterHoldsLock
  <2>9. NoOrphanSession'
    BY <2>1, <2>2, <2>4, <1>t DEF NoOrphanSession
  <2>10. StartIsWatched'
    <3>1. SUFFICES ASSUME NEW d \in Callers, pc'[d] = "ready", ready'[target'[d]] = "pending"
                   PROVE  /\ lock' = d
                          /\ session'[target'[d]] \in {"starting", "failing"}
                          /\ target'[d] \notin killed'
      BY DEF StartIsWatched
    <3>2. CASE d = c  BY <3>1, <3>2, <2>1, <2>2, <2>3, <1>t
    <3>3. CASE d # c
      <4>1. lock = d  BY <3>1, <3>3, <2>1, <1>t, <1>s DEF StarterHoldsLock
      <4>2. QED  BY <4>1, <3>3, <2>1
    <3>4. QED  BY <3>2, <3>3
  <2>11. QED  BY <2>5, <2>6, <2>7, <2>8, <2>9, <2>10 DEF Parts
<1>7. CASE AfterReady(c)
  BY <1>7, <1>t, <1>s DEF AfterReady, ReadyEnd, Parts, ServingHasCaller, OpenIsReady, StartingIsHeld, FutureSessionsFresh,
     StarterHoldsLock, NoOrphanSession, StartIsWatched
<1>8. CASE ToolsReturn(c)
  BY <1>8, <1>t, <1>s DEF ToolsReturn, Parts, ServingHasCaller, OpenIsReady, StartingIsHeld, FutureSessionsFresh,
     StarterHoldsLock, NoOrphanSession, StartIsWatched
<1>9. CASE PutRequest(c)
  BY <1>9, <1>t, <1>s DEF PutRequest, Parts, ServingHasCaller, OpenIsReady, StartingIsHeld, FutureSessionsFresh,
     StarterHoldsLock, NoOrphanSession, StartIsWatched
<1>10. CASE AfterWait(c)
  BY <1>10, <1>t, <1>s DEF AfterWait, Parts, ServingHasCaller, OpenIsReady, StartingIsHeld, FutureSessionsFresh,
     StarterHoldsLock, NoOrphanSession, StartIsWatched
<1>11. CASE Aclose(c)
  BY <1>11, <1>t, <1>s DEF Aclose, Alive, Live, Parts, ServingHasCaller, OpenIsReady, StartingIsHeld, FutureSessionsFresh,
     StarterHoldsLock, NoOrphanSession, StartIsWatched
<1>12. CASE AfterJoin(c)
  BY <1>12, <1>t, <1>s DEF AfterJoin, Parts, ServingHasCaller, OpenIsReady, StartingIsHeld, FutureSessionsFresh,
     StarterHoldsLock, NoOrphanSession, StartIsWatched
<1>13. CASE Retry(c)
  BY <1>13, <1>t, <1>s DEF Retry, Parts, ServingHasCaller, OpenIsReady, StartingIsHeld, FutureSessionsFresh,
     StarterHoldsLock, NoOrphanSession, StartIsWatched
<1>20. QED
  BY <1>1, <1>2, <1>3, <1>4, <1>5, <1>6, <1>7, <1>8, <1>9, <1>10, <1>11, <1>12, <1>13
  DEF CallerStep

\* Cancelling a caller keeps the parts of SessionInv beside the types: it cancels a
\* pending ready future, which StartingIsHeld and StartIsWatched allow.
LEMMA CancelParts ==
  ASSUME SessionInv, NEW c \in Callers, Cancel(c)
  PROVE  Parts'
<1>t. /\ pc \in [Callers -> PcValues] /\ target \in [Callers -> Sessions \cup {NoSession}]
      /\ session \in [Sessions -> Live \cup {"none", "done"}]
      /\ ready \in [Sessions -> {"pending", "ok", "failed", "cancelled"}]
  BY DEF SessionInv, TypeOK, PcValues
<1>s. /\ ServingHasCaller /\ OpenIsReady /\ StartingIsHeld /\ FutureSessionsFresh
      /\ StarterHoldsLock /\ NoOrphanSession /\ StartIsWatched
  BY DEF SessionInv
<1>1. CASE CancelAtLock(c)
  BY <1>1, <1>t, <1>s DEF CancelAtLock, sessionVars, Parts, ServingHasCaller, OpenIsReady, StartingIsHeld, FutureSessionsFresh,
     StarterHoldsLock, NoOrphanSession, StartIsWatched
<1>2. CASE CancelAtAwait(c)
  BY <1>2, <1>t, <1>s DEF CancelAtAwait, lockVars, Parts, ServingHasCaller, OpenIsReady, StartingIsHeld, FutureSessionsFresh,
     StarterHoldsLock, NoOrphanSession, StartIsWatched
<1>3. QED  BY <1>1, <1>2 DEF Cancel

\* Each step of a session keeps the parts of SessionInv beside the types.
LEMMA SessionParts ==
  ASSUME SessionInv, NEW g \in Sessions, SessionStep(g) \/ Io(g) \/ DieIdle(g)
  PROVE  Parts'
<1> USE WorkerAssumption
<1> USE DEF callerVars, lockVars, sessionVars, Awake
<1>t. /\ pc \in [Callers -> PcValues] /\ target \in [Callers -> Sessions \cup {NoSession}]
      /\ session \in [Sessions -> Live \cup {"none", "done"}]
      /\ ready \in [Sessions -> {"pending", "ok", "failed", "cancelled"}]
      /\ serving \in [Sessions -> Callers \cup {NoOne}]
      /\ requests # <<>> => Head(requests) \in Callers
  BY HeadTailProperties DEF SessionInv, TypeOK, PcValues
<1>s. /\ ServingHasCaller /\ OpenIsReady /\ StartingIsHeld /\ FutureSessionsFresh
      /\ StarterHoldsLock /\ NoOrphanSession /\ StartIsWatched
  BY DEF SessionInv
<1>1. CASE Io(g)
  BY <1>1, <1>t, <1>s DEF Io, Live, Parts, ServingHasCaller, OpenIsReady, StartingIsHeld, FutureSessionsFresh,
     StarterHoldsLock, NoOrphanSession, StartIsWatched
<1>2. CASE DieIdle(g)
  BY <1>2, <1>t, <1>s DEF DieIdle, Live, Parts, ServingHasCaller, OpenIsReady, StartingIsHeld, FutureSessionsFresh,
     StarterHoldsLock, NoOrphanSession, StartIsWatched
<1>3. CASE StartOk(g)
  BY <1>3, <1>t, <1>s DEF StartOk, Live, Parts, ServingHasCaller, OpenIsReady, StartingIsHeld, FutureSessionsFresh,
     StarterHoldsLock, NoOrphanSession, StartIsWatched
<1>4. CASE StartFail(g)
  BY <1>4, <1>t, <1>s DEF StartFail, Live, Parts, ServingHasCaller, OpenIsReady, StartingIsHeld, FutureSessionsFresh,
     StarterHoldsLock, NoOrphanSession, StartIsWatched
<1>5. CASE SkipCancelled(g)
  BY <1>5, <1>t, <1>s DEF SkipCancelled, Live, Parts, ServingHasCaller, OpenIsReady, StartingIsHeld, FutureSessionsFresh,
     StarterHoldsLock, NoOrphanSession, StartIsWatched
<1>6. CASE RefuseUnlisted(g)
  BY <1>6, <1>t, <1>s DEF RefuseUnlisted, Live, Parts, ServingHasCaller, OpenIsReady, StartingIsHeld, FutureSessionsFresh,
     StarterHoldsLock, NoOrphanSession, StartIsWatched
<1>7. CASE Execute(g)
  BY <1>7, <1>t, <1>s DEF Execute, Live, Parts, ServingHasCaller, OpenIsReady, StartingIsHeld, FutureSessionsFresh,
     StarterHoldsLock, NoOrphanSession, StartIsWatched
<1>8. CASE NothingToTake(g)
  BY <1>8, <1>t, <1>s DEF NothingToTake, Live, Parts, ServingHasCaller, OpenIsReady, StartingIsHeld, FutureSessionsFresh,
     StarterHoldsLock, NoOrphanSession, StartIsWatched
<1>9. CASE Answer(g)
  BY <1>9, <1>t, <1>s DEF Answer, Live, Parts, ServingHasCaller, OpenIsReady, StartingIsHeld, FutureSessionsFresh,
     StarterHoldsLock, NoOrphanSession, StartIsWatched
<1>10. CASE Break(g)
  BY <1>10, <1>t, <1>s DEF Break, Live, Parts, ServingHasCaller, OpenIsReady, StartingIsHeld, FutureSessionsFresh,
     StarterHoldsLock, NoOrphanSession, StartIsWatched
<1>11. CASE Cancelled(g)
  BY <1>11, <1>t, <1>s DEF Cancelled, Live, Parts, ServingHasCaller, OpenIsReady, StartingIsHeld, FutureSessionsFresh,
     StarterHoldsLock, NoOrphanSession, StartIsWatched
<1>12. CASE TornDown(g)
  BY <1>12, <1>t, <1>s DEF TornDown, Live, Parts, ServingHasCaller, OpenIsReady, StartingIsHeld, FutureSessionsFresh,
     StarterHoldsLock, NoOrphanSession, StartIsWatched
<1>13. CASE Drain(g)
  BY <1>13, <1>t, <1>s DEF Drain, Live, Parts, ServingHasCaller, OpenIsReady, StartingIsHeld, FutureSessionsFresh,
     StarterHoldsLock, NoOrphanSession, StartIsWatched
<1>14. CASE End(g)
  BY <1>14, <1>t, <1>s DEF End, Live, Parts, ServingHasCaller, OpenIsReady, StartingIsHeld, FutureSessionsFresh,
     StarterHoldsLock, NoOrphanSession, StartIsWatched
<1>20. QED
  BY <1>1, <1>2, <1>3, <1>4, <1>5, <1>6, <1>7, <1>8, <1>9, <1>10, <1>11, <1>12, <1>13, <1>14
  DEF SessionStep

-----------------------------------------------------------------------------
\* The inductive invariant: initially true, kept by every step.
LEMMA InitSessionInv == Init => SessionInv
<1> SUFFICES ASSUME Init PROVE SessionInv  OBVIOUS
<1> USE WorkerAssumption DEF Init
<1>1. TypeOK
  <2>1. \A c \in Callers : FirstAttempt(c) \in 0..2  BY DEF FirstAttempt
  <2>2. QED  BY <2>1 DEF TypeOK, Sessions, NoSession
<1>2. Parts
  BY DEF Parts, ServingHasCaller, OpenIsReady, StartingIsHeld, FutureSessionsFresh,
     StarterHoldsLock, NoOrphanSession, StartIsWatched
<1>3. QED  BY <1>1, <1>2 DEF SessionInv, Parts

\* Every step keeps the inductive invariant.
LEMMA NextSessionInv == SessionInv /\ [Next]_vars => SessionInv'
<1> SUFFICES ASSUME SessionInv, [Next]_vars PROVE TypeOK' /\ Parts'
  BY DEF SessionInv, Parts
<1>0. TypeOK /\ ServingHasCaller  BY DEF SessionInv
<1>1. ASSUME NEW c \in Callers, CallerStep(c) \/ Call(c) PROVE TypeOK' /\ Parts'
  BY <1>0, <1>1, CallerTypes, CallerParts
<1>2. ASSUME NEW c \in Callers, Cancel(c) PROVE TypeOK' /\ Parts'
  BY <1>0, <1>2, CancelTypes, CancelParts
<1>3. ASSUME NEW g \in Sessions, SessionStep(g) \/ Io(g) \/ DieIdle(g)
      PROVE  TypeOK' /\ Parts'
  BY <1>0, <1>3, SessionTypes, SessionParts
<1>4. CASE UNCHANGED vars
  BY <1>4 DEF vars, callerVars, lockVars, sessionVars, SessionInv, TypeOK, Parts,
     ServingHasCaller, OpenIsReady, StartingIsHeld, FutureSessionsFresh,
     StarterHoldsLock, NoOrphanSession, StartIsWatched
<1>5. QED  BY <1>1, <1>2, <1>3, <1>4 DEF Next, LoopStep, Finished

\* In every behaviour of the worker, with any callers, failures and cancellations,
\* the parts of the inductive invariant hold (mcp_worker.py:35-148).
THEOREM SessionSafety == Spec => []SessionInv
<1>1. QED  BY InitSessionInv, NextSessionInv, PTL DEF Spec

\* Every variable keeps its type.
THEOREM TypeCorrect == Spec => []TypeOK
<1>1. SessionInv => TypeOK  BY DEF SessionInv
<1>2. QED  BY <1>1, SessionSafety, PTL

\* No restart leaves a second open session behind (mcp_worker.py:107-116, 140-148).
THEOREM NoOrphans == Spec => []NoOrphanSession
<1>1. SessionInv => NoOrphanSession  BY DEF SessionInv
<1>2. QED  BY <1>1, SessionSafety, PTL

\* Whoever holds the lock for a session's start waits for a session that will
\* report, and nobody else can close it meanwhile (mcp_worker.py:107-116).
THEOREM StartsAreWatched == Spec => []StartIsWatched
<1>1. SessionInv => StartIsWatched  BY DEF SessionInv
<1>2. QED  BY <1>1, SessionSafety, PTL

-----------------------------------------------------------------------------
(* The requests: their part of the inductive invariant, beside SessionInv. *)

Queued(c) == \E i \in DOMAIN requests : requests[i] = c
InService(c) == \E g \in Sessions : serving[g] = c

\* A session executes a request in that state only.
OnlyServing == \A g \in Sessions : serving[g] # NoOne => session[g] = "serving"

\* No request is queued twice, in two services, or in both places.
QueuedOnce == \A i, j \in DOMAIN requests : requests[i] = requests[j] => i = j
ServedOnce == \A g, h \in Sessions : serving[g] = serving[h] /\ serving[g] # NoOne => g = h
HeldOnce == \A c \in Callers : ~(Queued(c) /\ InService(c))

\* Who has a request there awaits its future, or was cancelled and had it cancelled.
HeldAwaits ==
  \A c \in Callers : Queued(c) \/ InService(c) =>
    \/ pc[c] = "wait" /\ future[c] = "pending"
    \/ pc[c] \in {"wait", "cancelled"} /\ future[c] = "cancelled"

AwaitedIsHeld ==
  \A c \in Callers : pc[c] = "wait" /\ future[c] = "pending" => Queued(c) \/ InService(c)

\* A future is pending while it is awaited; elsewhere it is that of a failed attempt.
FutureIsAwaited ==
  \A c \in Callers :
    /\ future[c] = "pending" => pc[c] = "wait"
    /\ pc[c] \in {"start", "ensure", "ready", "have", "close", "join", "closed"} =>
         future[c] \in {"none", "exception"}

\* An attempt sends a statement once.
Before(c) == pc[c] \in {"start", "ensure", "ready", "have"}
RunsOnce ==
  \A c \in Callers :
    /\ executed[c] <= attempt[c]
    /\ Before(c) => executed[c] = 0 \/ executed[c] < attempt[c]
    /\ Queued(c) => executed[c] < attempt[c]

RequestInv ==
  /\ OnlyServing /\ QueuedOnce /\ ServedOnce /\ HeldOnce
  /\ HeldAwaits /\ AwaitedIsHeld /\ FutureIsAwaited /\ RunsOnce

-----------------------------------------------------------------------------
(* The queue. *)

\* Taking the oldest request leaves the others.
LEMMA TakeOldest ==
  ASSUME TypeOK, QueuedOnce, requests # <<>>, requests' = Tail(requests)
  PROVE  /\ Head(requests) \in Callers /\ Queued(Head(requests))
         /\ \A d : Queued(d)' <=> Queued(d) /\ d # Head(requests)
         /\ QueuedOnce'
  <1> DEFINE n == Len(requests)
  <1>1. /\ requests \in Seq(Callers) /\ n \in Nat /\ n >= 1
        /\ DOMAIN requests = 1..n /\ Head(requests) = requests[1] /\ Head(requests) \in Callers
    BY DEF TypeOK
  <1>2. /\ DOMAIN requests' = 1..(n - 1)
        /\ \A i \in 1..(n - 1) : requests'[i] = requests[i + 1]
    BY <1>1
  <1> HIDE DEF n
  <1>3. Queued(Head(requests))
    BY <1>1 DEF Queued
  <1>4. ASSUME NEW d PROVE Queued(d)' <=> Queued(d) /\ d # Head(requests)
    <2>1. ASSUME Queued(d)' PROVE Queued(d) /\ d # Head(requests)
      <3>1. PICK i \in 1..(n - 1) : requests[i + 1] = d
        BY <1>2, <2>1 DEF Queued
      <3>2. i + 1 \in 1..n /\ 1 \in 1..n /\ i + 1 # 1
        BY <1>1
      <3> QED
        BY <1>1, <3>1, <3>2 DEF Queued, QueuedOnce
    <2>2. ASSUME Queued(d), d # Head(requests) PROVE Queued(d)'
      <3>1. PICK i \in 1..n : requests[i] = d
        BY <1>1, <2>2 DEF Queued
      <3>2. i # 1
        BY <1>1, <2>2, <3>1
      <3>3. i - 1 \in 1..(n - 1) /\ (i - 1) + 1 = i
        BY <1>1, <3>2
      <3> QED
        BY <1>2, <3>1, <3>3 DEF Queued
    <2> QED
      BY <2>1, <2>2
  <1>5. QueuedOnce'
    <2> SUFFICES ASSUME NEW i \in 1..(n - 1), NEW j \in 1..(n - 1), requests'[i] = requests'[j]
                 PROVE  i = j
      BY <1>2 DEF QueuedOnce
    <2>1. i + 1 \in 1..n /\ j + 1 \in 1..n /\ requests[i + 1] = requests[j + 1]
      BY <1>1, <1>2
    <2>2. i + 1 = j + 1
      BY <1>1, <2>1 DEF QueuedOnce
    <2> QED
      BY <2>2
  <1> QED
    BY <1>1, <1>3, <1>4, <1>5

\* Putting a request that is not queued adds it to the others.
LEMMA PutLast ==
  ASSUME TypeOK, QueuedOnce, NEW c \in Callers, ~Queued(c), requests' = Append(requests, c)
  PROVE  QueuedOnce' /\ \A d : Queued(d)' <=> Queued(d) \/ d = c
  <1> DEFINE n == Len(requests)
  <1>1. /\ requests \in Seq(Callers) /\ n \in Nat /\ DOMAIN requests = 1..n
    BY DEF TypeOK
  <1>2. /\ DOMAIN requests' = 1..(n + 1) /\ requests'[n + 1] = c
        /\ \A i \in 1..n : requests'[i] = requests[i]
    BY <1>1, AppendProperties
  <1> HIDE DEF n
  <1>3. \A i \in 1..(n + 1) : i \in 1..n \/ i = n + 1
    BY <1>1
  <1>4. n + 1 \in 1..(n + 1) /\ 1..n \subseteq 1..(n + 1)
    BY <1>1
  <1>5. ASSUME NEW d PROVE Queued(d)' <=> Queued(d) \/ d = c
    BY <1>1, <1>2, <1>3, <1>4 DEF Queued
  <1>6. QueuedOnce'
    BY <1>1, <1>2, <1>3 DEF QueuedOnce, Queued
  <1> QED
    BY <1>5, <1>6

-----------------------------------------------------------------------------
(* Callers. *)

\* A caller that awaits no request has none, and moves without disturbing the others'.
LEMMA CallerMoves ==
  ASSUME RequestInv, NEW c \in Callers,
         UNCHANGED <<requests, serving, future, executed>>,
         \A d \in Callers : d # c => pc'[d] = pc[d] /\ attempt'[d] = attempt[d],
         pc[c] \notin {"wait", "ok", "error", "cancelled"}, pc'[c] # "wait",
         pc[c] \in PcValues,
         executed[c] <= attempt'[c],
         Before(c)' => executed[c] = 0 \/ executed[c] < attempt'[c],
         OnlyServing'
  PROVE  RequestInv'
  <1>1. \A d : (Queued(d)' <=> Queued(d)) /\ (InService(d)' <=> InService(d))
    BY DEF Queued, InService
  <1>2. ~Queued(c) /\ ~InService(c)
    BY DEF RequestInv, HeldAwaits
  <1>3. QueuedOnce' /\ ServedOnce' /\ HeldOnce'
    BY <1>1 DEF RequestInv, QueuedOnce, ServedOnce, HeldOnce
  <1>4. HeldAwaits' /\ AwaitedIsHeld'
    BY <1>1, <1>2 DEF RequestInv, HeldAwaits, AwaitedIsHeld
  <1>5. FutureIsAwaited'
    <2>1. future[c] \in {"none", "exception"}
      BY DEF RequestInv, FutureIsAwaited, PcValues, CallEnds
    <2> QED
      BY <2>1 DEF RequestInv, FutureIsAwaited
  <1>6. RunsOnce'
    <2>1. \A d \in Callers : d # c => (Before(d)' <=> Before(d))
      BY DEF Before
    <2> QED
      BY <1>1, <1>2, <2>1 DEF RequestInv, RunsOnce
  <1> QED
    BY <1>3, <1>4, <1>5, <1>6 DEF RequestInv

\* Each action of a caller keeps the invariant.
LEMMA CallerRequests ==
  ASSUME SessionInv, RequestInv, NEW c \in Callers, CallerStep(c) \/ Call(c)
  PROVE  RequestInv'
  <1>0. /\ pc \in [Callers -> PcValues] /\ attempt \in [Callers -> 0..2]
        /\ executed \in [Callers -> Nat] /\ TypeOK /\ c # NoOne
        /\ future \in [Callers -> {"none", "pending", "result", "exception", "cancelled"}]
    BY WorkerAssumption DEF SessionInv, TypeOK, PcValues
  <1>1. /\ OnlyServing /\ executed[c] <= attempt[c]
        /\ Before(c) => executed[c] = 0 \/ executed[c] < attempt[c]
    BY DEF RequestInv, RunsOnce
  <1>2. CASE Call(c)
    BY <1>0, <1>1, <1>2, CallerMoves DEF Call, sessionVars, OnlyServing, Before
  <1>3. CASE Acquire(c) \/ Enqueue(c)
    BY <1>0, <1>1, <1>3, CallerMoves DEF Acquire, Enqueue, AtLock, callerVars, sessionVars, OnlyServing, Before
  <1>4. CASE EnsureAlive(c) \/ EnsurePoisoned(c)
    BY <1>0, <1>1, <1>4, CallerMoves
       DEF EnsureAlive, EnsurePoisoned, InEnsure, sessionVars, OnlyServing, Before
  <1>5. CASE EnsureStart(c)
    <2>1. started \in Nat /\ started + 1 \in Sessions /\ session[started + 1] = "none"
      <3>1. started \in Nat /\ started < MaxSessions /\ MaxSessions \in Nat
        BY <1>0, <1>5, WorkerAssumption DEF EnsureStart, TypeOK
      <3>2. started + 1 \in Sessions /\ started + 1 > started
        BY <3>1 DEF Sessions
      <3> QED
        BY <3>1, <3>2 DEF SessionInv, FutureSessionsFresh
    <2>2. serving[started + 1] = NoOne
      BY <1>1, <2>1 DEF OnlyServing
    <2>3. OnlyServing'
      BY <1>1, <1>5, <2>2 DEF EnsureStart, OnlyServing, SessionInv, TypeOK
    <2> QED
      BY <1>0, <1>1, <1>5, <2>3, CallerMoves DEF EnsureStart, InEnsure, Before
  <1>6. CASE AfterReady(c)
    <2>1. ReadyEnd(c) \in {"have", "error", "cancelled"}
      BY DEF ReadyEnd
    <2> QED
      BY <1>0, <1>1, <1>6, <2>1, CallerMoves DEF AfterReady, sessionVars, OnlyServing, Before
  <1>7. CASE ToolsReturn(c)
    <2>1. /\ pc[c] = "have" /\ attempt[c] = 0 /\ executed[c] = 0
          /\ UNCHANGED <<requests, serving, future, executed, session>>
      BY <1>0, <1>1, <1>7 DEF ToolsReturn, sessionVars
    <2>2. \/ pc' = [pc EXCEPT ![c] = "ok"] /\ attempt' = attempt
          \/ pc' = [pc EXCEPT ![c] = "ensure"] /\ attempt' = [attempt EXCEPT ![c] = 1]
      BY <1>7 DEF ToolsReturn
    <2>3. OnlyServing'
      BY <1>1, <2>1 DEF OnlyServing
    <2>4. /\ \A d \in Callers : d # c => pc'[d] = pc[d] /\ attempt'[d] = attempt[d]
          /\ pc'[c] \in {"ok", "ensure"} /\ attempt'[c] \in Nat
      BY <1>0, <2>1, <2>2
    <2>5. pc'[c] # "wait" /\ pc[c] \in PcValues /\ executed[c] <= attempt'[c]
      BY <1>0, <2>1, <2>4
    <2> QED
      BY <2>1, <2>3, <2>4, <2>5, CallerMoves
  <1>8. CASE PutRequest(c)
    <2>1. /\ pc[c] = "have" /\ requests' = Append(requests, c) /\ attempt[c] > 0
          /\ future' = [future EXCEPT ![c] = "pending"] /\ pc' = [pc EXCEPT ![c] = "wait"]
          /\ UNCHANGED <<attempt, session, serving, executed>>
      BY <1>8 DEF PutRequest, sessionVars
    <2>2. ~Queued(c) /\ ~InService(c)
      BY <2>1 DEF RequestInv, HeldAwaits
    <2>3. QueuedOnce' /\ \A d : Queued(d)' <=> Queued(d) \/ d = c
      BY <1>0, <2>1, <2>2, PutLast DEF RequestInv
    <2>4. \A d : InService(d)' <=> InService(d)
      BY <2>1 DEF InService
    <2>5. OnlyServing' /\ ServedOnce' /\ HeldOnce'
      BY <2>1, <2>2, <2>3, <2>4 DEF RequestInv, OnlyServing, ServedOnce, HeldOnce
    <2>6. HeldAwaits' /\ AwaitedIsHeld' /\ FutureIsAwaited'
      BY <1>0, <2>1, <2>2, <2>3, <2>4 DEF RequestInv, HeldAwaits, AwaitedIsHeld, FutureIsAwaited
    <2>7. RunsOnce'
      <3>1. \A d \in Callers : Before(d)' => Before(d)
        BY <1>0, <2>1 DEF Before
      <3>2. executed[c] < attempt[c]
        BY <1>0, <1>1, <2>1 DEF Before
      <3> QED
        BY <2>1, <2>3, <3>1, <3>2 DEF RequestInv, RunsOnce
    <2> QED
      BY <2>3, <2>5, <2>6, <2>7 DEF RequestInv
  <1>9. CASE AfterWait(c)
    <2>1. /\ pc[c] = "wait" /\ future[c] # "pending"
          /\ UNCHANGED <<attempt, future, requests, session, serving, executed>>
          /\ \A d \in Callers : d # c => pc'[d] = pc[d]
          /\ \/ pc'[c] = "cancelled"
             \/ pc'[c] \in {"ok", "close"} /\ future[c] # "cancelled"
          /\ pc'[c] = "close" => future[c] # "result"
      BY <1>0, <1>9 DEF AfterWait, sessionVars
    <2>2. \A d : (Queued(d)' <=> Queued(d)) /\ (InService(d)' <=> InService(d))
      BY <2>1 DEF Queued, InService
    <2>3. OnlyServing' /\ QueuedOnce' /\ ServedOnce' /\ HeldOnce'
      BY <2>1, <2>2 DEF RequestInv, OnlyServing, QueuedOnce, ServedOnce, HeldOnce
    <2>4. HeldAwaits' /\ AwaitedIsHeld'
      BY <2>1, <2>2 DEF RequestInv, HeldAwaits, AwaitedIsHeld
    <2>5. FutureIsAwaited'
      BY <1>0, <2>1 DEF RequestInv, FutureIsAwaited
    <2>6. RunsOnce'
      <3>1. \A d \in Callers : Before(d)' => Before(d)
        BY <2>1 DEF Before
      <3> QED
        BY <2>1, <2>2, <3>1 DEF RequestInv, RunsOnce
    <2> QED
      BY <2>3, <2>4, <2>5, <2>6 DEF RequestInv
  <1>10. CASE Aclose(c)
    <2>1. /\ pc[c] = "close" /\ pc'[c] \in {"join", "closed"}
          /\ \A d \in Callers : d # c => pc'[d] = pc[d]
          /\ UNCHANGED <<attempt, future, requests, session, serving, executed>>
      BY <1>0, <1>10 DEF Aclose
    <2> QED
      BY <1>0, <1>1, <2>1, CallerMoves DEF OnlyServing, Before
  <1>11. CASE AfterJoin(c)
    BY <1>0, <1>1, <1>11, CallerMoves DEF AfterJoin, sessionVars, OnlyServing, Before
  <1>12. CASE Retry(c)
    <2>1. /\ pc[c] = "closed" /\ UNCHANGED <<requests, serving, future, executed, session>>
          /\ \A d \in Callers : d # c => pc'[d] = pc[d] /\ attempt'[d] = attempt[d]
          /\ \/ pc'[c] = "error" /\ attempt'[c] = attempt[c]
             \/ pc'[c] = "ensure" /\ attempt'[c] = 2 /\ attempt[c] # 2
      BY <1>0, <1>12 DEF Retry, sessionVars
    <2>2. executed[c] <= attempt'[c] /\ (pc'[c] = "ensure" => executed[c] < attempt'[c])
      BY <1>0, <1>1, <2>1
    <2>3. OnlyServing'
      BY <1>1, <2>1 DEF OnlyServing
    <2> QED
      BY <1>0, <2>1, <2>2, <2>3, CallerMoves DEF Before
  <1> QED
    BY <1>2, <1>3, <1>4, <1>5, <1>6, <1>7, <1>8, <1>9, <1>10, <1>11, <1>12 DEF CallerStep

\* Cancelling a caller keeps the invariant: a request it awaits stays where it is, with a
\* cancelled future.
LEMMA CancelRequests ==
  ASSUME SessionInv, RequestInv, NEW c \in Callers, Cancel(c)
  PROVE  RequestInv'
  <1>0. /\ pc \in [Callers -> PcValues] /\ attempt \in [Callers -> 0..2]
        /\ future \in [Callers -> {"none", "pending", "result", "exception", "cancelled"}]
    BY DEF SessionInv, TypeOK, PcValues
  <1>1. CASE CancelAtLock(c)
    <2>1. /\ pc[c] \in {"ensure", "close"} /\ pc' = [pc EXCEPT ![c] = "cancelled"]
          /\ UNCHANGED <<requests, serving, future, executed, attempt, session>>
      BY <1>1 DEF CancelAtLock, sessionVars
    <2>2. OnlyServing'
      BY <2>1 DEF RequestInv, OnlyServing
    <2>3. executed[c] <= attempt'[c]
      BY <2>1 DEF RequestInv, RunsOnce
    <2> QED
      BY <1>0, <2>1, <2>2, <2>3, CallerMoves DEF Before
  <1>2. CASE CancelAtAwait(c)
    <2>1. /\ UNCHANGED <<pc, attempt, requests, serving, executed, session>>
          /\ \A d \in Callers :
               \/ future'[d] = future[d]
               \/ pc[d] = "wait" /\ future[d] = "pending" /\ future'[d] = "cancelled"
      <3>1. CASE pc[c] = "wait" /\ future[c] = "pending"
        BY <1>0, <1>2, <3>1 DEF CancelAtAwait, lockVars
      <3>2. CASE ~(pc[c] = "wait" /\ future[c] = "pending")
        <4>1. future' = future
          BY <1>2, <3>2 DEF CancelAtAwait
        <4> QED
          BY <1>2, <4>1 DEF CancelAtAwait, lockVars
      <3> QED
        BY <3>1, <3>2
    <2>2. \A d : (Queued(d)' <=> Queued(d)) /\ (InService(d)' <=> InService(d))
      BY <2>1 DEF Queued, InService
    <2>3. OnlyServing' /\ QueuedOnce' /\ ServedOnce' /\ HeldOnce'
      BY <2>1, <2>2 DEF RequestInv, OnlyServing, QueuedOnce, ServedOnce, HeldOnce
    <2>4. HeldAwaits' /\ AwaitedIsHeld' /\ FutureIsAwaited'
      BY <2>1, <2>2 DEF RequestInv, HeldAwaits, AwaitedIsHeld, FutureIsAwaited
    <2>5. RunsOnce'
      BY <2>1, <2>2 DEF RequestInv, RunsOnce, Before
    <2> QED
      BY <2>3, <2>4, <2>5 DEF RequestInv
  <1> QED
    BY <1>1, <1>2 DEF Cancel

-----------------------------------------------------------------------------
(* Sessions. *)

\* A session that executes nothing moves without disturbing the requests.
LEMMA SessionMoves ==
  ASSUME RequestInv, UNCHANGED <<callerVars, requests, serving, executed>>, OnlyServing'
  PROVE  RequestInv'
  <1>1. UNCHANGED <<pc, attempt, future>>
    BY DEF callerVars
  <1>2. \A d : (Queued(d)' <=> Queued(d)) /\ (InService(d)' <=> InService(d))
    BY DEF Queued, InService
  <1>3. QueuedOnce' /\ ServedOnce' /\ HeldOnce'
    BY <1>2 DEF RequestInv, QueuedOnce, ServedOnce, HeldOnce
  <1>4. HeldAwaits' /\ AwaitedIsHeld' /\ FutureIsAwaited' /\ RunsOnce'
    BY <1>1, <1>2 DEF RequestInv, HeldAwaits, AwaitedIsHeld, FutureIsAwaited, RunsOnce, Before
  <1> QED
    BY <1>3, <1>4 DEF RequestInv

\* The oldest request is dropped once its future is done.
LEMMA OldestDone ==
  ASSUME TypeOK, RequestInv, requests # <<>>, requests' = Tail(requests),
         UNCHANGED <<pc, attempt, serving, executed>>, OnlyServing',
         \A d \in Callers : d # Head(requests) => future'[d] = future[d],
         \/ future'[Head(requests)] = future[Head(requests)] /\ future[Head(requests)] # "pending"
         \/ future[Head(requests)] = "pending" /\ future'[Head(requests)] = "exception"
  PROVE  RequestInv'
  <1> DEFINE h == Head(requests)
  <1>1. /\ h \in Callers /\ Queued(h) /\ QueuedOnce'
        /\ \A d : Queued(d)' <=> Queued(d) /\ d # h
    BY TakeOldest DEF RequestInv
  <1>2. \A d : InService(d)' <=> InService(d)
    BY DEF InService
  <1> HIDE DEF h
  <1>3. ServedOnce' /\ HeldOnce'
    BY <1>1, <1>2 DEF RequestInv, ServedOnce, HeldOnce
  <1>4. HeldAwaits' /\ AwaitedIsHeld' /\ FutureIsAwaited'
    BY <1>1, <1>2 DEF RequestInv, HeldAwaits, AwaitedIsHeld, HeldOnce, FutureIsAwaited, h
  <1>5. RunsOnce'
    BY <1>1 DEF RequestInv, RunsOnce, Before
  <1> QED
    BY <1>1, <1>3, <1>4, <1>5 DEF RequestInv

\* A session's execution ends, and its request's future is resolved unless it is done.
LEMMA ExecutionEnds ==
  ASSUME TypeOK, RequestInv, NEW g \in Sessions, serving[g] \in Callers,
         NEW value \in {"result", "exception", "cancelled"}, Resolve(g, value),
         serving' = [serving EXCEPT ![g] = NoOne], OnlyServing',
         UNCHANGED <<pc, attempt, requests, executed>>
  PROVE  RequestInv'
  <1> DEFINE c == serving[g]
  <1>0. /\ serving \in [Sessions -> Callers \cup {NoOne}] /\ NoOne \notin Callers
        /\ future \in [Callers -> {"none", "pending", "result", "exception", "cancelled"}]
    BY WorkerAssumption DEF TypeOK
  <1>1. /\ c \in Callers /\ InService(c) /\ ~Queued(c)
        /\ \/ pc[c] = "wait" /\ future[c] = "pending"
           \/ pc[c] \in {"wait", "cancelled"} /\ future[c] = "cancelled"
    BY DEF InService, RequestInv, HeldAwaits, HeldOnce
  <1>2. /\ \A d \in Callers : InService(d)' <=> InService(d) /\ d # c
        /\ \A d : Queued(d)' <=> Queued(d)
    BY <1>0, <1>1 DEF InService, Queued, RequestInv, ServedOnce
  <1>3. /\ \A d \in Callers : d # c => future'[d] = future[d]
        /\ future'[c] = IF future[c] = "pending" THEN value ELSE future[c]
    BY <1>0 DEF Resolve
  <1>4. QueuedOnce' /\ ServedOnce' /\ HeldOnce'
    BY <1>0, <1>2 DEF RequestInv, QueuedOnce, ServedOnce, HeldOnce
  <1> HIDE DEF c
  <1>5. HeldAwaits' /\ AwaitedIsHeld' /\ FutureIsAwaited'
    BY <1>1, <1>2, <1>3 DEF RequestInv, HeldAwaits, AwaitedIsHeld, FutureIsAwaited
  <1>6. RunsOnce'
    BY <1>2 DEF RequestInv, RunsOnce, Before
  <1> QED
    BY <1>4, <1>5, <1>6 DEF RequestInv

\* Each step of a session keeps the invariant.
LEMMA SessionRequests ==
  ASSUME SessionInv, RequestInv, NEW g \in Sessions, SessionStep(g) \/ Io(g) \/ DieIdle(g)
  PROVE  RequestInv'
  <1>0. /\ TypeOK /\ session \in [Sessions -> Live \cup {"none", "done"}]
        /\ serving \in [Sessions -> Callers \cup {NoOne}] /\ executed \in [Callers -> Nat]
        /\ future \in [Callers -> {"none", "pending", "result", "exception", "cancelled"}]
        /\ attempt \in [Callers -> 0..2]
        /\ NoOne \notin Callers /\ OnlyServing /\ ServingHasCaller
    BY WorkerAssumption DEF SessionInv, TypeOK, RequestInv
  <1>1. CASE Io(g) \/ NothingToTake(g)
    BY <1>0, <1>1, SessionMoves DEF Io, NothingToTake, sessionVars, OnlyServing
  <1>2. CASE StartOk(g) \/ StartFail(g) \/ DieIdle(g) \/ TornDown(g) \/ End(g)
    <2>1. /\ session[g] # "serving" /\ session' = [session EXCEPT ![g] = session'[g]]
          /\ UNCHANGED <<callerVars, requests, serving, executed>>
      BY <1>0, <1>2 DEF StartOk, StartFail, DieIdle, TornDown, End, Awake
    <2>2. OnlyServing'
      BY <1>0, <2>1 DEF OnlyServing
    <2> QED
      BY <2>1, <2>2, SessionMoves
  <1>3. CASE SkipCancelled(g)
    BY <1>0, <1>3, OldestDone DEF SkipCancelled, callerVars, sessionVars, OnlyServing
  <1>4. CASE RefuseUnlisted(g)
    <2>1. /\ session[g] = "idle" /\ requests # <<>> /\ requests' = Tail(requests)
          /\ future[Head(requests)] # "cancelled"
          /\ future' = [future EXCEPT ![Head(requests)] = "exception"]
          /\ session' = [session EXCEPT ![g] = "failing"]
          /\ UNCHANGED <<pc, attempt, serving, executed>>
      BY <1>4 DEF RefuseUnlisted, Awake
    <2>2. Head(requests) \in Callers /\ Queued(Head(requests))
      BY <1>0, <2>1, TakeOldest DEF RequestInv
    <2>3. future[Head(requests)] = "pending"
      BY <2>1, <2>2 DEF RequestInv, HeldAwaits
    <2>4. OnlyServing'
      BY <1>0, <2>1 DEF OnlyServing
    <2>5. /\ \A d \in Callers : d # Head(requests) => future'[d] = future[d]
          /\ future'[Head(requests)] = "exception"
      BY <1>0, <2>1, <2>2
    <2> QED
      BY <1>0, <2>1, <2>3, <2>4, <2>5, OldestDone
  <1>5. CASE Execute(g)
    <2> DEFINE c == Head(requests)
    <2>1. /\ session[g] = "idle" /\ requests # <<>> /\ requests' = Tail(requests)
          /\ serving' = [serving EXCEPT ![g] = c]
          /\ executed' = [executed EXCEPT ![c] = @ + 1]
          /\ session' = [session EXCEPT ![g] = "serving"]
          /\ UNCHANGED <<pc, attempt, future>>
      BY <1>5 DEF Execute, Awake, callerVars
    <2>2. /\ c \in Callers /\ Queued(c) /\ QueuedOnce'
          /\ \A d : Queued(d)' <=> Queued(d) /\ d # c
      BY <1>0, <2>1, TakeOldest DEF RequestInv
    <2>3. serving[g] = NoOne /\ ~InService(c)
      BY <1>0, <2>1, <2>2 DEF OnlyServing, RequestInv, HeldOnce
    <2> HIDE DEF c
    <2>4. \A d \in Callers : InService(d)' <=> InService(d) \/ d = c
      BY <1>0, <2>1, <2>2, <2>3 DEF InService
    <2>5. OnlyServing' /\ ServedOnce' /\ HeldOnce'
      BY <1>0, <2>1, <2>2, <2>3, <2>4 DEF OnlyServing, RequestInv, ServedOnce, HeldOnce, InService
    <2>6. HeldAwaits' /\ AwaitedIsHeld' /\ FutureIsAwaited'
      BY <2>1, <2>2, <2>4 DEF RequestInv, HeldAwaits, AwaitedIsHeld, FutureIsAwaited
    <2>7. RunsOnce'
      <3>1. executed[c] < attempt[c] /\ ~Before(c)
        BY <2>2 DEF RequestInv, RunsOnce, HeldAwaits, Before
      <3>2. /\ executed'[c] <= attempt[c] /\ \A d \in Callers : d # c => executed'[d] = executed[d]
            /\ UNCHANGED <<pc, attempt>>
        <4>1. /\ executed'[c] = executed[c] + 1 /\ UNCHANGED <<pc, attempt>>
              /\ \A d \in Callers : d # c => executed'[d] = executed[d]
          BY <1>0, <2>1, <2>2
        <4>2. executed[c] \in Nat /\ attempt[c] \in Nat
          BY <1>0, <2>2
        <4> QED
          BY <3>1, <4>1, <4>2
      <3>3. ASSUME NEW d \in Callers
            PROVE  /\ executed'[d] <= attempt'[d]
                   /\ Before(d)' => executed'[d] = 0 \/ executed'[d] < attempt'[d]
                   /\ Queued(d)' => executed'[d] < attempt'[d]
        <4>1. CASE d = c
          BY <2>2, <3>1, <3>2, <4>1 DEF Before
        <4>2. CASE d # c
          BY <2>2, <3>2, <4>2 DEF RequestInv, RunsOnce, Before
        <4> QED
          BY <4>1, <4>2
      <3> QED
        BY <3>3 DEF RunsOnce
    <2> QED
      BY <2>2, <2>5, <2>6, <2>7 DEF RequestInv
  <1>6. CASE Answer(g) \/ Break(g)
    <2>1. /\ session[g] = "serving" /\ session' = [session EXCEPT ![g] = session'[g]]
          /\ serving' = [serving EXCEPT ![g] = NoOne]
          /\ Resolve(g, "result") \/ Resolve(g, "exception")
          /\ UNCHANGED <<pc, attempt, requests, executed>>
      BY <1>0, <1>6 DEF Answer, Break, Awake
    <2>2. serving[g] \in Callers
      BY <1>0, <2>1 DEF ServingHasCaller
    <2>3. OnlyServing'
      BY <1>0, <2>1 DEF OnlyServing
    <2> QED
      BY <1>0, <2>1, <2>2, <2>3, ExecutionEnds
  <1>7. CASE Cancelled(g)
    <2>1. /\ session' = [session EXCEPT ![g] = "cancelling"]
          /\ UNCHANGED <<pc, attempt, requests, executed>>
      BY <1>7 DEF Cancelled
    <2>2. CASE session[g] = "serving"
      <3>1. serving' = [serving EXCEPT ![g] = NoOne] /\ Resolve(g, "cancelled")
        BY <1>7, <2>2 DEF Cancelled
      <3>2. serving[g] \in Callers
        BY <1>0, <2>2 DEF ServingHasCaller
      <3>3. OnlyServing'
        BY <1>0, <2>1, <3>1 DEF OnlyServing
      <3> QED
        BY <1>0, <2>1, <3>1, <3>2, <3>3, ExecutionEnds
    <2>3. CASE session[g] # "serving"
      <3>1. UNCHANGED <<callerVars, serving>>
        BY <1>7, <2>1, <2>3 DEF Cancelled, callerVars
      <3>2. OnlyServing'
        BY <1>0, <2>1, <2>3, <3>1 DEF OnlyServing
      <3> QED
        BY <2>1, <3>1, <3>2, SessionMoves
    <2> QED
      BY <2>2, <2>3
  <1>8. CASE Drain(g)
    <2>1. /\ requests # <<>> /\ requests' = Tail(requests)
          /\ UNCHANGED <<pc, attempt, serving, executed, session>>
          /\ future' = IF future[Head(requests)] = "pending"
                       THEN [future EXCEPT ![Head(requests)] = "exception"] ELSE future
      BY <1>8 DEF Drain, sessionVars
    <2>2. Head(requests) \in Callers
      BY <1>0, <2>1, TakeOldest DEF RequestInv
    <2>3. OnlyServing'
      BY <1>0, <2>1 DEF OnlyServing
    <2>4. /\ \A d \in Callers : d # Head(requests) => future'[d] = future[d]
          /\ \/ future'[Head(requests)] = future[Head(requests)] /\ future[Head(requests)] # "pending"
             \/ future[Head(requests)] = "pending" /\ future'[Head(requests)] = "exception"
      BY <1>0, <2>1, <2>2
    <2> QED
      BY <1>0, <2>1, <2>3, <2>4, OldestDone
  <1> QED
    BY <1>1, <1>2, <1>3, <1>4, <1>5, <1>6, <1>7, <1>8 DEF SessionStep

-----------------------------------------------------------------------------
(* The invariant. *)

LEMMA InitRequestInv == Init => RequestInv
  <1> SUFFICES ASSUME Init PROVE RequestInv
    OBVIOUS
  <1>1. /\ \A c : ~Queued(c)
        /\ \A c \in Callers : ~InService(c)
    BY WorkerAssumption DEF Init, Queued, InService
  <1>2. OnlyServing /\ QueuedOnce /\ ServedOnce /\ HeldOnce
    BY <1>1 DEF Init, OnlyServing, QueuedOnce, ServedOnce, HeldOnce
  <1>3. HeldAwaits /\ AwaitedIsHeld /\ FutureIsAwaited
    BY <1>1 DEF Init, HeldAwaits, AwaitedIsHeld, FutureIsAwaited
  <1>4. RunsOnce
    BY <1>1 DEF Init, RunsOnce, FirstAttempt
  <1> QED
    BY <1>2, <1>3, <1>4 DEF RequestInv

LEMMA NextRequestInv == SessionInv /\ RequestInv /\ [Next]_vars => RequestInv'
  <1> SUFFICES ASSUME SessionInv, RequestInv, [Next]_vars PROVE RequestInv'
    OBVIOUS
  <1>1. ASSUME NEW c \in Callers, CallerStep(c) \/ Call(c) PROVE RequestInv'
    BY <1>1, CallerRequests
  <1>2. ASSUME NEW c \in Callers, Cancel(c) PROVE RequestInv'
    BY <1>2, CancelRequests
  <1>3. ASSUME NEW g \in Sessions, SessionStep(g) \/ Io(g) \/ DieIdle(g) PROVE RequestInv'
    BY <1>3, SessionRequests
  <1>4. CASE UNCHANGED vars
    <2>1. UNCHANGED <<callerVars, requests, serving, executed>> /\ OnlyServing'
      BY <1>4 DEF vars, sessionVars, RequestInv, OnlyServing
    <2> QED
      BY <2>1, SessionMoves
  <1> QED
    BY <1>1, <1>2, <1>3, <1>4 DEF Next, LoopStep, Finished

\* In every behaviour of the worker no request is lost, queued twice or executed
\* twice in an attempt, whatever fails or is cancelled (mcp_worker.py:47-148).
THEOREM RequestSafety == Spec => []RequestInv
  <1> QED
    BY InitRequestInv, NextRequestInv, SessionSafety, InitSessionInv, NextSessionInv, PTL DEF Spec

\* A caller that awaits an answer is in the queue or in service, exactly once: some
\* session still has to resolve its future (mcp_worker.py:61-93, 131).
THEOREM RequestsAreKept == Spec => []EveryRequestIsKept
  <1>1. ASSUME TypeOK, RequestInv PROVE EveryRequestIsKept
    <2> SUFFICES ASSUME NEW c \in Callers, pc[c] = "wait", future[c] = "pending"
                 PROVE  Cardinality({i \in DOMAIN requests : requests[i] = c})
                          + Cardinality({g \in Sessions : serving[g] = c}) = 1
      BY DEF EveryRequestIsKept
    <2> DEFINE places == {i \in DOMAIN requests : requests[i] = c}
               services == {g \in Sessions : serving[g] = c}
    <2>1. Cardinality({}) = 0 /\ \A x : Cardinality({x}) = 1
      BY FS_EmptySet, FS_Singleton
    <2>2. CASE Queued(c)
      <3>1. PICK i \in DOMAIN requests : requests[i] = c
        BY <2>2 DEF Queued
      <3>a. \A j \in DOMAIN requests : requests[j] = c => j = i
        BY <1>1, <3>1 DEF RequestInv, QueuedOnce
      <3>2. places = {i}
        BY <3>a, <3>1
      <3>3. services = {}
        BY <1>1, <2>2 DEF RequestInv, HeldOnce, InService
      <3> HIDE DEF places, services
      <3>4. Cardinality(places) = 1 /\ Cardinality(services) = 0
        BY <2>1, <3>2, <3>3
      <3>5. Cardinality(places) + Cardinality(services) = 1
        BY <3>4
      <3> QED
        BY <3>5 DEF places, services
    <2>3. CASE InService(c)
      <3>1. PICK g \in Sessions : serving[g] = c
        BY <2>3 DEF InService
      <3>a. \A h \in Sessions : serving[h] = c => h = g
        BY <1>1, <3>1, WorkerAssumption DEF RequestInv, ServedOnce
      <3>2. services = {g}
        BY <3>a, <3>1
      <3>3. places = {}
        BY <1>1, <2>3 DEF RequestInv, HeldOnce, Queued
      <3> HIDE DEF places, services
      <3>4. Cardinality(places) = 0 /\ Cardinality(services) = 1
        BY <2>1, <3>2, <3>3
      <3>5. Cardinality(places) + Cardinality(services) = 1
        BY <3>4
      <3> QED
        BY <3>5 DEF places, services
    <2> QED
      BY <1>1, <2>2, <2>3 DEF RequestInv, AwaitedIsHeld
  <1> QED
    BY <1>1, TypeCorrect, RequestSafety, PTL

-----------------------------------------------------------------------------
(* What a caller was told. *)

\* One step leaves a future that is done as it is, but for that of a failed attempt,
\* which the next one replaces.
Kept ==
  \A c \in Callers :
    future[c] \in {"result", "exception", "cancelled"} =>
      future'[c] = future[c] \/ (future[c] = "exception" /\ pc[c] = "have")

LEMMA CallerKeeps ==
  ASSUME SessionInv, RequestInv, NEW c \in Callers, CallerStep(c) \/ Call(c) \/ Cancel(c)
  PROVE  Kept
  <1>0. future \in [Callers -> {"none", "pending", "result", "exception", "cancelled"}]
    BY DEF SessionInv, TypeOK
  <1>1. CASE PutRequest(c)
    <2>1. pc[c] = "have" /\ future' = [future EXCEPT ![c] = "pending"]
      BY <1>1 DEF PutRequest
    <2>2. future[c] \in {"none", "exception"}
      BY <2>1 DEF RequestInv, FutureIsAwaited
    <2> QED
      BY <1>0, <2>1, <2>2 DEF Kept
  <1>2. CASE Cancel(c)
    <2>1. future' = future \/ (future[c] = "pending" /\ future' = [future EXCEPT ![c] = "cancelled"])
      BY <1>2 DEF Cancel, CancelAtLock, CancelAtAwait
    <2> QED
      BY <1>0, <2>1 DEF Kept
  <1>3. CASE ~PutRequest(c) /\ ~Cancel(c)
    <2>1. future' = future
      BY <1>3 DEF CallerStep, Call, Acquire, Enqueue, EnsureAlive, EnsurePoisoned, EnsureStart,
         AfterReady, ToolsReturn, AfterWait, Aclose, AfterJoin, Retry, callerVars
    <2> QED
      BY <2>1 DEF Kept
  <1> QED
    BY <1>1, <1>2, <1>3

LEMMA SessionKeeps ==
  ASSUME SessionInv, RequestInv, NEW g \in Sessions, SessionStep(g) \/ Io(g) \/ DieIdle(g)
  PROVE  Kept
  <1>0. /\ TypeOK /\ future \in [Callers -> {"none", "pending", "result", "exception", "cancelled"}]
    BY DEF SessionInv, TypeOK
  <1>1. CASE RefuseUnlisted(g)
    <2>1. /\ requests # <<>> /\ future[Head(requests)] # "cancelled"
          /\ future' = [future EXCEPT ![Head(requests)] = "exception"]
      BY <1>1 DEF RefuseUnlisted
    <2>2. Head(requests) \in Callers /\ Queued(Head(requests))
      <3>1. requests \in Seq(Callers) /\ 1 \in DOMAIN requests /\ Head(requests) = requests[1]
        BY <1>0, <2>1 DEF TypeOK
      <3> QED
        BY <3>1 DEF Queued
    <2>3. future[Head(requests)] = "pending"
      BY <2>1, <2>2 DEF RequestInv, HeldAwaits
    <2> QED
      BY <1>0, <2>1, <2>2, <2>3 DEF Kept
  <1>2. CASE Answer(g) \/ Break(g) \/ Cancelled(g)
    <2>1. \/ future' = future
          \/ \E value \in {"result", "exception", "cancelled"} : Resolve(g, value)
      BY <1>2 DEF Answer, Break, Cancelled
    <2> QED
      BY <1>0, <2>1 DEF Kept, Resolve
  <1>3. CASE Drain(g)
    <2>1. \/ future' = future
          \/ /\ future[Head(requests)] = "pending"
             /\ future' = [future EXCEPT ![Head(requests)] = "exception"]
      BY <1>3 DEF Drain
    <2> QED
      BY <1>0, <2>1 DEF Kept
  <1>4. CASE /\ ~RefuseUnlisted(g) /\ ~Answer(g) /\ ~Break(g) /\ ~Cancelled(g) /\ ~Drain(g)
    <2>1. future' = future
      BY <1>4 DEF SessionStep, Io, DieIdle, StartOk, StartFail, SkipCancelled, Execute,
         NothingToTake, TornDown, End, callerVars
    <2> QED
      BY <2>1 DEF Kept
  <1> QED
    BY <1>1, <1>2, <1>3, <1>4

\* A future is resolved once: what its caller was told never changes while it is the
\* future of that attempt (mcp_worker.py:70-84, 101).
THEOREM ResolutionsStand == Spec => ResolvedOnce
  <1>1. ASSUME SessionInv, RequestInv, [Next]_vars
        PROVE  [\A c \in Callers :
                  future[c] \in {"result", "exception", "cancelled"} =>
                    future'[c] = future[c] \/ (future[c] = "exception" /\ pc[c] = "have")]_vars
    <2>1. ASSUME NEW c \in Callers, CallerStep(c) \/ Call(c) \/ Cancel(c) PROVE Kept
      BY <1>1, <2>1, CallerKeeps
    <2>2. ASSUME NEW g \in Sessions, SessionStep(g) \/ Io(g) \/ DieIdle(g) PROVE Kept
      BY <1>1, <2>2, SessionKeeps
    <2>3. CASE UNCHANGED vars
      BY <2>3
    <2> QED
      BY <1>1, <2>1, <2>2, <2>3 DEF Next, LoopStep, Finished, Kept
  <1> QED
    BY <1>1, SessionSafety, RequestSafety, PTL DEF Spec, ResolvedOnce

-----------------------------------------------------------------------------
(* The service: every step of the worker is a step of McpService or a stutter. *)

Status == [c \in Callers |-> IF pc[c] \in CallEnds THEN pc[c] ELSE "open"]
Executing == {serving[g] : g \in {s \in Sessions \ killed : session[s] = "serving"}}
Answered == {c \in Callers : future[c] = "result"}
ServiceStep == [Service!Next]_(Service!vars)

\* The steps of the service in these terms.
LEMMA ServiceSteps ==
  /\ UNCHANGED <<Status, Executing, executed, Answered>> => ServiceStep
  /\ \A c \in Callers :
       /\ Status[c] = "open" /\ Executing = {} /\ executed[c] < 2 /\ c \notin Answered
       /\ Executing' = {c} /\ executed' = [executed EXCEPT ![c] = @ + 1]
       /\ UNCHANGED <<Status, Answered>>
       => ServiceStep
  /\ \A c \in Callers :
       /\ Executing = {c} /\ Executing' = {} /\ UNCHANGED <<Status, executed>>
       /\ \/ Answered' = Answered
          \/ Status[c] = "open" /\ Answered' = Answered \cup {c}
       => ServiceStep
  /\ \A c \in Callers :
       /\ Status[c] = "open" /\ UNCHANGED <<Executing, executed, Answered>>
       /\ \/ Status' = [Status EXCEPT ![c] = "ok"] /\ (c \in Answered \/ Op[c] = "tools")
          \/ Status' = [Status EXCEPT ![c] = "error"]
          \/ Status' = [Status EXCEPT ![c] = "cancelled"]
       => ServiceStep
  BY DEF ServiceStep, Service!Next, Service!vars, Service!Start, Service!Answer, Service!Lose,
     Service!Succeed, Service!Fail, Status, Executing, Answered

\* A caller whose operation goes on, or one that ends it.
LEMMA StatusMoves ==
  ASSUME TypeOK, NEW c \in Callers, \A d \in Callers : d # c => pc'[d] = pc[d],
         pc[c] \notin CallEnds
  PROVE  /\ Status[c] = "open"
         /\ pc'[c] \notin CallEnds => Status' = Status
         /\ pc'[c] \in CallEnds => Status' = [Status EXCEPT ![c] = pc'[c]]
  BY DEF Status

\* The session that executes, if any, is the worker's.
LEMMA OneExecutes ==
  ASSUME SessionInv
  PROVE  /\ \A g \in Sessions \ killed : session[g] = "serving" => Executing = {serving[g]}
         /\ \A g \in Sessions \ killed : session[g] = "idle" => Executing = {}
  <1>1. \A g, h \in Sessions \ killed :
          session[g] \in {"idle", "serving"} /\ session[h] \in {"idle", "serving"} => g = h
    BY DEF SessionInv, NoOrphanSession
  <1> QED
    BY <1>1 DEF Executing

\* A caller that ends its operation, or goes on with it, as the service allows.
LEMMA CallerIsServed ==
  ASSUME TypeOK, NEW c \in Callers, \A d \in Callers : d # c => pc'[d] = pc[d],
         pc[c] \notin CallEnds, UNCHANGED executed, Executing' = Executing, Answered' = Answered,
         pc'[c] = "ok" => c \in Answered \/ Op[c] = "tools"
  PROVE  ServiceStep
  <1>1. CASE pc'[c] \notin CallEnds
    BY <1>1, StatusMoves, ServiceSteps
  <1>2. CASE pc'[c] \in CallEnds
    <2>1. Status[c] = "open" /\ Status' = [Status EXCEPT ![c] = pc'[c]]
      BY <1>2, StatusMoves
    <2>2. pc'[c] \in {"ok", "error", "cancelled"}
      BY <1>2 DEF CallEnds
    <2> QED
      BY <2>1, <2>2, ServiceSteps
  <1> QED
    BY <1>1, <1>2

LEMMA CallerServes ==
  ASSUME SessionInv, RequestInv, NEW c \in Callers, CallerStep(c) \/ Call(c) \/ Cancel(c)
  PROVE  ServiceStep
  <1>0. /\ TypeOK /\ pc \in [Callers -> PcValues]
        /\ session \in [Sessions -> Live \cup {"none", "done"}]
        /\ future \in [Callers -> {"none", "pending", "result", "exception", "cancelled"}]
    BY DEF SessionInv, TypeOK, PcValues
  <1> USE DEF CallEnds
  <1>1. CASE Call(c) \/ Acquire(c) \/ Enqueue(c) \/ EnsureAlive(c) \/ EnsurePoisoned(c)
             \/ AfterReady(c) \/ AfterJoin(c) \/ Retry(c) \/ CancelAtLock(c)
    <2>1. UNCHANGED <<future, session, serving, killed, executed>>
      BY <1>1 DEF Call, Acquire, Enqueue, EnsureAlive, EnsurePoisoned, AfterReady, AfterJoin,
         Retry, CancelAtLock, callerVars, sessionVars
    <2>2. Executing' = Executing /\ Answered' = Answered
      BY <2>1 DEF Executing, Answered
    <2>3. CASE Acquire(c) \/ Enqueue(c)
      <3>1. pc' = pc
        BY <2>3 DEF Acquire, Enqueue, callerVars
      <3> QED
        BY <2>1, <2>2, <3>1, ServiceSteps DEF Status
    <2>4. CASE ~(Acquire(c) \/ Enqueue(c))
      <3>1. /\ pc[c] \in {"start", "ensure", "ready", "join", "closed", "close"}
            /\ \E value \in {"ensure", "have", "closed", "error", "cancelled"} :
                 pc' = [pc EXCEPT ![c] = value]
        BY <1>1, <2>4 DEF Call, EnsureAlive, EnsurePoisoned, InEnsure, AfterReady, ReadyEnd,
           AfterJoin, Retry, CancelAtLock
      <3>2. pc[c] \notin CallEnds /\ pc'[c] # "ok" /\ \A d \in Callers : d # c => pc'[d] = pc[d]
        BY <1>0, <3>1
      <3> QED
        BY <1>0, <2>1, <2>2, <3>2, CallerIsServed
    <2> QED
      BY <2>3, <2>4
  <1>2. CASE EnsureStart(c)
    <2>1. /\ pc[c] = "ensure" /\ pc' = [pc EXCEPT ![c] = "ready"]
          /\ session' = [session EXCEPT ![started + 1] = "starting"]
          /\ UNCHANGED <<future, serving, killed, executed>>
      BY <1>2 DEF EnsureStart, InEnsure
    <2>2. started + 1 \in Sessions => session[started + 1] = "none"
      BY <1>0 DEF SessionInv, FutureSessionsFresh, TypeOK
    <2>3. \A g \in Sessions : session'[g] = "serving" <=> session[g] = "serving"
      BY <1>0, <2>1, <2>2
    <2>4. Executing' = Executing /\ Answered' = Answered
      BY <2>1, <2>3 DEF Executing, Answered
    <2>5. pc'[c] = "ready" /\ \A d \in Callers : d # c => pc'[d] = pc[d]
      BY <1>0, <2>1
    <2> QED
      BY <1>0, <2>1, <2>4, <2>5, CallerIsServed
  <1>3. CASE ToolsReturn(c)
    <2>1. /\ pc[c] = "have" /\ UNCHANGED <<future, session, serving, killed, executed>>
          /\ \/ pc' = [pc EXCEPT ![c] = "ok"] /\ Op[c] = "tools"
             \/ pc' = [pc EXCEPT ![c] = "ensure"]
      BY <1>3 DEF ToolsReturn, sessionVars
    <2>2. Executing' = Executing /\ Answered' = Answered
      BY <2>1 DEF Executing, Answered
    <2>3. /\ \A d \in Callers : d # c => pc'[d] = pc[d]
          /\ pc'[c] = "ok" => Op[c] = "tools"
      BY <1>0, <2>1
    <2> QED
      BY <1>0, <2>1, <2>2, <2>3, CallerIsServed
  <1>4. CASE PutRequest(c)
    <2>1. /\ pc[c] = "have" /\ pc' = [pc EXCEPT ![c] = "wait"]
          /\ future' = [future EXCEPT ![c] = "pending"]
          /\ UNCHANGED <<session, serving, killed, executed>>
      BY <1>4 DEF PutRequest, sessionVars
    <2>2. future[c] # "result"
      BY <2>1 DEF RequestInv, FutureIsAwaited
    <2>3. Executing' = Executing /\ Answered' = Answered
      BY <1>0, <2>1, <2>2 DEF Executing, Answered
    <2>4. pc'[c] = "wait" /\ \A d \in Callers : d # c => pc'[d] = pc[d]
      BY <1>0, <2>1
    <2> QED
      BY <1>0, <2>1, <2>3, <2>4, CallerIsServed
  <1>5. CASE AfterWait(c)
    <2>1. /\ pc[c] = "wait" /\ UNCHANGED <<future, session, serving, killed, executed>>
          /\ \/ pc' = [pc EXCEPT ![c] = "ok"] /\ future[c] = "result"
             \/ pc' = [pc EXCEPT ![c] = "close"]
             \/ pc' = [pc EXCEPT ![c] = "cancelled"]
      BY <1>5 DEF AfterWait, sessionVars
    <2>2. Executing' = Executing /\ Answered' = Answered
      BY <2>1 DEF Executing, Answered
    <2>3. /\ \A d \in Callers : d # c => pc'[d] = pc[d]
          /\ pc'[c] = "ok" => c \in Answered
      BY <1>0, <2>1 DEF Answered
    <2> QED
      BY <1>0, <2>1, <2>2, <2>3, CallerIsServed
  \* Closing a session that executes loses its execution.
  <1>6. CASE Aclose(c)
    <2>1. /\ pc[c] = "close" /\ UNCHANGED <<future, session, serving, executed>>
          /\ pc' = [pc EXCEPT ![c] = "join"] \/ pc' = [pc EXCEPT ![c] = "closed"]
          /\ killed' = killed \/ (task \in Sessions /\ killed' = killed \cup {task})
      BY <1>0, <1>6 DEF Aclose, Alive, TypeOK
    <2>2. pc'[c] \in {"join", "closed"} /\ \A d \in Callers : d # c => pc'[d] = pc[d]
      BY <1>0, <2>1
    <2>3. Status' = Status /\ Answered' = Answered
      BY <1>0, <2>1, <2>2, StatusMoves DEF Answered
    <2>4. CASE Executing' = Executing
      BY <2>1, <2>3, <2>4, ServiceSteps
    <2>5. CASE Executing' # Executing
      <3>1. killed' # killed
        BY <2>1, <2>5 DEF Executing
      <3>2. \A g \in Sessions \ killed : session[g] = "serving" => g = task
        BY DEF SessionInv, NoOrphanSession
      <3>3. Executing' = {}
        BY <2>1, <3>1, <3>2 DEF Executing
      <3>4. PICK g \in Sessions \ killed : session[g] = "serving"
        BY <2>5, <3>3 DEF Executing
      <3>5. Executing = {serving[g]} /\ serving[g] \in Callers
        BY <3>4, OneExecutes DEF SessionInv, ServingHasCaller
      <3> QED
        BY <2>1, <2>3, <3>3, <3>5, ServiceSteps
    <2> QED
      BY <2>4, <2>5
  <1>7. CASE CancelAtAwait(c)
    <2>1. /\ UNCHANGED <<pc, session, serving, killed, executed>>
          /\ \/ future' = future
             \/ future[c] = "pending" /\ future' = [future EXCEPT ![c] = "cancelled"]
      BY <1>7 DEF CancelAtAwait
    <2>2. Status' = Status /\ Executing' = Executing /\ Answered' = Answered
      BY <1>0, <2>1 DEF Status, Executing, Answered
    <2> QED
      BY <2>1, <2>2, ServiceSteps
  <1> QED
    BY <1>1, <1>2, <1>3, <1>4, <1>5, <1>6, <1>7 DEF CallerStep, Cancel

\* A session that neither takes up nor finishes a request does nothing to the service.
LEMMA SessionIsUnseen ==
  ASSUME UNCHANGED <<pc, executed>>, Executing' = Executing, Answered' = Answered
  PROVE  ServiceStep
  BY ServiceSteps DEF Status

LEMMA SessionServes ==
  ASSUME SessionInv, RequestInv, NEW g \in Sessions, SessionStep(g) \/ Io(g) \/ DieIdle(g)
  PROVE  ServiceStep
  <1>0. /\ TypeOK /\ session \in [Sessions -> Live \cup {"none", "done"}]
        /\ serving \in [Sessions -> Callers \cup {NoOne}]
        /\ executed \in [Callers -> Nat] /\ attempt \in [Callers -> 0..2]
        /\ future \in [Callers -> {"none", "pending", "result", "exception", "cancelled"}]
        /\ ServingHasCaller
    BY DEF SessionInv, TypeOK
  <1>1. CASE Io(g) \/ NothingToTake(g) \/ SkipCancelled(g)
    <2>1. UNCHANGED <<pc, future, session, serving, killed, executed>>
      BY <1>1 DEF Io, NothingToTake, SkipCancelled, callerVars, sessionVars
    <2> QED
      BY <2>1, SessionIsUnseen DEF Executing, Answered
  <1>2. CASE StartOk(g) \/ StartFail(g) \/ DieIdle(g) \/ TornDown(g) \/ End(g)
    <2>1. /\ UNCHANGED <<pc, future, serving, killed, executed>> /\ session[g] # "serving"
          /\ \E state \in {"idle", "failing", "draining", "done"} :
               session' = [session EXCEPT ![g] = state]
      BY <1>2 DEF StartOk, StartFail, DieIdle, TornDown, End, Awake, callerVars
    <2>2. \A s \in Sessions : session'[s] = "serving" <=> session[s] = "serving"
      BY <1>0, <2>1
    <2> QED
      BY <2>1, <2>2, SessionIsUnseen DEF Executing, Answered
  <1>3. CASE RefuseUnlisted(g) \/ Drain(g)
    <2>1. /\ UNCHANGED <<pc, serving, killed, executed>> /\ requests # <<>>
          /\ \/ session' = session
             \/ session[g] = "idle" /\ session' = [session EXCEPT ![g] = "failing"]
          /\ \/ future' = future
             \/ /\ future[Head(requests)] # "cancelled"
                /\ future' = [future EXCEPT ![Head(requests)] = "exception"]
      BY <1>3 DEF RefuseUnlisted, Drain, Awake, sessionVars
    <2>2. Head(requests) \in Callers /\ Queued(Head(requests))
      <3>1. requests \in Seq(Callers) /\ 1 \in DOMAIN requests /\ Head(requests) = requests[1]
        BY <1>0, <2>1 DEF TypeOK
      <3> QED
        BY <3>1 DEF Queued
    <2>3. future[Head(requests)] # "result"
      BY <2>2 DEF RequestInv, HeldAwaits
    <2>4. Answered' = Answered
      BY <1>0, <2>1, <2>2, <2>3 DEF Answered
    <2>5. \A s \in Sessions : session'[s] = "serving" <=> session[s] = "serving"
      BY <1>0, <2>1
    <2>6. Executing' = Executing
      BY <2>1, <2>5 DEF Executing
    <2> QED
      BY <2>1, <2>4, <2>6, SessionIsUnseen
  <1>4. CASE Execute(g)
    <2> DEFINE c == Head(requests)
    <2>1. /\ session[g] = "idle" /\ g \notin killed /\ requests # <<>> /\ future[c] # "cancelled"
          /\ serving' = [serving EXCEPT ![g] = c]
          /\ executed' = [executed EXCEPT ![c] = @ + 1]
          /\ session' = [session EXCEPT ![g] = "serving"]
          /\ UNCHANGED <<pc, future, killed>>
      BY <1>4 DEF Execute, Awake, callerVars
    <2>2. c \in Callers /\ Queued(c)
      <3>1. requests \in Seq(Callers) /\ 1 \in DOMAIN requests /\ Head(requests) = requests[1]
        BY <1>0, <2>1 DEF TypeOK
      <3> QED
        BY <3>1 DEF Queued
    <2>3. pc[c] = "wait" /\ future[c] = "pending" /\ executed[c] < attempt[c]
      BY <2>1, <2>2 DEF RequestInv, HeldAwaits, RunsOnce
    <2> HIDE DEF c
    <2>4. executed[c] < 2
      BY <1>0, <2>2, <2>3
    <2>5. Executing = {}
      BY <2>1, OneExecutes
    <2>6. \A s \in Sessions \ killed : session[s] # "serving"
      BY <2>5 DEF Executing
    <2>7. /\ \A s \in Sessions \ killed' : session'[s] = "serving" <=> s = g
          /\ serving'[g] = c /\ g \in Sessions \ killed'
      BY <1>0, <2>1, <2>6
    <2>8. Executing' = {c}
      BY <2>7 DEF Executing
    <2>9. Status[c] = "open" /\ c \notin Answered /\ UNCHANGED <<Status, Answered>>
      BY <2>1, <2>2, <2>3 DEF Status, Answered, CallEnds
    <2> QED
      BY <2>1, <2>2, <2>4, <2>5, <2>8, <2>9, ServiceSteps
  <1>5. CASE Answer(g) \/ Break(g)
    <2> DEFINE c == serving[g]
    <2>1. /\ session[g] = "serving" /\ g \notin killed
          /\ \E state \in {"idle", "failing"} : session' = [session EXCEPT ![g] = state]
          /\ Resolve(g, "result") \/ Resolve(g, "exception")
          /\ UNCHANGED <<pc, killed, executed>>
      BY <1>5 DEF Answer, Break, Awake
    <2>2. c \in Callers /\ Executing = {c}
      BY <1>0, <2>1, OneExecutes DEF ServingHasCaller
    <2>3. \/ pc[c] = "wait" /\ future[c] = "pending"
          \/ future[c] = "cancelled"
      BY <2>2 DEF InService, RequestInv, HeldAwaits
    <2>4. Executing' = {}
      <3>1. \A s \in Sessions \ killed : session[s] = "serving" => s = g
        BY <2>1 DEF SessionInv, NoOrphanSession
      <3>2. \A s \in Sessions \ killed' : session'[s] # "serving"
        BY <1>0, <2>1, <3>1
      <3> QED
        BY <3>2 DEF Executing
    <2>5. Status' = Status /\ (pc[c] = "wait" => Status[c] = "open")
      BY <2>1, <2>2 DEF Status, CallEnds
    <2>6. \/ future' = [future EXCEPT ![c] = "result"] /\ future[c] = "pending"
          \/ future' = [future EXCEPT ![c] = "exception"] /\ future[c] = "pending"
          \/ future' = [future EXCEPT ![c] = future[c]]
      BY <2>1 DEF Resolve
    <2> HIDE DEF c
    <2>7. \/ Answered' = Answered
          \/ future[c] = "pending" /\ Answered' = Answered \cup {c}
      <3>1. CASE future' = [future EXCEPT ![c] = "result"] /\ future[c] = "pending"
        BY <1>0, <2>2, <3>1 DEF Answered
      <3>2. CASE future' = [future EXCEPT ![c] = "exception"] /\ future[c] = "pending"
        BY <1>0, <2>2, <3>2 DEF Answered
      <3>3. CASE future' = [future EXCEPT ![c] = future[c]]
        BY <1>0, <2>2, <3>3 DEF Answered
      <3> QED
        BY <2>6, <3>1, <3>2, <3>3
    <2> QED
      BY <2>1, <2>2, <2>3, <2>4, <2>5, <2>7, ServiceSteps
  \* The execution of a session that is being closed is lost already.
  <1>6. CASE Cancelled(g)
    <2>1. /\ g \in killed /\ killed' = killed \ {g}
          /\ session' = [session EXCEPT ![g] = "cancelling"]
          /\ serving' = [serving EXCEPT ![g] = NoOne] \/ serving' = serving
          /\ future' = future \/ (session[g] = "serving" /\ Resolve(g, "cancelled"))
          /\ UNCHANGED <<pc, executed>>
      BY <1>6 DEF Cancelled
    <2>2. \A s \in Sessions :
            /\ (s \notin killed /\ session[s] = "serving")
                 <=> (s \notin killed' /\ session'[s] = "serving")
            /\ s \notin killed => serving'[s] = serving[s]
      BY <1>0, <2>1
    <2>3. Executing' = Executing
      BY <2>2 DEF Executing
    <2>4. Answered' = Answered
      <3>1. CASE future' = future
        BY <3>1 DEF Answered
      <3>2. CASE session[g] = "serving" /\ Resolve(g, "cancelled")
        <4>1. serving[g] \in Callers
          BY <1>0, <3>2 DEF ServingHasCaller
        <4>2. future[serving[g]] # "result"
          BY <4>1 DEF InService, RequestInv, HeldAwaits
        <4> QED
          BY <1>0, <3>2, <4>1, <4>2 DEF Answered, Resolve
      <3> QED
        BY <2>1, <3>1, <3>2
    <2> QED
      BY <2>1, <2>3, <2>4, SessionIsUnseen
  <1> QED
    BY <1>1, <1>2, <1>3, <1>4, <1>5, <1>6 DEF SessionStep

\* The worker implements the service: statements execute one at a time, at most twice
\* for an operation, and one that succeeds was answered by an execution of its own
\* (mcp_worker.py:1-17, 47-148).
THEOREM WorkerIsService == Spec => ServiceSpec
  <1>1. Init => Service!Init
    <2> SUFFICES ASSUME Init PROVE Service!Init
      OBVIOUS
    <2>1. /\ Status = [c \in Callers |-> "open"] /\ Executing = {} /\ Answered = {}
          /\ executed = [c \in Callers |-> 0]
      BY DEF Init, Status, Executing, Answered, CallEnds
    <2> QED
      BY <2>1 DEF Service!Init, Status, Executing, Answered
  <1>2. SessionInv /\ RequestInv /\ [Next]_vars => ServiceStep
    <2> SUFFICES ASSUME SessionInv, RequestInv, [Next]_vars PROVE ServiceStep
      OBVIOUS
    <2>1. ASSUME NEW c \in Callers, CallerStep(c) \/ Call(c) \/ Cancel(c) PROVE ServiceStep
      BY <2>1, CallerServes
    <2>2. ASSUME NEW g \in Sessions, SessionStep(g) \/ Io(g) \/ DieIdle(g) PROVE ServiceStep
      BY <2>2, SessionServes
    <2>3. CASE UNCHANGED vars
      <3>1. UNCHANGED <<Status, Executing, executed, Answered>>
        BY <2>3 DEF vars, callerVars, sessionVars, Status, Executing, Answered
      <3> QED
        BY <3>1, ServiceSteps
    <2> QED
      BY <2>1, <2>2, <2>3 DEF Next, LoopStep, Finished
  <1> QED
    BY <1>1, <1>2, SessionSafety, RequestSafety, PTL
       DEF Spec, ServiceSpec, Service!Spec, ServiceStep

-----------------------------------------------------------------------------
(* The ready queue is first in, first out: a caller told that a session is ready puts *)
(* its request before that session runs again, hence before it can end.               *)

SomeLive == \E g \in Sessions : session[g] \in Live

SessionsOnce ==
  \A i, j \in DOMAIN runq : runq[i] = runq[j] /\ runq[i] \in Sessions => i = j

\* Between _ensure and put a caller does not suspend, and a session has not ended.
HaveRuns == \A c \in Callers : pc[c] = "have" => Running(c) /\ SomeLive

\* c is in the queue, and but for a turn that g is having, g is behind it.
Ahead(c, g) ==
  \E i \in DOMAIN runq :
    runq[i] = c /\ \A j \in DOMAIN runq : runq[j] = g => i < j \/ j = 1

Told(c) == pc[c] = "ready" /\ ready[target[c]] = "ok" /\ cancel[c] # "asked"
StarterIsAhead ==
  \A c \in Callers : Told(c) =>
    /\ session[target[c]] \in Live
    /\ Ahead(c, target[c])
    /\ Running(target[c]) => session[target[c]] = "idle"

AttendInv == SessionsOnce /\ HaveRuns /\ StarterIsAhead /\ QueueIsAttended

\* What is appended to the queue may be appended: its sessions are not there yet.
FreshWake(wake) ==
  \A i, j \in DOMAIN wake :
    wake[i] \in Sessions => Blocked(wake[i]) /\ (wake[i] = wake[j] => i = j)

\* Callers are fresh, and so is nobody.
LEMMA CallersAreFresh ==
  /\ \A wake \in Seq(Callers) : FreshWake(wake) /\ wake \in Seq(Tasks)
  /\ << >> \in Seq(Callers) /\ \A c \in Callers : <<c>> \in Seq(Callers)
  /\ TypeOK => LockWake \in Seq(Callers)
  /\ \A S \in SUBSET Callers : WakeOne(S) \in Seq(Callers)
  <1>1. ASSUME NEW wake \in Seq(Callers) PROVE FreshWake(wake) /\ wake \in Seq(Tasks)
    <2>1. \A i \in DOMAIN wake : wake[i] \in Callers /\ wake[i] \notin Sessions
      BY WorkerAssumption DEF Sessions
    <2> QED
      BY <2>1 DEF FreshWake, Tasks
  <1>2. << >> \in Seq(Callers) /\ \A c \in Callers : <<c>> \in Seq(Callers)
    BY ShortSequences
  <1>3. ASSUME TypeOK PROVE LockWake \in Seq(Callers)
    <2>1. waiters \in Seq(Callers)
      BY <1>3 DEF TypeOK
    <2>2. CASE waiters = <<>>
      BY <1>2, <2>2 DEF LockWake
    <2>3. CASE waiters # <<>>
      <3>1. Head(waiters) \in Callers
        BY <2>1, <2>3, HeadTailProperties
      <3> QED
        BY <1>2, <2>3, <3>1 DEF LockWake
    <2> QED
      BY <2>2, <2>3
  <1>4. ASSUME NEW S \in SUBSET Callers PROVE WakeOne(S) \in Seq(Callers)
    <2>1. CASE S = {}
      BY <1>2, <2>1 DEF WakeOne
    <2>2. CASE S # {}
      <3>1. (CHOOSE c \in S : TRUE) \in Callers
        BY <2>2
      <3> QED
        BY <1>2, <2>2, <3>1 DEF WakeOne
    <2> QED
      BY <2>1, <2>2
  <1> QED
    BY <1>1, <1>2, <1>3, <1>4

\* Where an element of the queue was before the one at k left, and where it goes.
Was(k, p) == IF p < k THEN p ELSE p + 1
Goes(k, i) == IF i < k THEN i ELSE i - 1

\* The element at k, if any, leaves the queue and others are appended: nobody else
\* changes places.
LEMMA QueueMoves ==
  ASSUME runq \in Seq(Tasks), SessionsOnce, NEW s \in Seq(Tasks), NEW wake \in Seq(Tasks),
         FreshWake(wake), runq' = s \o wake, NEW k \in Nat \ {0},
         \A p \in DOMAIN s : Was(k, p) \in DOMAIN runq /\ s[p] = runq[Was(k, p)],
         \A i \in DOMAIN runq : i # k => Goes(k, i) \in DOMAIN s
  PROVE  /\ SessionsOnce'
         /\ \A c \in Callers, g \in Sessions :
              Ahead(c, g) /\ (k \in DOMAIN runq => runq[k] # c) =>
                Ahead(c, g)' /\ (Running(g)' => Running(g) /\ k # 1)
  <1> DEFINE n == Len(runq)
             m == Len(s)
             w == Len(wake)
  <1>1. /\ n \in Nat /\ m \in Nat /\ w \in Nat
        /\ DOMAIN runq = 1..n /\ DOMAIN s = 1..m /\ DOMAIN wake = 1..w
    OBVIOUS
  <1>2. /\ DOMAIN runq' = 1..(m + w)
        /\ \A p \in 1..m : runq'[p] = s[p]
        /\ \A p \in (m + 1)..(m + w) : runq'[p] = wake[p - m] /\ p - m \in 1..w
    BY <1>1, ConcatProperties
  <1> HIDE DEF n, m, w
  <1>3. \A p \in 1..(m + w) : p \in 1..m \/ p \in (m + 1)..(m + w)
    BY <1>1
  <1>4. /\ \A p, q \in Nat : Was(k, p) = Was(k, q) => p = q
        /\ \A i \in Nat : i # k => Was(k, Goes(k, i)) = i
        /\ \A i \in Nat, p \in Nat : i # k /\ i < Was(k, p) => Goes(k, i) < p
        /\ \A p \in Nat : Was(k, p) = 1 /\ p > 0 => p = 1
    BY DEF Was, Goes
  \* A session that is appended was not there.
  <1>5. ASSUME NEW p \in 1..m, NEW q \in (m + 1)..(m + w), runq'[q] \in Sessions
        PROVE  runq'[p] # runq'[q]
    <2>1. Blocked(runq'[q])
      BY <1>1, <1>2, <1>5 DEF FreshWake
    <2>2. runq'[p] \in ToSet(runq)
      BY <1>1, <1>2 DEF ToSet
    <2> QED
      BY <2>1, <2>2 DEF Blocked
  <1>6. SessionsOnce'
    <2> SUFFICES ASSUME NEW p \in 1..(m + w), NEW q \in 1..(m + w),
                        runq'[p] = runq'[q], runq'[p] \in Sessions
                 PROVE  p = q
      BY <1>2 DEF SessionsOnce
    <2>1. CASE p \in 1..m /\ q \in 1..m
      <3>1. Was(k, p) = Was(k, q)
        BY <1>1, <1>2, <2>1 DEF SessionsOnce
      <3> QED
        BY <1>1, <1>4, <2>1, <3>1
    <2>2. CASE p \in (m + 1)..(m + w) /\ q \in (m + 1)..(m + w)
      <3>1. p - m = q - m
        <4> DEFINE x == p - m
                   y == q - m
        <4>1. x \in DOMAIN wake /\ y \in DOMAIN wake /\ runq'[p] = wake[x] /\ runq'[q] = wake[y]
          BY <1>1, <1>2, <2>2
        <4> HIDE DEF x, y
        <4>2. x = y
          BY <4>1 DEF FreshWake
        <4> QED
          BY <4>2 DEF x, y
      <3> QED
        BY <1>1, <2>2, <3>1
    <2> QED
      BY <1>3, <1>5, <2>1, <2>2
  <1>7. ASSUME NEW c \in Callers, NEW g \in Sessions, Ahead(c, g),
               k \in DOMAIN runq => runq[k] # c
        PROVE  Ahead(c, g)' /\ (Running(g)' => Running(g) /\ k # 1)
    <2>1. PICK i \in 1..n : runq[i] = c /\ \A j \in 1..n : runq[j] = g => i < j \/ j = 1
      BY <1>1, <1>7 DEF Ahead
    <2> DEFINE h == Goes(k, i)
    <2>2. i # k /\ h \in 1..m /\ h \in 1..(m + w) /\ Was(k, h) = i
      <3>1. i # k /\ i \in Nat
        BY <1>1, <1>7, <2>1
      <3>2. h \in 1..m
        BY <1>1, <3>1
      <3>3. Was(k, h) = i
        BY <1>4, <3>1
      <3> QED
        BY <1>1, <3>1, <3>2, <3>3
    <2> HIDE DEF h
    <2>3. runq'[h] = c
      BY <1>1, <1>2, <2>1, <2>2
    <2>4. ASSUME NEW p \in 1..(m + w), runq'[p] = g PROVE h < p \/ p = 1
      <3>1. CASE p \in (m + 1)..(m + w)
        BY <1>1, <2>2, <3>1
      <3>2. CASE p \in 1..m
        <4>1. Was(k, p) \in 1..n /\ runq[Was(k, p)] = g
          BY <1>1, <1>2, <2>4, <3>2
        <4>2. i < Was(k, p) \/ Was(k, p) = 1
          BY <2>1, <4>1
        <4> QED
          BY <1>1, <1>4, <2>2, <3>2, <4>2 DEF h
      <3> QED
        BY <1>3, <3>1, <3>2
    <2>5. Ahead(c, g)'
      BY <1>2, <2>2, <2>3, <2>4 DEF Ahead
    <2>6. ASSUME Running(g)' PROVE Running(g) /\ k # 1
      <3>1. 1 \in 1..m /\ runq'[1] = g
        <4>1. runq' # <<>> /\ runq' \in Seq(Tasks) /\ Head(runq') = g
          BY <2>6, ConcatProperties DEF Running
        <4> QED
          BY <1>1, <2>2, <4>1, HeadTailProperties
      <3>2. Was(k, 1) \in 1..n /\ runq[Was(k, 1)] = g
        BY <1>1, <1>2, <3>1
      <3>3. CASE k = 1
        <4>1. Was(k, 1) = 2 /\ i # 1
          BY <2>2, <3>3 DEF Was
        <4>2. i < 2
          BY <2>1, <3>2, <4>1
        <4> QED
          BY <4>1, <4>2
      <3>4. CASE k # 1
        <4>1. Was(k, 1) = 1
          BY <3>4 DEF Was
        <4>2. runq # <<>> /\ Head(runq) = g
          BY <1>1, <3>2, <4>1
        <4> QED
          BY <3>4, <4>2 DEF Running
      <3> QED
        BY <3>3, <3>4
    <2> QED
      BY <2>5, <2>6
  <1> QED
    BY <1>6, <1>7

\* Removing an element moves those behind it up by one.
LEMMA RemoveMoves ==
  ASSUME NEW S, NEW s \in Seq(S), NEW k \in DOMAIN s
  PROVE  /\ RemoveAt(s, k) \in Seq(S) /\ Len(RemoveAt(s, k)) = Len(s) - 1
         /\ \A p \in 1..(Len(s) - 1) : RemoveAt(s, k)[p] = s[Was(k, p)]
  <1> DEFINE n == Len(s)
             l == SubSeq(s, 1, k - 1)
             r == SubSeq(s, k + 1, n)
  <1>1. /\ n \in Nat /\ k \in Int /\ 1 <= k /\ k <= n
        /\ \A i \in 1..n : s[i] \in S
        /\ RemoveAt(s, k) = l \o r
    BY DEF RemoveAt
  <1> HIDE DEF n
  <1>2. l \in Seq(S) /\ Len(l) = k - 1 /\ \A p \in 1..(k - 1) : l[p] = s[p]
    <2>1. 1 \in Int /\ k - 1 \in Int /\ \A i \in 1..(k - 1) : s[i] \in S
      BY <1>1
    <2>2. l \in Seq(S)
      BY <2>1, SubSeqProperties
    <2>3. /\ Len(l) = IF 1 <= k - 1 THEN (k - 1) - 1 + 1 ELSE 0
          /\ \A p \in 1..((k - 1) - 1 + 1) : l[p] = s[1 + p - 1]
      BY <2>1, SubSeqProperties
    <2> HIDE DEF l
    <2> QED
      BY <1>1, <2>2, <2>3
  <1>3. r \in Seq(S) /\ Len(r) = n - k /\ \A p \in 1..(n - k) : r[p] = s[k + p]
    <2>1. k + 1 \in Int /\ n \in Int /\ \A i \in (k + 1)..n : s[i] \in S
      BY <1>1
    <2>2. r \in Seq(S)
      BY <2>1, SubSeqProperties
    <2>a. Len(r) = IF k + 1 <= n THEN n - (k + 1) + 1 ELSE 0
      BY <2>1, SubSeqProperties
    <2>b. \A p \in 1..(n - (k + 1) + 1) : r[p] = s[(k + 1) + p - 1]
      BY <2>1, SubSeqProperties
    <2>3. /\ Len(r) = IF k + 1 <= n THEN n - (k + 1) + 1 ELSE 0
          /\ \A p \in 1..(n - (k + 1) + 1) : r[p] = s[(k + 1) + p - 1]
      BY <2>a, <2>b
    <2> HIDE DEF r
    <2>4. n - (k + 1) + 1 = n - k /\ (k + 1 <= n \/ k = n)
      BY <1>1
    <2>5. Len(r) = n - k
      BY <1>1, <2>3, <2>4
    <2>6. \A p \in 1..(n - k) : (k + 1) + p - 1 = k + p
      BY <1>1
    <2> QED
      BY <2>2, <2>3, <2>4, <2>5, <2>6
  <1> HIDE DEF l, r
  <1>4. /\ l \o r \in Seq(S) /\ Len(l \o r) = n - 1
        /\ \A p \in 1..(n - 1) : (l \o r)[p] = IF p <= k - 1 THEN l[p] ELSE r[p - (k - 1)]
    <2>1. /\ l \o r \in Seq(S) /\ Len(l \o r) = Len(l) + Len(r)
          /\ \A p \in 1..(Len(l) + Len(r)) :
               (l \o r)[p] = IF p <= Len(l) THEN l[p] ELSE r[p - Len(l)]
      BY <1>2, <1>3, ConcatProperties
    <2>2. Len(l) = k - 1 /\ Len(l) + Len(r) = n - 1
      BY <1>1, <1>2, <1>3
    <2> QED
      BY <2>1, <2>2
  <1>5. ASSUME NEW p \in 1..(n - 1) PROVE (l \o r)[p] = s[Was(k, p)]
    <2>1. CASE p <= k - 1
      <3>1. p \in 1..(k - 1) /\ Was(k, p) = p
        BY <1>1, <2>1 DEF Was
      <3> QED
        BY <1>2, <1>4, <2>1, <3>1
    <2>2. CASE ~(p <= k - 1)
      <3>1. p - (k - 1) \in 1..(n - k) /\ k + (p - (k - 1)) = p + 1 /\ Was(k, p) = p + 1
        BY <1>1, <2>2 DEF Was
      <3>2. r[p - (k - 1)] = s[k + (p - (k - 1))]
        BY <1>3, <3>1
      <3> QED
        BY <1>4, <2>2, <3>1, <3>2
    <2> QED
      BY <2>1, <2>2
  <1> QED
    BY <1>1, <1>4, <1>5 DEF n

\* The three ways the queue moves: its head goes on, its head suspends, and a task that
\* is cancelled leaves it.
LEMMA LoopMoves ==
  ASSUME runq \in Seq(Tasks), SessionsOnce, NEW wake \in Seq(Tasks), FreshWake(wake)
  PROVE  /\ runq' = runq \o wake =>
              /\ SessionsOnce'
              /\ \A c \in Callers, g \in Sessions :
                   Ahead(c, g) => Ahead(c, g)' /\ (Running(g)' => Running(g))
         /\ runq # <<>> /\ runq' = Tail(runq) \o wake =>
              /\ SessionsOnce'
              /\ \A c \in Callers, g \in Sessions :
                   Ahead(c, g) /\ ~Running(c) => Ahead(c, g)' /\ ~Running(g)'
         /\ \A k \in DOMAIN runq : runq' = RemoveAt(runq, k) \o wake =>
              /\ SessionsOnce'
              /\ \A c \in Callers, g \in Sessions :
                   Ahead(c, g) /\ runq[k] # c => Ahead(c, g)' /\ (Running(g)' => Running(g))
  <1>1. Len(runq) \in Nat /\ DOMAIN runq = 1..Len(runq)
    OBVIOUS
  <1>2. ASSUME runq' = runq \o wake
        PROVE  /\ SessionsOnce'
               /\ \A c \in Callers, g \in Sessions :
                    Ahead(c, g) => Ahead(c, g)' /\ (Running(g)' => Running(g))
    <2> DEFINE k == Len(runq) + 1
    <2>1. k \in Nat \ {0} /\ k \notin DOMAIN runq
      BY <1>1
    <2>2. \A p \in DOMAIN runq : Was(k, p) = p /\ Goes(k, p) = p
      BY <1>1 DEF Was, Goes
    <2> HIDE DEF k
    <2>3. /\ \A p \in DOMAIN runq : Was(k, p) \in DOMAIN runq /\ runq[p] = runq[Was(k, p)]
          /\ \A i \in DOMAIN runq : i # k => Goes(k, i) \in DOMAIN runq
      BY <2>2
    <2>4. /\ SessionsOnce'
          /\ \A c \in Callers, g \in Sessions :
               Ahead(c, g) /\ (k \in DOMAIN runq => runq[k] # c) =>
                 Ahead(c, g)' /\ (Running(g)' => Running(g) /\ k # 1)
      BY <1>2, <2>1, <2>3, QueueMoves
    <2> QED
      BY <2>1, <2>4
  <1>3. ASSUME NEW k \in DOMAIN runq, NEW s \in Seq(Tasks), runq' = s \o wake,
               Len(s) = Len(runq) - 1, \A p \in DOMAIN s : s[p] = runq[Was(k, p)]
        PROVE  /\ SessionsOnce'
               /\ \A c \in Callers, g \in Sessions :
                    Ahead(c, g) /\ runq[k] # c =>
                      Ahead(c, g)' /\ (Running(g)' => Running(g) /\ k # 1)
    <2>1. DOMAIN s = 1..(Len(runq) - 1) /\ k \in Nat \ {0}
      BY <1>1, <1>3
    <2>2. \A p \in DOMAIN s : Was(k, p) \in DOMAIN runq
      BY <1>1, <1>3, <2>1 DEF Was
    <2>3. \A i \in DOMAIN runq : i # k => Goes(k, i) \in DOMAIN s
      BY <1>1, <1>3, <2>1 DEF Goes
    <2> QED
      BY <1>3, <2>1, <2>2, <2>3, QueueMoves
  <1>4. ASSUME runq # <<>>, runq' = Tail(runq) \o wake
        PROVE  /\ SessionsOnce'
               /\ \A c \in Callers, g \in Sessions :
                    Ahead(c, g) /\ ~Running(c) => Ahead(c, g)' /\ ~Running(g)'
    <2> DEFINE s == Tail(runq)
               n == Len(runq)
    <2>1. /\ s \in Seq(Tasks) /\ Len(s) = n - 1
          /\ n \in Nat /\ n >= 1 /\ Head(runq) = runq[1]
          /\ \A p \in 1..(n - 1) : s[p] = runq[p + 1]
      BY <1>1, <1>4, HeadTailProperties
    <2>2. 1 \in DOMAIN runq /\ runq' = s \o wake
      BY <1>1, <1>4, <2>1
    <2> HIDE DEF s, n
    <2>3. \A p \in DOMAIN s : s[p] = runq[Was(1, p)]
      <3>1. DOMAIN s = 1..(n - 1)
        BY <2>1
      <3>2. \A p \in 1..(n - 1) : Was(1, p) = p + 1
        BY <2>1 DEF Was
      <3> QED
        BY <2>1, <3>1, <3>2
    <2>4. /\ SessionsOnce'
          /\ \A c \in Callers, g \in Sessions :
               Ahead(c, g) /\ runq[1] # c => Ahead(c, g)' /\ (Running(g)' => Running(g) /\ 1 # 1)
      BY <1>3, <2>1, <2>2, <2>3 DEF n
    <2>5. \A c : Running(c) <=> runq[1] = c
      BY <1>4, <2>1 DEF Running
    <2> QED
      BY <2>4, <2>5
  <1>5. ASSUME NEW k \in DOMAIN runq, runq' = RemoveAt(runq, k) \o wake
        PROVE  /\ SessionsOnce'
               /\ \A c \in Callers, g \in Sessions :
                    Ahead(c, g) /\ runq[k] # c => Ahead(c, g)' /\ (Running(g)' => Running(g))
    <2> DEFINE s == RemoveAt(runq, k)
    <2>1. /\ s \in Seq(Tasks) /\ Len(s) = Len(runq) - 1
          /\ \A p \in 1..(Len(runq) - 1) : s[p] = runq[Was(k, p)]
      BY RemoveMoves
    <2>2. runq' = s \o wake
      BY <1>5
    <2> HIDE DEF s
    <2>3. \A p \in DOMAIN s : s[p] = runq[Was(k, p)]
      BY <2>1
    <2>4. /\ SessionsOnce'
          /\ \A c \in Callers, g \in Sessions :
               Ahead(c, g) /\ runq[k] # c =>
                 Ahead(c, g)' /\ (Running(g)' => Running(g) /\ k # 1)
      BY <1>3, <2>1, <2>2, <2>3
    <2> QED
      BY <2>4
  <1> QED
    BY <1>2, <1>4, <1>5

\* While a caller is between _ensure and put nobody else moves.
LEMMA NobodyElseHas ==
  ASSUME HaveRuns, NEW c \in Callers, pc[c] = "have"
  PROVE  MidRun /\ \A t \in Tasks : Running(t) => t = c
  BY DEF HaveRuns, MidRun, Running

\* Told callers stay told, and ahead, when only the queue and other tasks move.
LEMMA StillAhead ==
  ASSUME StarterIsAhead, NEW c \in Callers, Told(c), NEW g \in Sessions,
         target[c] = g, target'[c] = g, session'[g] \in Live,
         Ahead(c, g)', Running(g)' => Running(g),
         Running(g)' /\ session[g] = "idle" => session'[g] = "idle"
  PROVE  /\ session'[target'[c]] \in Live
         /\ Ahead(c, target[c])'
         /\ Running(target[c])' => session'[target'[c]] = "idle"
  <1>1. Running(g) => session[g] = "idle"
    BY DEF StarterIsAhead
  <1>2. Ahead(c, target[c])'
    BY DEF Ahead
  <1>3. Running(target[c])' => Running(g)'
    BY DEF Running
  <1> QED
    BY <1>1, <1>2, <1>3

\* A step of a caller that is not told anything, and opens or leaves sessions live.
LEMMA CallerAttends ==
  ASSUME SessionInv, AttendInv, NEW c \in Callers,
         \A d \in Callers : d # c => UNCHANGED <<pc[d], target[d], cancel[d]>>,
         ~Told(c)',
         \A g \in Sessions : /\ session[g] \in Live => session'[g] \in Live
                             /\ session[g] = "idle" => session'[g] = "idle"
                             /\ ready'[g] = "ok" => ready[g] = "ok",
         requests' = requests \/ SomeLive,
         NEW wake \in Seq(Tasks), FreshWake(wake),
         \/ Running(c) /\ runq' = Tail(runq) \o wake /\ pc'[c] # "have"
         \/ Running(c) /\ runq' = runq \o wake /\ (pc'[c] = "have" => SomeLive)
         \/ ~MidRun /\ runq' = runq \o wake /\ pc'[c] # "have"
         \/ /\ ~MidRun /\ pc'[c] # "have"
            /\ \E k \in DOMAIN runq : runq[k] = c /\ runq' = RemoveAt(runq, k) \o wake
  PROVE  AttendInv'
  <1>0. /\ runq \in Seq(Tasks) /\ SessionsOnce /\ c \in Tasks
        /\ target \in [Callers -> Sessions \cup {NoSession}]
    BY DEF SessionInv, TypeOK, Tasks, AttendInv
  <1>1. SomeLive => SomeLive'
    BY DEF SomeLive
  <1>2. Running(c) => \A d \in Callers : d # c => ~Running(d)
    BY DEF Running
  \* The others that were told stay ahead of their session.
  <1>3. /\ SessionsOnce'
        /\ \A d \in Callers, g \in Sessions : d # c /\ Ahead(d, g) =>
             Ahead(d, g)' /\ (Running(g)' => Running(g))
    <2>1. CASE runq' = runq \o wake
      BY <1>0, <2>1, LoopMoves
    <2>2. CASE Running(c) /\ runq' = Tail(runq) \o wake
      <3>1. runq # <<>>
        BY <2>2 DEF Running
      <3> QED
        BY <1>0, <1>2, <2>2, <3>1, LoopMoves
    <2>3. CASE \E k \in DOMAIN runq : runq[k] = c /\ runq' = RemoveAt(runq, k) \o wake
      <3>1. PICK k \in DOMAIN runq : runq[k] = c /\ runq' = RemoveAt(runq, k) \o wake
        BY <2>3
      <3> QED
        BY <1>0, <3>1, LoopMoves
    <2> QED
      BY <2>1, <2>2, <2>3
  <1>4. HaveRuns'
    <2> SUFFICES ASSUME NEW d \in Callers, pc'[d] = "have" PROVE Running(d)' /\ SomeLive'
      BY DEF HaveRuns
    <2>1. d = c
      <3> SUFFICES ASSUME d # c PROVE FALSE
        OBVIOUS
      <3>1. pc[d] = "have"
        OBVIOUS
      <3> QED
        BY <1>0, <3>1, NobodyElseHas DEF AttendInv
    <2>2. Running(c) /\ runq' = runq \o wake /\ SomeLive
      BY <2>1
    <2>3. Running(c)'
      <3>1. runq # <<>> /\ Head(runq) = c /\ Len(runq) \in Nat /\ Len(runq) >= 1
        BY <1>0, <2>2 DEF Running
      <3>2. runq' \in Seq(Tasks) /\ Len(runq') >= 1 /\ runq'[1] = runq[1]
        BY <1>0, <2>2, <3>1, ConcatProperties
      <3> QED
        BY <1>0, <3>1, <3>2, HeadTailProperties DEF Running
    <2> QED
      BY <1>1, <2>1, <2>2, <2>3
  <1>5. StarterIsAhead'
    <2> SUFFICES ASSUME NEW d \in Callers, Told(d)'
                 PROVE  /\ session'[target'[d]] \in Live
                        /\ Ahead(d, target[d])'
                        /\ Running(target[d])' => session'[target'[d]] = "idle"
      BY DEF StarterIsAhead
    <2>1. d # c /\ target'[d] = target[d] /\ pc[d] = "ready" /\ cancel[d] # "asked"
          /\ ready'[target[d]] = "ok"
      BY DEF Told
    <2>2. target[d] \in Sessions
      BY <2>1 DEF SessionInv, StarterHoldsLock
    <2>3. Told(d)
      BY <2>1, <2>2 DEF Told
    <2>4. PICK g \in Sessions : g = target[d]
      BY <2>2
    <2>5. Ahead(d, g) /\ session[g] \in Live
      BY <2>3, <2>4 DEF AttendInv, StarterIsAhead
    <2>6. /\ Ahead(d, g)' /\ (Running(g)' => Running(g)) /\ session'[g] \in Live
          /\ session[g] = "idle" => session'[g] = "idle"
      BY <1>3, <2>1, <2>5
    <2> QED
      BY <2>1, <2>3, <2>4, <2>6, StillAhead DEF AttendInv
  <1>6. QueueIsAttended'
    <2>1. QueueIsAttended <=> (requests # <<>> => SomeLive)
      BY DEF QueueIsAttended, SomeLive
    <2>2. requests' # <<>> => SomeLive'
      BY <1>1, <2>1 DEF AttendInv
    <2> QED
      BY <2>2 DEF QueueIsAttended, SomeLive
  <1> QED
    BY <1>3, <1>4, <1>5, <1>6 DEF AttendInv

\* A step of a session that tells nobody, and ends only once the queue is empty.
LEMMA SessionAttends ==
  ASSUME SessionInv, AttendInv, NEW g \in Sessions, UNCHANGED <<pc, target, cancel>>,
         \A h \in Sessions : /\ h # g => session'[h] = session[h]
                             /\ ready'[h] = "ok" => ready[h] = "ok",
         \/ session'[g] \in Live
         \/ session'[g] = session[g]
         \/ Running(g) /\ session[g] = "draining" /\ requests' = <<>>,
         requests' # <<>> => requests # <<>>,
         NEW wake \in Seq(Tasks), FreshWake(wake),
         \/ Running(g) /\ runq' = Tail(runq) \o wake
         \/ /\ Running(g) /\ runq' = runq \o wake
            /\ session[g] = "idle" => session'[g] = "idle"
         \/ ~MidRun /\ Blocked(g) /\ runq' = runq \o wake
  PROVE  AttendInv'
  <1>0. runq \in Seq(Tasks) /\ SessionsOnce /\ g \in Tasks /\ g \notin Callers
    <2>1. runq \in Seq(Tasks) /\ SessionsOnce /\ g \in Tasks
      BY DEF SessionInv, TypeOK, Tasks, AttendInv
    <2>2. g \notin Callers
      BY WorkerAssumption DEF Sessions
    <2> QED
      BY <2>1, <2>2
  <1>1. Running(g) => \A t : t # g => ~Running(t)
    BY DEF Running
  <1>2. Blocked(g) => ~Running(g)
    <2> SUFFICES ASSUME Running(g) PROVE ~Blocked(g)
      OBVIOUS
    <2>1. 1 \in DOMAIN runq /\ runq[1] = g
      BY <1>0 DEF Running
    <2> QED
      BY <2>1 DEF Blocked, ToSet
  <1>3. /\ SessionsOnce'
        /\ \A d \in Callers, h \in Sessions : Ahead(d, h) =>
             Ahead(d, h)' /\ (Running(h)' => Running(h))
        /\ \A d \in Callers : Ahead(d, g) /\ Running(g)' =>
             (session[g] = "idle" => session'[g] = "idle")
    <2>1. CASE /\ runq' = runq \o wake
               /\ Blocked(g) \/ (session[g] = "idle" => session'[g] = "idle")
      BY <1>0, <1>2, <2>1, LoopMoves
    <2>2. CASE Running(g) /\ runq' = Tail(runq) \o wake
      <3>1. runq # <<>> /\ \A d \in Callers : ~Running(d)
        BY <1>0, <1>1, <2>2 DEF Running
      <3> QED
        BY <1>0, <2>2, <3>1, LoopMoves
    <2> QED
      BY <2>1, <2>2
  <1>4. \A c \in Callers : pc[c] # "have"
    BY <1>0, NobodyElseHas DEF AttendInv
  <1>5. StarterIsAhead'
    <2> SUFFICES ASSUME NEW d \in Callers, Told(d)'
                 PROVE  /\ session'[target'[d]] \in Live
                        /\ Ahead(d, target[d])'
                        /\ Running(target[d])' => session'[target'[d]] = "idle"
      BY DEF StarterIsAhead
    <2>1. target'[d] = target[d] /\ pc[d] = "ready" /\ cancel[d] # "asked"
          /\ ready'[target[d]] = "ok"
      BY DEF Told
    <2>2. target[d] \in Sessions
      BY <2>1 DEF SessionInv, StarterHoldsLock
    <2>3. Told(d)
      BY <2>1, <2>2 DEF Told
    <2>4. PICK h \in Sessions : h = target[d]
      BY <2>2
    <2>5. Ahead(d, h) /\ session[h] \in Live /\ (Running(h) => session[h] = "idle")
      BY <2>3, <2>4 DEF AttendInv, StarterIsAhead
    <2>6. Ahead(d, h)' /\ (Running(h)' => Running(h))
      BY <1>3, <2>5
    <2>7. session'[h] \in Live
      BY <2>5
    <2>8. Running(h)' /\ session[h] = "idle" => session'[h] = "idle"
      <3>1. CASE h = g
        <4>1. Running(h)' => Running(g)' /\ Running(g)
          BY <2>6, <3>1 DEF Running
        <4>2. Ahead(d, g)
          BY <2>5, <3>1 DEF Ahead
        <4> QED
          BY <1>3, <3>1, <4>1, <4>2
      <3>2. CASE h # g
        BY <3>2
      <3> QED
        BY <3>1, <3>2
    <2> QED
      BY <2>1, <2>3, <2>4, <2>6, <2>7, <2>8, StillAhead DEF AttendInv
  <1>6. QueueIsAttended'
    <2> SUFFICES ASSUME requests' # <<>> PROVE \E h \in Sessions : session'[h] \in Live
      BY DEF QueueIsAttended
    <2>1. PICK h \in Sessions : session[h] \in Live
      BY DEF AttendInv, QueueIsAttended
    <2> QED
      BY <2>1
  <1>7. HaveRuns'
    BY <1>4 DEF HaveRuns
  <1> QED
    BY <1>3, <1>5, <1>6, <1>7 DEF AttendInv

\* Waking nobody.
LEMMA NoWake ==
  ASSUME TypeOK
  PROVE  /\ << >> \in Seq(Tasks) /\ FreshWake(<< >>) /\ runq \o << >> = runq
         /\ runq # <<>> => Tail(runq) \o << >> = Tail(runq)
         /\ \A k \in DOMAIN runq : RemoveAt(runq, k) \o << >> = RemoveAt(runq, k)
         /\ \A t \in Tasks : Append(runq, t) = runq \o <<t>>
  <1>1. runq \in Seq(Tasks)
    BY DEF TypeOK, Tasks
  <1>2. << >> \in Seq(Tasks) /\ FreshWake(<< >>)
    BY CallersAreFresh
  <1>3. runq \o << >> = runq /\ (runq # <<>> => Tail(runq) \o << >> = Tail(runq))
    <2>1. runq # <<>> => Tail(runq) \in Seq(Tasks)
      BY <1>1, HeadTailProperties
    <2> QED
      BY <1>1, <2>1, ConcatEmptySeq
  <1>4. \A k \in DOMAIN runq : RemoveAt(runq, k) \o << >> = RemoveAt(runq, k)
    BY <1>1, RemoveMoves, ConcatEmptySeq
  <1>5. \A t \in Tasks : Append(runq, t) = runq \o <<t>>
    BY <1>1, AppendIsConcat
  <1> QED
    BY <1>2, <1>3, <1>4, <1>5

\* A task that is not in the queue may be woken, alone or behind a caller.
LEMMA OneWoken ==
  ASSUME NEW t \in Tasks, Blocked(t)
  PROVE  /\ <<t>> \in Seq(Tasks) /\ FreshWake(<<t>>) /\ << >> \o <<t>> = <<t>>
         /\ \A d \in Callers : <<d>> \o <<t>> \in Seq(Tasks) /\ FreshWake(<<d>> \o <<t>>)
  <1>1. <<t>> \in Seq(Tasks) /\ Len(<<t>>) = 1 /\ <<t>>[1] = t
    OBVIOUS
  <1>2. FreshWake(<<t>>) /\ << >> \o <<t>> = <<t>>
    <2>1. DOMAIN <<t>> = {1}
      BY <1>1
    <2> QED
      BY <1>1, <2>1, ConcatEmptySeq DEF FreshWake
  <1>3. ASSUME NEW d \in Callers
        PROVE  <<d>> \o <<t>> \in Seq(Tasks) /\ FreshWake(<<d>> \o <<t>>)
    <2> DEFINE s == <<d>> \o <<t>>
    <2>1. <<d>> \in Seq(Tasks) /\ Len(<<d>>) = 1 /\ <<d>>[1] = d
      BY DEF Tasks
    <2>2. s \in Seq(Tasks) /\ Len(s) = 2 /\ s[1] = d /\ s[2] = t
      BY <1>1, <2>1, ConcatProperties
    <2> HIDE DEF s
    <2>3. DOMAIN s = {1, 2}
      BY <2>2
    <2>4. d \notin Sessions
      BY WorkerAssumption DEF Sessions
    <2> QED
      BY <2>2, <2>3, <2>4 DEF FreshWake, s
  <1> QED
    BY <1>1, <1>2, <1>3

\* A step of a caller that leaves the sessions as they are.
LEMMA CallerAlone ==
  ASSUME SessionInv, AttendInv, NEW c \in Callers, UNCHANGED <<session, ready>>,
         \A d \in Callers : d # c => UNCHANGED <<pc[d], target[d], cancel[d]>>,
         pc'[c] # "ready", requests' = requests \/ SomeLive,
         NEW wake \in Seq(Tasks), FreshWake(wake),
         \/ Running(c) /\ runq' = Tail(runq) \o wake /\ pc'[c] # "have"
         \/ Running(c) /\ runq' = runq \o wake /\ (pc'[c] = "have" => SomeLive)
         \/ ~MidRun /\ runq' = runq \o wake /\ pc'[c] # "have"
         \/ /\ ~MidRun /\ pc'[c] # "have"
            /\ \E k \in DOMAIN runq : runq[k] = c /\ runq' = RemoveAt(runq, k) \o wake
  PROVE  AttendInv'
  <1>1. ~Told(c)'
    BY DEF Told
  <1> QED
    BY <1>1, CallerAttends

\* Each action of a caller keeps the queue attended.
LEMMA CallerIsAttended ==
  ASSUME SessionInv, AttendInv, NEW c \in Callers, CallerStep(c) \/ Call(c)
  PROVE  AttendInv'
  <1>0. /\ TypeOK /\ pc \in [Callers -> PcValues]
        /\ target \in [Callers -> Sessions \cup {NoSession}]
        /\ cancel \in [Callers -> {"no", "asked", "seen"}]
        /\ session \in [Sessions -> Live \cup {"none", "done"}]
        /\ ready \in [Sessions -> {"pending", "ok", "failed", "cancelled"}]
        /\ c \in Tasks
    BY DEF SessionInv, TypeOK, PcValues, Tasks
  <1>w. /\ LockWake \in Seq(Tasks) /\ FreshWake(LockWake)
        /\ << >> \in Seq(Tasks) /\ FreshWake(<< >>)
        /\ <<c>> \in Seq(Tasks) /\ FreshWake(<<c>>)
        /\ runq \o << >> = runq /\ Append(runq, c) = runq \o <<c>>
        /\ runq # <<>> => Tail(runq) \o << >> = Tail(runq)
    BY <1>0, CallersAreFresh, NoWake
  <1>1. CASE Call(c)
    <2>1. /\ ~MidRun /\ runq' = runq \o <<c>> /\ pc'[c] = "ensure"
          /\ \A d \in Callers : d # c => UNCHANGED <<pc[d], target[d], cancel[d]>>
          /\ UNCHANGED <<session, ready, requests>>
      BY <1>0, <1>w, <1>1 DEF Call, sessionVars
    <2> QED
      BY <1>w, <2>1, CallerAlone
  <1>2. CASE Acquire(c) \/ Enqueue(c)
    <2>1. /\ Running(c) /\ pc[c] \in {"ensure", "close"}
          /\ UNCHANGED <<pc, target, cancel, session, ready, requests>>
          /\ runq' = runq \o << >> \/ runq' = Tail(runq) \o << >>
      BY <1>w, <1>2 DEF Acquire, Enqueue, AtLock, Suspend, Running, callerVars, sessionVars
    <2> QED
      BY <1>w, <2>1, CallerAlone
  <1>3. CASE EnsureAlive(c)
    <2>1. /\ Running(c) /\ runq' = runq \o LockWake /\ pc'[c] = "have" /\ Alive
          /\ \A d \in Callers : d # c => UNCHANGED <<pc[d], target[d], cancel[d]>>
          /\ UNCHANGED <<session, ready, requests>>
      BY <1>0, <1>3 DEF EnsureAlive, InEnsure, KeepRunning, sessionVars
    <2>2. SomeLive
      BY <1>0, <2>1 DEF Alive, SomeLive, TypeOK
    <2> QED
      BY <1>w, <2>1, <2>2, CallerAlone
  <1>4. CASE EnsurePoisoned(c)
    <2>1. /\ Running(c) /\ runq' = Tail(runq) \o LockWake /\ pc'[c] = "cancelled"
          /\ \A d \in Callers : d # c => UNCHANGED <<pc[d], target[d], cancel[d]>>
          /\ UNCHANGED <<session, ready, requests>>
      BY <1>0, <1>4 DEF EnsurePoisoned, InEnsure, SuspendAnd, sessionVars
    <2> QED
      BY <1>w, <2>1, CallerAlone
  <1>5. CASE EnsureStart(c)
    <2> DEFINE n == started + 1
    <2>1. /\ Running(c) /\ runq' = Tail(runq) \o << >> /\ pc'[c] = "ready" /\ target'[c] = n
          /\ session' = [session EXCEPT ![n] = "starting"] /\ started < MaxSessions
          /\ \A d \in Callers : d # c => UNCHANGED <<pc[d], target[d], cancel[d]>>
          /\ UNCHANGED <<ready, requests>>
      BY <1>0, <1>w, <1>5 DEF EnsureStart, InEnsure, Suspend, Running
    <2>2. n \in Sessions /\ session[n] = "none" /\ ready[n] = "pending"
      <3>1. started \in Nat /\ MaxSessions \in Nat
        BY <1>0, WorkerAssumption DEF TypeOK
      <3>2. n \in Sessions /\ n > started
        BY <2>1, <3>1 DEF Sessions
      <3> QED
        BY <3>2 DEF SessionInv, FutureSessionsFresh
    <2> HIDE DEF n
    <2>3. ~Told(c)'
      BY <2>1, <2>2 DEF Told
    <2>4. \A g \in Sessions : /\ session[g] \in Live => session'[g] \in Live
                              /\ session[g] = "idle" => session'[g] = "idle"
                              /\ ready'[g] = "ok" => ready[g] = "ok"
      BY <1>0, <2>1, <2>2 DEF Live
    <2> QED
      BY <1>w, <2>1, <2>3, <2>4, CallerAttends
  <1>6. CASE AfterReady(c)
    <2>1. /\ Running(c) /\ pc[c] = "ready" /\ pc'[c] = ReadyEnd(c)
          /\ \A d \in Callers : d # c => UNCHANGED <<pc[d], target[d], cancel[d]>>
          /\ UNCHANGED <<session, ready, requests>>
          /\ runq' = IF ReadyEnd(c) = "have" THEN runq \o LockWake ELSE Tail(runq) \o LockWake
      BY <1>0, <1>6 DEF AfterReady, KeepRunning, SuspendAnd, sessionVars
    <2>2. /\ ReadyEnd(c) \in {"have", "error", "cancelled"}
          /\ ReadyEnd(c) = "have" => Told(c)
      BY <2>1 DEF ReadyEnd, Told
    <2>3. ReadyEnd(c) = "have" => SomeLive
      <3>1. target[c] \in Sessions
        BY <2>1 DEF SessionInv, StarterHoldsLock
      <3> QED
        BY <2>2, <3>1 DEF AttendInv, StarterIsAhead, SomeLive
    <2> QED
      BY <1>w, <2>1, <2>2, <2>3, CallerAlone
  <1>7. CASE ToolsReturn(c)
    <2>1. /\ Running(c)
          /\ \/ runq' = Tail(runq) \o << >> /\ pc' = [pc EXCEPT ![c] = "ok"]
             \/ runq' = runq \o << >> /\ pc' = [pc EXCEPT ![c] = "ensure"]
          /\ UNCHANGED <<target, cancel, session, ready, requests>>
      BY <1>w, <1>7 DEF ToolsReturn, Suspend, Running, sessionVars
    <2>2. /\ pc'[c] \in {"ok", "ensure"}
          /\ \A d \in Callers : d # c => UNCHANGED <<pc[d], target[d], cancel[d]>>
      BY <1>0, <2>1
    <2> QED
      BY <1>w, <2>1, <2>2, CallerAlone
  <1>8. CASE PutRequest(c)
    <2>1. /\ Running(c) /\ runq' = Tail(runq) \o PutWake /\ pc[c] = "have" /\ pc'[c] = "wait"
          /\ \A d \in Callers : d # c => UNCHANGED <<pc[d], target[d], cancel[d]>>
          /\ UNCHANGED <<session, ready>>
      BY <1>0, <1>8 DEF PutRequest, SuspendAnd, sessionVars
    <2>2. SomeLive
      BY <2>1 DEF AttendInv, HaveRuns
    <2>3. PutWake \in Seq(Tasks) /\ FreshWake(PutWake)
      <3>1. CASE Getters = {}
        BY <1>w, <3>1 DEF PutWake
      <3>2. CASE Getters # {}
        <4>1. PICK g \in Getters : PutWake = <<g>>
          BY <3>2 DEF PutWake
        <4>2. g \in Tasks /\ Blocked(g)
          BY DEF Getters, Tasks
        <4> QED
          BY <4>1, <4>2, OneWoken
      <3> QED
        BY <3>1, <3>2
    <2> QED
      BY <2>1, <2>2, <2>3, CallerAlone
  <1>9. CASE AfterWait(c)
    <2>1. /\ Running(c)
          /\ \/ runq' = Tail(runq) \o << >>
             \/ runq' = runq \o << >>
          /\ \E value \in {"cancelled", "ok", "close"} : pc' = [pc EXCEPT ![c] = value]
          /\ \A d \in Callers : d # c => UNCHANGED <<target[d], cancel[d]>>
          /\ UNCHANGED <<session, ready, requests>>
      BY <1>0, <1>w, <1>9 DEF AfterWait, Suspend, Running, sessionVars
    <2>2. /\ pc'[c] \in {"cancelled", "ok", "close"}
          /\ \A d \in Callers : d # c => UNCHANGED <<pc[d], target[d], cancel[d]>>
      BY <1>0, <2>1
    <2> QED
      BY <1>w, <2>1, <2>2, CallerAlone
  <1>10. CASE Aclose(c)
    <2>1. /\ Running(c) /\ pc'[c] \in {"join", "closed"}
          /\ \A d \in Callers : d # c => UNCHANGED <<pc[d], target[d], cancel[d]>>
          /\ UNCHANGED <<session, ready, requests>>
      BY <1>0, <1>10 DEF Aclose
    <2>2. CASE Alive /\ Blocked(task)
      <3>1. runq' = Tail(runq) \o (LockWake \o <<task>>)
        BY <1>10, <2>2 DEF Aclose, SuspendAnd
      <3>2. task \in Sessions
        BY <1>0, <2>2 DEF Alive, TypeOK
      <3>3. LockWake \in Seq(Callers) /\ (LockWake = << >> \/ \E d \in Callers : LockWake = <<d>>)
        <4>1. waiters \in Seq(Callers)
          BY <1>0 DEF TypeOK
        <4>2. waiters # <<>> => Head(waiters) \in Callers
          BY <4>1, HeadTailProperties
        <4> QED
          BY <1>0, <4>2, CallersAreFresh DEF LockWake
      <3>4. LockWake \o <<task>> \in Seq(Tasks) /\ FreshWake(LockWake \o <<task>>)
        <4>1. task \in Tasks /\ Blocked(task)
          BY <2>2, <3>2 DEF Tasks
        <4> QED
          BY <3>3, <4>1, OneWoken
      <3> QED
        BY <2>1, <3>1, <3>4, CallerAlone
    <2>3. CASE ~(Alive /\ Blocked(task))
      <3>1. runq' = Tail(runq) \o LockWake \/ runq' = runq \o LockWake
        <4>1. LockWake \o << >> = LockWake
          BY <1>w, ConcatEmptySeq
        <4> QED
          BY <1>10, <2>3, <4>1 DEF Aclose, SuspendAnd, KeepRunning
      <3> QED
        BY <1>w, <2>1, <3>1, CallerAlone
    <2> QED
      BY <2>2, <2>3
  <1>11. CASE AfterJoin(c)
    <2>1. /\ Running(c) /\ runq' = runq \o << >> /\ pc'[c] = "closed"
          /\ \A d \in Callers : d # c => UNCHANGED <<pc[d], target[d], cancel[d]>>
          /\ UNCHANGED <<session, ready, requests>>
      BY <1>0, <1>w, <1>11 DEF AfterJoin, sessionVars
    <2> QED
      BY <1>w, <2>1, CallerAlone
  <1>12. CASE Retry(c)
    <2>1. /\ Running(c)
          /\ \/ runq' = Tail(runq) \o << >> /\ pc' = [pc EXCEPT ![c] = "error"]
             \/ runq' = runq \o << >> /\ pc' = [pc EXCEPT ![c] = "ensure"]
          /\ UNCHANGED <<target, cancel, session, ready, requests>>
      BY <1>w, <1>12 DEF Retry, Suspend, Running, sessionVars
    <2>2. /\ pc'[c] \in {"error", "ensure"}
          /\ \A d \in Callers : d # c => UNCHANGED <<pc[d], target[d], cancel[d]>>
      BY <1>0, <2>1
    <2> QED
      BY <1>w, <2>1, <2>2, CallerAlone
  <1> QED
    BY <1>1, <1>2, <1>3, <1>4, <1>5, <1>6, <1>7, <1>8, <1>9, <1>10, <1>11, <1>12 DEF CallerStep

\* Cancelling a caller keeps the queue attended.
LEMMA CancelIsAttended ==
  ASSUME SessionInv, AttendInv, NEW c \in Callers, Cancel(c)
  PROVE  AttendInv'
  <1>0. /\ TypeOK /\ pc \in [Callers -> PcValues] /\ ~MidRun
        /\ cancel \in [Callers -> {"no", "asked", "seen"}]
        /\ ready \in [Sessions -> {"pending", "ok", "failed", "cancelled"}]
    BY DEF SessionInv, TypeOK, PcValues, Cancel
  <1>w. /\ << >> \in Seq(Tasks) /\ FreshWake(<< >>) /\ runq \o << >> = runq
        /\ <<c>> \in Seq(Tasks) /\ FreshWake(<<c>>) /\ Append(runq, c) = runq \o <<c>>
    BY <1>0, CallersAreFresh, NoWake DEF Tasks
  <1>1. CASE CancelAtLock(c)
    <2>1. /\ pc'[c] = "cancelled" /\ UNCHANGED <<session, ready, requests, target>>
          /\ \A d \in Callers : d # c => UNCHANGED <<pc[d], target[d], cancel[d]>>
      BY <1>0, <1>1 DEF CancelAtLock, sessionVars
    <2>2. CASE Blocked(c)
      <3>1. runq' = runq \o << >>
        BY <1>w, <1>1, <2>2 DEF CancelAtLock
      <3> QED
        BY <1>0, <1>w, <2>1, <3>1, CallerAlone
    <2>3. CASE ~Blocked(c)
      <3> DEFINE wake == IF Len(waiters) > 1 THEN <<waiters[2]>> ELSE <<>>
      <3>1. \E k \in DOMAIN runq : runq[k] = c /\ runq' = RemoveAt(runq, k) \o wake
        BY <1>1, <2>3 DEF CancelAtLock
      <3>2. wake \in Seq(Callers)
        <4>1. waiters \in Seq(Callers) /\ (Len(waiters) > 1 => waiters[2] \in Callers)
          BY <1>0 DEF TypeOK
        <4> QED
          BY <4>1, CallersAreFresh
      <3> HIDE DEF wake
      <3>3. wake \in Seq(Tasks) /\ FreshWake(wake)
        BY <3>2, CallersAreFresh
      <3> QED
        BY <1>0, <2>1, <3>1, <3>3, CallerAlone
    <2> QED
      BY <2>2, <2>3
  <1>2. CASE CancelAtAwait(c)
    <2>1. /\ pc[c] \in {"ready", "wait", "join"} /\ UNCHANGED <<pc, target, session, requests>>
          /\ cancel'[c] = "asked" /\ \A d \in Callers : d # c => cancel'[d] = cancel[d]
          /\ runq' = runq \o <<c>> \/ runq' = runq \o << >>
      BY <1>0, <1>w, <1>2 DEF CancelAtAwait, lockVars
    <2>2. \A g \in Sessions : ready'[g] = "ok" => ready[g] = "ok"
      <3>1. \/ ready' = ready
            \/ ready' = [ready EXCEPT ![target[c]] = "cancelled"]
        BY <1>2 DEF CancelAtAwait
      <3> QED
        BY <1>0, <3>1
    <2>3. ~Told(c)'
      BY <2>1 DEF Told
    <2> QED
      BY <1>0, <1>w, <2>1, <2>2, <2>3, CallerAttends
  <1> QED
    BY <1>1, <1>2 DEF Cancel

\* A session that has started puts the caller that awaits it in the queue at once.
LEMMA StartIsAttended ==
  ASSUME SessionInv, AttendInv, NEW g \in Sessions, StartOk(g), ready[g] = "pending"
  PROVE  AttendInv'
  <1>0. /\ TypeOK /\ runq \in Seq(Tasks) /\ SessionsOnce
        /\ session \in [Sessions -> Live \cup {"none", "done"}]
    BY DEF SessionInv, TypeOK, Tasks, AttendInv
  <1>1. /\ Running(g) /\ session[g] = "starting" /\ session' = [session EXCEPT ![g] = "idle"]
        /\ UNCHANGED <<pc, target, cancel, requests>>
        /\ \/ runq' = Tail(runq) \o WakeOne(Starter(g))
           \/ runq' = runq \o WakeOne(Starter(g))
    BY DEF StartOk, Awake, SuspendAnd, KeepRunning, callerVars
  <1>2. PICK c \in Callers : lock = c /\ pc[c] = "ready" /\ target[c] = g
    BY <1>1 DEF SessionInv, StartingIsHeld
  <1>3. \A d \in Callers : pc[d] = "ready" => d = c
    BY <1>2 DEF SessionInv, StarterHoldsLock
  <1>4. WakeOne(Starter(g)) = <<c>>
    <2>1. Starter(g) = {c}
      BY <1>2, <1>3 DEF Starter
    <2>2. (CHOOSE x \in {c} : TRUE) = c
      OBVIOUS
    <2> QED
      BY <2>1, <2>2 DEF WakeOne
  <1>5. /\ <<c>> \in Seq(Tasks) /\ FreshWake(<<c>>) /\ Len(<<c>>) = 1 /\ <<c>>[1] = c
        /\ c \notin Sessions /\ c # g
    <2> DEFINE w == <<c>>
    <2>1. w \in Seq(Callers) /\ Len(w) = 1 /\ w[1] = c
      OBVIOUS
    <2> HIDE DEF w
    <2>2. w \in Seq(Tasks) /\ FreshWake(w)
      BY <2>1, CallersAreFresh
    <2>3. c \notin Sessions
      BY WorkerAssumption DEF Sessions
    <2> QED
      BY <2>1, <2>2, <2>3 DEF w
  <1>6. /\ runq # <<>> /\ Len(runq) \in Nat /\ Len(runq) >= 1 /\ runq[1] = g
        /\ DOMAIN runq = 1..Len(runq)
    BY <1>0, <1>1 DEF Running
  <1>7. SessionsOnce'
    <2> DEFINE w == <<c>>
    <2>1. w \in Seq(Tasks) /\ FreshWake(w)
      BY <1>5
    <2>2. WakeOne(Starter(g)) = w
      BY <1>4
    <2> HIDE DEF w
    <2>3. runq' = Tail(runq) \o w \/ runq' = runq \o w
      BY <1>1, <2>2
    <2>4. CASE runq' = runq \o w
      BY <1>0, <2>1, <2>4, LoopMoves
    <2>5. CASE runq' = Tail(runq) \o w
      <3>1. runq # <<>>
        BY <1>6
      <3> QED
        BY <1>0, <2>1, <2>5, <3>1, LoopMoves
    <2> QED
      BY <2>3, <2>4, <2>5
  <1>8. Ahead(c, g)'
    <2>1. CASE runq' = runq \o <<c>>
      <3>1. /\ DOMAIN runq' = 1..(Len(runq) + 1) /\ runq'[Len(runq) + 1] = c /\ runq'[1] = g
        BY <1>0, <1>5, <1>6, <2>1, ConcatProperties
      <3>2. 1 \in DOMAIN runq' /\ Len(runq) + 1 \in DOMAIN runq'
        BY <1>6, <3>1
      <3>3. \A j \in DOMAIN runq' : runq'[j] = g => j = 1
        BY <1>7, <3>1, <3>2 DEF SessionsOnce
      <3> QED
        BY <3>1, <3>2, <3>3 DEF Ahead
    <2>2. CASE runq' = Tail(runq) \o <<c>>
      <3> DEFINE n == Len(runq)
      <3>0. n \in Nat /\ n >= 1 /\ DOMAIN runq = 1..n
        BY <1>6
      <3>1. /\ Tail(runq) \in Seq(Tasks) /\ Len(Tail(runq)) = n - 1
            /\ \A p \in 1..(n - 1) : Tail(runq)[p] = runq[p + 1]
        BY <1>0, <1>6, HeadTailProperties
      <3> HIDE DEF n
      <3>2. /\ DOMAIN runq' = 1..n /\ runq'[n] = c
            /\ \A p \in 1..(n - 1) : runq'[p] = runq[p + 1]
        <4>1. /\ runq' \in Seq(Tasks) /\ Len(runq') = (n - 1) + 1
              /\ \A p \in 1..((n - 1) + 1) : runq'[p] =
                   IF p <= n - 1 THEN Tail(runq)[p] ELSE <<c>>[p - (n - 1)]
          BY <1>5, <2>2, <3>1, ConcatProperties
        <4>2. (n - 1) + 1 = n /\ n - (n - 1) = 1 /\ ~(n <= n - 1) /\ n \in 1..n
          BY <3>0
        <4>3. DOMAIN runq' = 1..n /\ runq'[n] = c
          BY <1>5, <4>1, <4>2
        <4>4. \A p \in 1..(n - 1) : p \in 1..((n - 1) + 1) /\ p <= n - 1
          BY <3>0
        <4> QED
          BY <3>1, <4>1, <4>3, <4>4
      <3>3. ASSUME NEW j \in 1..n PROVE runq'[j] # g
        <4>1. CASE j = n
          BY <1>5, <3>2, <4>1
        <4>2. CASE j # n
          <5>1. j \in 1..(n - 1) /\ j + 1 \in 1..n /\ j + 1 # 1 /\ 1 \in 1..n
            BY <3>0, <3>3, <4>2
          <5>2. runq'[j] = runq[j + 1]
            BY <3>2, <5>1
          <5> QED
            BY <1>0, <1>6, <3>0, <5>1, <5>2 DEF SessionsOnce
        <4> QED
          BY <4>1, <4>2
      <3>4. n \in DOMAIN runq'
        BY <3>0, <3>2
      <3> QED
        BY <3>2, <3>3, <3>4 DEF Ahead
    <2> QED
      BY <1>1, <1>4, <2>1, <2>2
  <1>9. HaveRuns'
    <2>1. g \in Tasks /\ g \notin Callers
      BY WorkerAssumption DEF Tasks, Sessions
    <2>2. \A d \in Callers : pc[d] # "have"
      BY <1>1, <2>1, NobodyElseHas DEF AttendInv
    <2> QED
      BY <1>1, <2>2 DEF HaveRuns
  <1>10. StarterIsAhead'
    <2> SUFFICES ASSUME NEW d \in Callers, Told(d)'
                 PROVE  /\ session'[target'[d]] \in Live
                        /\ Ahead(d, target[d])'
                        /\ Running(target[d])' => session'[target'[d]] = "idle"
      BY DEF StarterIsAhead
    <2>1. d = c /\ target'[d] = g
      BY <1>1, <1>2, <1>3 DEF Told
    <2>2. Ahead(d, target[d])'
      BY <1>8, <2>1 DEF Ahead
    <2>3. session'[g] = "idle"
      BY <1>0, <1>1
    <2> QED
      BY <2>1, <2>2, <2>3 DEF Live
  <1>11. QueueIsAttended'
    BY <1>0, <1>1 DEF QueueIsAttended, Live
  <1> QED
    BY <1>7, <1>9, <1>10, <1>11 DEF AttendInv

\* Each step of a session keeps the queue attended.
LEMMA SessionIsAttended ==
  ASSUME SessionInv, AttendInv, NEW g \in Sessions, SessionStep(g) \/ Io(g) \/ DieIdle(g)
  PROVE  AttendInv'
  <1>0. /\ TypeOK /\ session \in [Sessions -> Live \cup {"none", "done"}]
        /\ ready \in [Sessions -> {"pending", "ok", "failed", "cancelled"}]
        /\ requests \in Seq(Callers) /\ g \in Tasks
    BY DEF SessionInv, TypeOK, Tasks
  <1>w. /\ << >> \in Seq(Tasks) /\ FreshWake(<< >>) /\ runq \o << >> = runq
        /\ runq # <<>> => Tail(runq) \o << >> = Tail(runq)
        /\ \A c \in Callers : <<c>> \in Seq(Tasks) /\ FreshWake(<<c>>)
        /\ session[g] = "serving" => ResolveWake(g) \in Seq(Tasks) /\ FreshWake(ResolveWake(g))
        /\ requests # <<>> => Head(requests) \in Callers
    <2>1. session[g] = "serving" => serving[g] \in Callers
      BY DEF SessionInv, ServingHasCaller
    <2>2. session[g] = "serving" => ResolveWake(g) \in Seq(Callers)
      BY <2>1, CallersAreFresh DEF ResolveWake
    <2>3. requests # <<>> => Head(requests) \in Callers
      BY <1>0, HeadTailProperties
    <2> QED
      BY <1>0, <2>2, <2>3, CallersAreFresh, NoWake
  <1>1. CASE Io(g)
    <2>1. /\ UNCHANGED <<pc, target, cancel, session, ready, requests>>
          /\ ~MidRun /\ Blocked(g) /\ runq' = runq \o <<g>>
      BY <1>0, <1>1, NoWake DEF Io, callerVars, sessionVars
    <2>2. <<g>> \in Seq(Tasks) /\ FreshWake(<<g>>)
      BY <1>0, <2>1, OneWoken
    <2> QED
      BY <2>1, <2>2, SessionAttends
  <1>2. CASE DieIdle(g)
    <2>1. /\ UNCHANGED <<pc, target, cancel, ready, requests>>
          /\ ~MidRun /\ Blocked(g) /\ runq' = runq \o << >>
          /\ session' = [session EXCEPT ![g] = "failing"]
      BY <1>w, <1>2 DEF DieIdle, callerVars
    <2>2. /\ session'[g] \in Live /\ \A h \in Sessions : h # g => session'[h] = session[h]
      BY <1>0, <2>1 DEF Live
    <2> QED
      BY <1>w, <2>1, <2>2, SessionAttends
  <1>3. CASE StartOk(g)
    <2>1. CASE ready[g] = "pending"
      BY <1>3, <2>1, StartIsAttended
    <2>2. CASE ready[g] # "pending"
      <3>1. /\ Running(g) /\ session[g] = "starting"
            /\ session' = [session EXCEPT ![g] = "idle"] /\ ready' = [ready EXCEPT ![g] = ready[g]]
            /\ UNCHANGED <<pc, target, cancel, requests>>
            /\ runq' = Tail(runq) \o << >> \/ runq' = runq \o << >>
        BY <1>3, <2>2 DEF StartOk, Awake, SuspendAnd, KeepRunning, callerVars
      <3>2. /\ session'[g] \in Live /\ ready' = ready
            /\ \A h \in Sessions : h # g => session'[h] = session[h]
        BY <1>0, <3>1 DEF Live
      <3> QED
        BY <1>w, <3>1, <3>2, SessionAttends
    <2> QED
      BY <2>1, <2>2
  <1>4. CASE StartFail(g)
    <2>1. /\ UNCHANGED <<pc, target, cancel, ready, requests>> /\ Running(g)
          /\ runq' = Tail(runq) \o << >> /\ session' = [session EXCEPT ![g] = "failing"]
      BY <1>w, <1>4 DEF StartFail, Awake, Suspend, Running, callerVars
    <2>2. /\ session'[g] \in Live /\ \A h \in Sessions : h # g => session'[h] = session[h]
      BY <1>0, <2>1 DEF Live
    <2> QED
      BY <1>w, <2>1, <2>2, SessionAttends
  <1>5. CASE SkipCancelled(g) \/ NothingToTake(g)
    <2>1. /\ UNCHANGED <<pc, target, cancel, ready, session>> /\ Running(g)
          /\ runq' = Tail(runq) \o << >> \/ runq' = runq \o << >>
          /\ requests' # <<>> => requests # <<>>
      BY <1>w, <1>5 DEF SkipCancelled, NothingToTake, Awake, Suspend, Running, callerVars, sessionVars
    <2> QED
      BY <1>w, <2>1, SessionAttends
  <1>6. CASE RefuseUnlisted(g)
    <2> DEFINE c == Head(requests)
    <2>1. /\ UNCHANGED <<pc, target, cancel, ready>> /\ Running(g) /\ requests # <<>>
          /\ runq' = Tail(runq) \o <<c>> /\ session' = [session EXCEPT ![g] = "failing"]
      BY <1>6 DEF RefuseUnlisted, Awake, SuspendAnd
    <2>2. /\ session'[g] \in Live /\ \A h \in Sessions : h # g => session'[h] = session[h]
      BY <1>0, <2>1 DEF Live
    <2>3. <<c>> \in Seq(Tasks) /\ FreshWake(<<c>>)
      BY <1>w, <2>1
    <2> HIDE DEF c
    <2> QED
      BY <2>1, <2>2, <2>3, SessionAttends
  <1>7. CASE Execute(g)
    <2>1. /\ UNCHANGED <<pc, target, cancel, ready>> /\ Running(g) /\ requests # <<>>
          /\ runq' = Tail(runq) \o << >> /\ session' = [session EXCEPT ![g] = "serving"]
      BY <1>w, <1>7 DEF Execute, Awake, Suspend, Running, callerVars
    <2>2. /\ session'[g] \in Live /\ \A h \in Sessions : h # g => session'[h] = session[h]
      BY <1>0, <2>1 DEF Live
    <2> QED
      BY <1>w, <2>1, <2>2, SessionAttends
  <1>8. CASE Answer(g) \/ Break(g)
    <2>1. /\ UNCHANGED <<pc, target, cancel, ready, requests>> /\ Running(g)
          /\ session[g] = "serving"
          /\ runq' = Tail(runq) \o ResolveWake(g) \/ runq' = runq \o ResolveWake(g)
          /\ \E state \in {"idle", "failing"} : session' = [session EXCEPT ![g] = state]
      BY <1>8 DEF Answer, Break, Awake, SuspendAnd, KeepRunning
    <2>2. /\ session'[g] \in Live /\ \A h \in Sessions : h # g => session'[h] = session[h]
      BY <1>0, <2>1 DEF Live
    <2> QED
      BY <1>w, <2>1, <2>2, SessionAttends
  <1>9. CASE Cancelled(g)
    <2>1. /\ UNCHANGED <<pc, target, cancel, ready, requests>> /\ Running(g)
          /\ session' = [session EXCEPT ![g] = "cancelling"]
          /\ \/ session[g] = "serving" /\ runq' = Tail(runq) \o ResolveWake(g)
             \/ runq' = Tail(runq) \o << >>
      BY <1>w, <1>9 DEF Cancelled, SuspendAnd, Suspend, Running
    <2>2. /\ session'[g] \in Live /\ \A h \in Sessions : h # g => session'[h] = session[h]
      BY <1>0, <2>1 DEF Live
    <2> QED
      BY <1>w, <2>1, <2>2, SessionAttends
  <1>10. CASE TornDown(g)
    <2>1. /\ UNCHANGED <<pc, target, cancel, requests>> /\ Running(g)
          /\ session[g] \in {"failing", "cancelling"}
          /\ session' = [session EXCEPT ![g] = "draining"]
          /\ ready' = ready \/ ready' = [ready EXCEPT ![g] = "failed"]
          /\ runq' = runq \o << >> \/ runq' = runq \o WakeOne(Starter(g))
      BY <1>w, <1>10 DEF TornDown, KeepRunning, callerVars
    <2>2. /\ session'[g] \in Live
          /\ \A h \in Sessions : h # g => session'[h] = session[h]
          /\ \A h \in Sessions : ready'[h] = "ok" => ready[h] = "ok"
      BY <1>0, <2>1 DEF Live
    <2>3. WakeOne(Starter(g)) \in Seq(Tasks) /\ FreshWake(WakeOne(Starter(g)))
      BY CallersAreFresh DEF Starter
    <2> QED
      BY <1>w, <2>1, <2>2, <2>3, SessionAttends
  <1>11. CASE Drain(g)
    <2> DEFINE c == Head(requests)
    <2>1. /\ UNCHANGED <<pc, target, cancel, ready, session>> /\ Running(g) /\ requests # <<>>
          /\ runq' = runq \o << >> \/ runq' = runq \o <<c>>
      BY <1>w, <1>11 DEF Drain, KeepRunning, sessionVars
    <2>2. <<c>> \in Seq(Tasks) /\ FreshWake(<<c>>)
      BY <1>w, <2>1
    <2> HIDE DEF c
    <2> QED
      BY <1>w, <2>1, <2>2, SessionAttends
  <1>12. CASE End(g)
    <2>1. /\ UNCHANGED <<pc, target, cancel, ready, requests>> /\ Running(g)
          /\ session[g] = "draining" /\ requests = <<>>
          /\ runq' = Tail(runq) \o WakeOne(Joiner(g))
          /\ session' = [session EXCEPT ![g] = "done"]
      BY <1>12 DEF End, SuspendAnd, callerVars
    <2>2. \A h \in Sessions : h # g => session'[h] = session[h]
      BY <1>0, <2>1
    <2>3. WakeOne(Joiner(g)) \in Seq(Tasks) /\ FreshWake(WakeOne(Joiner(g)))
      BY CallersAreFresh DEF Joiner
    <2> QED
      BY <2>1, <2>2, <2>3, SessionAttends
  <1> QED
    BY <1>1, <1>2, <1>3, <1>4, <1>5, <1>6, <1>7, <1>8, <1>9, <1>10, <1>11, <1>12 DEF SessionStep

LEMMA InitAttendInv == Init => AttendInv
  BY DEF Init, AttendInv, SessionsOnce, HaveRuns, StarterIsAhead, Told, QueueIsAttended

LEMMA NextAttendInv == SessionInv /\ AttendInv /\ [Next]_vars => AttendInv'
  <1> SUFFICES ASSUME SessionInv, AttendInv, [Next]_vars PROVE AttendInv'
    OBVIOUS
  <1>1. ASSUME NEW c \in Callers, CallerStep(c) \/ Call(c) PROVE AttendInv'
    BY <1>1, CallerIsAttended
  <1>2. ASSUME NEW c \in Callers, Cancel(c) PROVE AttendInv'
    BY <1>2, CancelIsAttended
  <1>3. ASSUME NEW g \in Sessions, SessionStep(g) \/ Io(g) \/ DieIdle(g) PROVE AttendInv'
    BY <1>3, SessionIsAttended
  <1>4. CASE UNCHANGED vars
    BY <1>4 DEF vars, callerVars, lockVars, sessionVars, AttendInv, SessionsOnce, HaveRuns,
       StarterIsAhead, Told, Ahead, Running, SomeLive, QueueIsAttended
  <1> QED
    BY <1>1, <1>2, <1>3, <1>4 DEF Next, LoopStep, Finished

\* Whenever a request is queued there is a session that is not done, which will take or
\* drain it (mcp_worker.py:107-131).
THEOREM QueuesAreAttended == Spec => []QueueIsAttended
  <1>1. AttendInv => QueueIsAttended
    BY DEF AttendInv
  <1> QED
    BY <1>1, InitAttendInv, NextAttendInv, SessionSafety, PTL DEF Spec
=============================================================================
