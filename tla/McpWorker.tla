------------------------------ MODULE McpWorker ------------------------------
(***************************************************************************)
(* safe_frame/mcp_worker.py: one asyncio task (a "session" here: one call  *)
(* of _serve) owns the stdio MCP connection; callers hand it requests over *)
(* a queue and await a future; whoever sees its request fail closes the    *)
(* session and asks once more.                                             *)
(*                                                                         *)
(* runq is the event loop's ready queue.  asyncio runs callbacks in the    *)
(* order they were scheduled and a coroutine keeps the loop until it       *)
(* suspends, so every step of a caller or of a session is a step of the    *)
(* HEAD of runq; suspending removes the head, resolving a future appends   *)
(* the task that awaits it.  Io is the outside world completing what a     *)
(* session waits for (the subprocess starting, answering or going away).   *)
(***************************************************************************)
EXTENDS Naturals, Sequences, FiniteSets, SequencesExt

CONSTANTS Callers,      \* tasks that use the worker, one operation each
          Op,           \* what each caller does, see Operations
          Cancellable,  \* the callers their owner may cancel
          NoOne,        \* None: no caller
          MaxSessions,  \* bound: how often _serve is started
          MaxDeaths,    \* bound: how often an initialised session fails
          MaxRefusals,  \* bound: how often a session fails to start
          IdleDeaths    \* whether the transport may fail a session that is idle

Operations == {"tools",     \* McpWorker.tools
               "query",     \* ClickHouseMcp.query_many: tools, then one query
               "call",      \* McpWorker.call of an advertised tool
               "unlisted"}  \* McpWorker.call of a tool not advertised
Sessions == 1..MaxSessions
NoSession == 0
CallEnds == {"ok", "error", "cancelled"}

ASSUME WorkerAssumption ==
  /\ Op \in [Callers -> Operations]
  /\ Cancellable \subseteq Callers
  /\ NoOne \notin Callers
  /\ MaxSessions \in Nat /\ MaxDeaths \in Nat /\ MaxRefusals \in Nat
  /\ Callers \cap Nat = {}
  /\ IdleDeaths \in BOOLEAN

VARIABLES
  pc,        \* where each caller is, or how its operation ended
  attempt,   \* 0: worker.tools() of query_many; 1, 2: the attempts of call()
  future,    \* the future of each caller's current request
  cancel,    \* cancellation of the caller: "no", "asked", "seen"
  target,    \* the session whose ready future or end the caller awaits
  lock,      \* holder of _lock
  waiters,   \* tasks queued on _lock, in order
  requests,  \* _requests
  task,      \* _task: the session it is, or NoSession for None
  ready,     \* the ready future of each session; ready[task] is _ready
  session,   \* where each session's _serve is
  serving,   \* the caller whose request a session is executing
  killed,    \* sessions whose task.cancel() is not delivered yet
  started,   \* number of sessions started so far
  runq,      \* the event loop's ready queue
  deaths, refusals, \* failures so far, of initialised and of starting sessions
  executed   \* how often each caller's statement was sent to the server

callerVars  == <<pc, attempt, future, cancel, target>>
lockVars    == <<lock, waiters>>
sessionVars == <<ready, session, serving, killed, started, deaths, refusals, executed>>
vars == <<callerVars, lockVars, requests, task, sessionVars, runq>>

-----------------------------------------------------------------------------
(* The event loop. *)

Running(t) == runq # <<>> /\ Head(runq) = t
Blocked(t) == t \notin ToSet(runq)
Suspend          == runq' = Tail(runq)
SuspendAnd(wake) == runq' = Tail(runq) \o wake
KeepRunning(wake) == runq' = runq \o wake

\* The head of the queue has begun its callback and not yet suspended: nothing
\* else happens in the process, no completion is noticed, nobody is cancelled.
FirstAttempt(c) == IF Op[c] \in {"tools", "query"} THEN 0 ELSE 1
MidRun ==
  \/ \E c \in Callers :
       /\ Running(c)
       /\ \/ pc[c] \in {"have", "closed"}
          \/ lock = c /\ pc[c] \in {"ensure", "close"}
          \/ pc[c] = "close" /\ c \notin ToSet(waiters)
          \/ pc[c] = "ensure" /\ c \notin ToSet(waiters) /\ attempt[c] # FirstAttempt(c)
  \/ \E g \in Sessions : Running(g) /\ session[g] = "draining"

Live == {"starting", "idle", "serving", "failing", "cancelling", "draining"}
Alive == task # NoSession /\ session[task] \in Live    \* _alive: not task.done()

\* asyncio.Lock.release wakes the first waiter, which stays queued until it runs.
Release == lock' = NoOne /\ UNCHANGED waiters
LockWake == IF waiters = <<>> THEN <<>> ELSE <<Head(waiters)>>

Init ==
  /\ pc = [c \in Callers |-> "start"]
  /\ attempt = [c \in Callers |-> FirstAttempt(c)]
  /\ future = [c \in Callers |-> "none"]
  /\ cancel = [c \in Callers |-> "no"]
  /\ target = [c \in Callers |-> NoSession]
  /\ lock = NoOne /\ waiters = <<>> /\ requests = <<>> /\ task = NoSession
  /\ ready = [g \in Sessions |-> "pending"]
  /\ session = [g \in Sessions |-> "none"]
  /\ serving = [g \in Sessions |-> NoOne]
  /\ killed = {} /\ started = 0 /\ runq = <<>>
  /\ deaths = 0 /\ refusals = 0
  /\ executed = [c \in Callers |-> 0]

-----------------------------------------------------------------------------
(* Callers: the lock. *)

\* A request handler (or a branch of asyncio.gather) starts its operation.
Call(c) ==
  /\ pc[c] = "start" /\ ~MidRun
  /\ pc' = [pc EXCEPT ![c] = "ensure"]
  /\ runq' = Append(runq, c)
  /\ UNCHANGED <<attempt, future, cancel, target, lockVars, requests, task, sessionVars>>

\* `async with self._lock` in _ensure (pc "ensure") and in aclose (pc "close").
AtLock(c) == Running(c) /\ pc[c] \in {"ensure", "close"} /\ lock # c

\* Mutant: aclose swaps the task without taking the lock.
AcquireUnlessClosing(c) ==
  /\ AtLock(c)
  /\ pc[c] = "close" \/ lock = NoOne
  /\ waiters # <<>> => Head(waiters) = c
  /\ lock' = c
  /\ waiters' = IF waiters = <<>> THEN <<>> ELSE Tail(waiters)
  /\ UNCHANGED <<callerVars, requests, task, sessionVars, runq>>

Acquire(c) ==
  /\ AtLock(c)
  /\ lock = NoOne
  /\ waiters # <<>> => Head(waiters) = c
  /\ lock' = c
  /\ waiters' = IF waiters = <<>> THEN <<>> ELSE Tail(waiters)
  /\ UNCHANGED <<callerVars, requests, task, sessionVars, runq>>

Enqueue(c) ==
  /\ AtLock(c)
  /\ ~(lock = NoOne /\ waiters = <<>>)
  /\ c \notin ToSet(waiters)
  /\ waiters' = Append(waiters, c)
  /\ Suspend
  /\ UNCHANGED <<callerVars, lock, requests, task, sessionVars>>

(* Callers: _ensure. *)

InEnsure(c) == Running(c) /\ pc[c] = "ensure" /\ lock = c

\* Mutant: trusts the ready future of a session that has exited.
EnsureStale(c) ==
  /\ InEnsure(c)
  /\ task # NoSession /\ ready[task] = "ok"
  /\ pc' = [pc EXCEPT ![c] = "have"]
  /\ Release /\ KeepRunning(LockWake)
  /\ UNCHANGED <<attempt, future, cancel, target, requests, task, sessionVars>>

\* The session is alive and its ready future holds the tool names.
EnsureAlive(c) ==
  /\ InEnsure(c)
  /\ Alive /\ ready[task] = "ok"
  /\ pc' = [pc EXCEPT ![c] = "have"]
  /\ Release /\ KeepRunning(LockWake)
  /\ UNCHANGED <<attempt, future, cancel, target, requests, task, sessionVars>>

\* The session is alive but its ready future was cancelled with the caller that
\* awaited it: ready.exception() raises CancelledError into this caller.
EnsurePoisoned(c) ==
  /\ InEnsure(c)
  /\ Alive /\ ready[task] = "cancelled"
  /\ pc' = [pc EXCEPT ![c] = "cancelled"]
  /\ Release /\ SuspendAnd(LockWake)
  /\ UNCHANGED <<attempt, future, cancel, target, requests, task, sessionVars>>

\* Mutant: replaces a session whose start was cancelled without closing it.
EnsureReplace(c) ==
  /\ InEnsure(c)
  /\ ~(Alive /\ ready[task] = "ok")
  /\ started < MaxSessions
  /\ started' = started + 1
  /\ task' = started + 1
  /\ session' = [session EXCEPT ![started + 1] = "starting"]
  /\ target' = [target EXCEPT ![c] = started + 1]
  /\ pc' = [pc EXCEPT ![c] = "ready"]
  /\ Suspend
  /\ UNCHANGED <<attempt, future, cancel, lockVars, requests, ready, serving,
                 killed, deaths, refusals, executed>>

\* Otherwise a new session is started and awaited while the lock is held.
EnsureStart(c) ==
  /\ InEnsure(c)
  /\ ~(Alive /\ ready[task] \in {"ok", "cancelled"})
  /\ started < MaxSessions
  /\ started' = started + 1
  /\ task' = started + 1
  /\ session' = [session EXCEPT ![started + 1] = "starting"]
  /\ target' = [target EXCEPT ![c] = started + 1]
  /\ pc' = [pc EXCEPT ![c] = "ready"]
  /\ Suspend
  /\ UNCHANGED <<attempt, future, cancel, lockVars, requests, ready, serving,
                 killed, deaths, refusals, executed>>

\* `await ready` returns, raises the start-up failure, or is cancelled.
ReadyEnd(c) ==
  IF cancel[c] = "asked" THEN "cancelled"
  ELSE IF ready[target[c]] = "ok" THEN "have" ELSE "error"

AfterReady(c) ==
  /\ Running(c) /\ pc[c] = "ready" /\ ready[target[c]] # "pending"
  /\ pc' = [pc EXCEPT ![c] = ReadyEnd(c)]
  /\ cancel' = [cancel EXCEPT ![c] = IF @ = "asked" THEN "seen" ELSE @]
  /\ Release
  /\ IF ReadyEnd(c) = "have" THEN KeepRunning(LockWake) ELSE SuspendAnd(LockWake)
  /\ UNCHANGED <<attempt, future, target, requests, task, sessionVars>>

(* Callers: what follows _ensure, with no suspension in between. *)

ToolsReturn(c) ==
  /\ Running(c) /\ pc[c] = "have" /\ attempt[c] = 0
  /\ IF Op[c] = "tools"
     THEN /\ pc' = [pc EXCEPT ![c] = "ok"]
          /\ Suspend
          /\ UNCHANGED attempt
     ELSE /\ pc' = [pc EXCEPT ![c] = "ensure"]
          /\ attempt' = [attempt EXCEPT ![c] = 1]
          /\ UNCHANGED runq
  /\ UNCHANGED <<future, cancel, target, lockVars, requests, task, sessionVars>>

\* Queue.put wakes a session blocked in Queue.get.
Getters == {g \in Sessions : session[g] = "idle" /\ Blocked(g)}
PutWake == IF Getters = {} THEN <<>> ELSE <<CHOOSE g \in Getters : TRUE>>

PutRequest(c) ==
  /\ Running(c) /\ pc[c] = "have" /\ attempt[c] > 0
  /\ requests' = Append(requests, c)
  /\ future' = [future EXCEPT ![c] = "pending"]
  /\ pc' = [pc EXCEPT ![c] = "wait"]
  /\ SuspendAnd(PutWake)
  /\ UNCHANGED <<attempt, cancel, target, lockVars, task, sessionVars>>

\* Mutant: a cancelled request is reported to its caller as answered.
AfterWaitSwallows(c) ==
  /\ Running(c) /\ pc[c] = "wait" /\ future[c] # "pending"
  /\ LET end == IF cancel[c] = "asked" THEN "cancelled"
                ELSE IF future[c] \in {"result", "cancelled"} THEN "ok" ELSE "close"
     IN /\ pc' = [pc EXCEPT ![c] = end]
        /\ IF end = "close" THEN UNCHANGED runq ELSE Suspend
  /\ cancel' = [cancel EXCEPT ![c] = IF @ = "asked" THEN "seen" ELSE @]
  /\ UNCHANGED <<attempt, future, target, lockVars, requests, task, sessionVars>>

\* `return await future`: a result is returned, an Exception leads to aclose, and
\* CancelledError, a BaseException, passes the `except Exception` untouched.
AfterWait(c) ==
  /\ Running(c) /\ pc[c] = "wait" /\ future[c] # "pending"
  /\ LET end == IF cancel[c] = "asked" \/ future[c] = "cancelled" THEN "cancelled"
                ELSE IF future[c] = "result" THEN "ok" ELSE "close"
     IN /\ pc' = [pc EXCEPT ![c] = end]
        /\ IF end = "close" THEN UNCHANGED runq ELSE Suspend
  /\ cancel' = [cancel EXCEPT ![c] = IF @ = "asked" THEN "seen" ELSE @]
  /\ UNCHANGED <<attempt, future, target, lockVars, requests, task, sessionVars>>

(* Callers: aclose, and the retry. *)

\* Mutant: forgets the session without cancelling its task.
AcloseForgets(c) ==
  /\ Running(c) /\ pc[c] = "close" /\ lock = c
  /\ task' = NoSession
  /\ pc' = [pc EXCEPT ![c] = "closed"]
  /\ Release /\ KeepRunning(LockWake)
  /\ UNCHANGED <<attempt, future, cancel, target, requests, sessionVars>>

\* Take the session out of the worker; cancel and await it unless it is done.
Aclose(c) ==
  /\ Running(c) /\ pc[c] = "close" /\ lock = c
  /\ task' = NoSession
  /\ Release
  /\ IF Alive
     THEN /\ killed' = killed \cup {task}
          /\ target' = [target EXCEPT ![c] = task]
          /\ pc' = [pc EXCEPT ![c] = "join"]
          /\ SuspendAnd(LockWake \o (IF Blocked(task) THEN <<task>> ELSE <<>>))
     ELSE /\ pc' = [pc EXCEPT ![c] = "closed"]
          /\ KeepRunning(LockWake)
          /\ UNCHANGED <<killed, target>>
  /\ UNCHANGED <<attempt, future, cancel, requests, ready, session, serving,
                 started, deaths, refusals, executed>>

\* `await task` swallows CancelledError, the caller's own included.
AfterJoin(c) ==
  /\ Running(c) /\ pc[c] = "join" /\ session[target[c]] = "done"
  /\ pc' = [pc EXCEPT ![c] = "closed"]
  /\ cancel' = [cancel EXCEPT ![c] = IF @ = "asked" THEN "seen" ELSE @]
  /\ UNCHANGED <<attempt, future, target, lockVars, requests, task, sessionVars, runq>>

\* Mutant: one attempt too many.
RetryOnceMore(c) ==
  /\ Running(c) /\ pc[c] = "closed"
  /\ IF attempt[c] = 3
     THEN /\ pc' = [pc EXCEPT ![c] = "error"]
          /\ Suspend
          /\ UNCHANGED attempt
     ELSE /\ pc' = [pc EXCEPT ![c] = "ensure"]
          /\ attempt' = [attempt EXCEPT ![c] = @ + 1]
          /\ UNCHANGED runq
  /\ UNCHANGED <<future, cancel, target, lockVars, requests, task, sessionVars>>

Retry(c) ==
  /\ Running(c) /\ pc[c] = "closed"
  /\ IF attempt[c] = 2
     THEN /\ pc' = [pc EXCEPT ![c] = "error"]
          /\ Suspend
          /\ UNCHANGED attempt
     ELSE /\ pc' = [pc EXCEPT ![c] = "ensure"]
          /\ attempt' = [attempt EXCEPT ![c] = 2]
          /\ UNCHANGED runq
  /\ UNCHANGED <<future, cancel, target, lockVars, requests, task, sessionVars>>

(* Cancellation of a caller by its owner: a client that went away, a shutdown. *)

\* A task queued on the lock leaves the queue; if it had been woken, it wakes
\* the next one.  (Its removal is immediate here: asyncio treats a cancelled
\* waiter as absent until it runs.)
CancelAtLock(c) ==
  \E i \in DOMAIN waiters :
    /\ waiters[i] = c /\ pc[c] \in {"ensure", "close"}
    /\ waiters' = RemoveAt(waiters, i)
    /\ pc' = [pc EXCEPT ![c] = "cancelled"]
    /\ cancel' = [cancel EXCEPT ![c] = "seen"]
    /\ IF Blocked(c)
       THEN UNCHANGED runq
       ELSE \E j \in DOMAIN runq :
              /\ runq[j] = c
              /\ runq' = RemoveAt(runq, j) \o
                   (IF Len(waiters) > 1 THEN <<waiters[2]>> ELSE <<>>)
    /\ UNCHANGED <<attempt, future, target, lock, requests, task, sessionVars>>

\* Elsewhere the awaited future is cancelled and the task scheduled; a task that
\* joins a session stays blocked until that session is done.
CancelAtAwait(c) ==
  /\ pc[c] \in {"ready", "wait", "join"}
  /\ cancel' = [cancel EXCEPT ![c] = "asked"]
  /\ ready' = IF pc[c] = "ready" /\ ready[target[c]] = "pending"
              THEN [ready EXCEPT ![target[c]] = "cancelled"] ELSE ready
  /\ future' = IF pc[c] = "wait" /\ future[c] = "pending"
               THEN [future EXCEPT ![c] = "cancelled"] ELSE future
  /\ runq' = IF Blocked(c) /\ pc[c] # "join" THEN Append(runq, c) ELSE runq
  /\ UNCHANGED <<pc, attempt, target, lockVars, requests, task, session, serving,
                 killed, started, deaths, refusals, executed>>

Cancel(c) ==
  /\ c \in Cancellable /\ cancel[c] = "no" /\ ~MidRun
  /\ CancelAtLock(c) \/ CancelAtAwait(c)

-----------------------------------------------------------------------------
(* Sessions: _serve. *)

\* The subprocess or the connection has something for the session.
Io(g) ==
  /\ session[g] \in {"starting", "serving", "failing", "cancelling"}
  /\ Blocked(g) /\ ~MidRun
  /\ runq' = Append(runq, g)
  /\ UNCHANGED <<callerVars, lockVars, requests, task, sessionVars>>

Awake(g, state) == Running(g) /\ session[g] = state /\ g \notin killed

\* The caller that awaits session g's ready future, if any.
Starter(g) == {c \in Callers : pc[c] = "ready" /\ target[c] = g}
WakeOne(S) == IF S = {} THEN <<>> ELSE <<CHOOSE c \in S : TRUE>>

\* Context entered, run_query advertised: `if not ready.done(): set_result`, then
\* the session asks for its first request.
StartOk(g) ==
  /\ Awake(g, "starting")
  /\ session' = [session EXCEPT ![g] = "idle"]
  /\ ready' = [ready EXCEPT ![g] = IF @ = "pending" THEN "ok" ELSE @]
  /\ LET wake == IF ready[g] = "pending" THEN WakeOne(Starter(g)) ELSE <<>>
     IN IF requests = <<>> THEN SuspendAnd(wake) ELSE KeepRunning(wake)
  /\ UNCHANGED <<callerVars, lockVars, requests, task, serving, killed, started,
                 deaths, refusals, executed>>

\* The subprocess, the handshake or the required-tool check fails.
StartFail(g) ==
  /\ Awake(g, "starting")
  /\ refusals < MaxRefusals
  /\ refusals' = refusals + 1
  /\ session' = [session EXCEPT ![g] = "failing"]
  /\ Suspend
  /\ UNCHANGED <<callerVars, lockVars, requests, task, ready, serving, killed,
                 started, deaths, executed>>

\* Queue.get returns the oldest request: skipped when its caller was cancelled,
\* refused (ending the session) when the tool is not advertised, else executed.
SkipCancelled(g) ==
  /\ Awake(g, "idle") /\ requests # <<>>
  /\ future[Head(requests)] = "cancelled"
  /\ requests' = Tail(requests)
  /\ IF Len(requests) = 1 THEN Suspend ELSE UNCHANGED runq
  /\ UNCHANGED <<callerVars, lockVars, task, sessionVars>>

RefuseUnlisted(g) ==
  /\ Awake(g, "idle") /\ requests # <<>>
  /\ LET c == Head(requests) IN
       /\ future[c] # "cancelled" /\ Op[c] = "unlisted"
       /\ future' = [future EXCEPT ![c] = "exception"]
       /\ SuspendAnd(<<c>>)
  /\ requests' = Tail(requests)
  /\ session' = [session EXCEPT ![g] = "failing"]
  /\ UNCHANGED <<pc, attempt, cancel, target, lockVars, task, ready, serving,
                 killed, started, deaths, refusals, executed>>

Execute(g) ==
  /\ Awake(g, "idle") /\ requests # <<>>
  /\ LET c == Head(requests) IN
       /\ future[c] # "cancelled" /\ Op[c] # "unlisted"
       /\ serving' = [serving EXCEPT ![g] = c]
       /\ executed' = [executed EXCEPT ![c] = @ + 1]
  /\ requests' = Tail(requests)
  /\ session' = [session EXCEPT ![g] = "serving"]
  /\ Suspend
  /\ UNCHANGED <<callerVars, lockVars, task, ready, killed, started, deaths, refusals>>

\* Woken by a put whose request another session's drain has taken meanwhile.
NothingToTake(g) ==
  /\ Awake(g, "idle") /\ requests = <<>>
  /\ Suspend
  /\ UNCHANGED <<callerVars, lockVars, requests, task, sessionVars>>

\* Mutant: sets the future without asking whether it is done.
ResolveAnyway(g, value) == future' = [future EXCEPT ![serving[g]] = value]

\* Resolve the future of the request in service, unless it is done.
Resolve(g, value) ==
  future' = [future EXCEPT ![serving[g]] = IF @ = "pending" THEN value ELSE @]
ResolveWake(g) ==
  IF future[serving[g]] = "pending" THEN <<serving[g]>> ELSE <<>>

\* call_tool returns (with is_error set or not: the session survives both).
Answer(g) ==
  /\ Awake(g, "serving")
  /\ Resolve(g, "result")
  /\ session' = [session EXCEPT ![g] = "idle"]
  /\ serving' = [serving EXCEPT ![g] = NoOne]
  /\ IF requests = <<>> THEN SuspendAnd(ResolveWake(g)) ELSE KeepRunning(ResolveWake(g))
  /\ UNCHANGED <<pc, attempt, cancel, target, lockVars, requests, task, ready,
                 killed, started, deaths, refusals, executed>>

\* call_tool raises: the caller is told, the session ends.
Break(g) ==
  /\ Awake(g, "serving")
  /\ deaths < MaxDeaths
  /\ deaths' = deaths + 1
  /\ Resolve(g, "exception")
  /\ session' = [session EXCEPT ![g] = "failing"]
  /\ serving' = [serving EXCEPT ![g] = NoOne]
  /\ SuspendAnd(ResolveWake(g))
  /\ UNCHANGED <<pc, attempt, cancel, target, lockVars, requests, task, ready,
                 killed, started, refusals, executed>>

\* The connection breaks while the session waits for a request.
DieIdle(g) ==
  /\ session[g] = "idle" /\ Blocked(g) /\ ~MidRun
  /\ IdleDeaths /\ deaths < MaxDeaths
  /\ deaths' = deaths + 1
  /\ session' = [session EXCEPT ![g] = "failing"]
  /\ UNCHANGED <<callerVars, lockVars, requests, task, ready, serving, killed,
                 started, refusals, executed, runq>>

\* task.cancel() reaches the session: a request in service has its future
\* cancelled, and the connection is torn down.
Cancelled(g) ==
  /\ Running(g) /\ g \in killed /\ session[g] \in Live
  /\ killed' = killed \ {g}
  /\ session' = [session EXCEPT ![g] = "cancelling"]
  /\ IF session[g] = "serving"
     THEN /\ Resolve(g, "cancelled")
          /\ serving' = [serving EXCEPT ![g] = NoOne]
          /\ SuspendAnd(ResolveWake(g))
     ELSE /\ UNCHANGED <<future, serving>>
          /\ Suspend
  /\ UNCHANGED <<pc, attempt, cancel, target, lockVars, requests, task, ready,
                 started, deaths, refusals, executed>>

\* Mutant: a failed start is logged and nobody is told.
TornDownSilently(g) ==
  /\ Running(g) /\ session[g] \in {"failing", "cancelling"} /\ g \notin killed
  /\ session' = [session EXCEPT ![g] = "draining"]
  /\ UNCHANGED <<callerVars, lockVars, requests, task, ready, serving, killed,
                 started, deaths, refusals, executed, runq>>

\* The contexts have exited.  After an Exception a caller still waiting for the
\* session to start is told; then the queue is drained, without suspending.
TornDown(g) ==
  /\ Running(g) /\ session[g] \in {"failing", "cancelling"} /\ g \notin killed
  /\ session' = [session EXCEPT ![g] = "draining"]
  /\ IF session[g] = "failing" /\ ready[g] = "pending"
     THEN /\ ready' = [ready EXCEPT ![g] = "failed"]
          /\ KeepRunning(WakeOne(Starter(g)))
     ELSE UNCHANGED <<ready, runq>>
  /\ UNCHANGED <<callerVars, lockVars, requests, task, serving, killed, started,
                 deaths, refusals, executed>>

\* Mutant: the queue is emptied and its futures are left pending.
DrainSilently(g) ==
  /\ Running(g) /\ session[g] = "draining" /\ requests # <<>>
  /\ requests' = Tail(requests)
  /\ UNCHANGED <<callerVars, lockVars, task, sessionVars, runq>>

Drain(g) ==
  /\ Running(g) /\ session[g] = "draining" /\ requests # <<>>
  /\ LET c == Head(requests) IN
       IF future[c] = "pending"
       THEN /\ future' = [future EXCEPT ![c] = "exception"]
            /\ KeepRunning(<<c>>)
       ELSE UNCHANGED <<future, runq>>
  /\ requests' = Tail(requests)
  /\ UNCHANGED <<pc, attempt, cancel, target, lockVars, task, sessionVars>>

\* The task is done; whoever closed it resumes.
Joiner(g) == {c \in Callers : pc[c] = "join" /\ target[c] = g}

End(g) ==
  /\ Running(g) /\ session[g] = "draining" /\ requests = <<>>
  /\ session' = [session EXCEPT ![g] = "done"]
  /\ SuspendAnd(WakeOne(Joiner(g)))
  /\ UNCHANGED <<callerVars, lockVars, requests, task, ready, serving, killed,
                 started, deaths, refusals, executed>>

-----------------------------------------------------------------------------
CallerStep(c) ==
  \/ Acquire(c) \/ Enqueue(c)
  \/ EnsureAlive(c) \/ EnsurePoisoned(c) \/ EnsureStart(c) \/ AfterReady(c)
  \/ ToolsReturn(c) \/ PutRequest(c) \/ AfterWait(c)
  \/ Aclose(c) \/ AfterJoin(c) \/ Retry(c)

SessionStep(g) ==
  \/ StartOk(g) \/ StartFail(g)
  \/ SkipCancelled(g) \/ RefuseUnlisted(g) \/ Execute(g) \/ NothingToTake(g)
  \/ Answer(g) \/ Break(g) \/ Cancelled(g)
  \/ TornDown(g) \/ Drain(g) \/ End(g)

LoopStep == (\E c \in Callers : CallerStep(c)) \/ (\E g \in Sessions : SessionStep(g))

AllEnded == \A c \in Callers : pc[c] \in CallEnds
Finished == AllEnded /\ runq = <<>> /\ UNCHANGED vars

Next ==
  \/ LoopStep
  \/ \E c \in Callers : Call(c) \/ Cancel(c)
  \/ \E g \in Sessions : Io(g) \/ DieIdle(g)
  \/ Finished

Spec == Init /\ [][Next]_vars

\* The loop keeps running and the MCP server answers or fails, but never hangs.
Fairness == WF_vars(LoopStep) /\ \A g \in Sessions : WF_vars(Io(g))
FairSpec == Spec /\ Fairness
-----------------------------------------------------------------------------
(* Properties. *)

\* Every variable has its type, and a task is in the ready queue or queued on the
\* lock at most as itself (mcp_worker.py:38-45).
TypeOK ==
  /\ pc \in [Callers -> {"start", "ensure", "ready", "have", "wait", "close",
                         "join", "closed"} \cup CallEnds]
  /\ attempt \in [Callers -> 0..2]
  /\ future \in [Callers -> {"none", "pending", "result", "exception", "cancelled"}]
  /\ cancel \in [Callers -> {"no", "asked", "seen"}]
  /\ target \in [Callers -> Sessions \cup {NoSession}]
  /\ lock \in Callers \cup {NoOne}
  /\ waiters \in Seq(Callers)
  /\ requests \in Seq(Callers)
  /\ task \in Sessions \cup {NoSession}
  /\ ready \in [Sessions -> {"pending", "ok", "failed", "cancelled"}]
  /\ session \in [Sessions -> Live \cup {"none", "done"}]
  /\ serving \in [Sessions -> Callers \cup {NoOne}]
  /\ killed \subseteq Sessions
  /\ started \in 0..MaxSessions
  /\ runq \in Seq(Callers \cup Sessions)
  /\ deaths \in 0..MaxDeaths /\ refusals \in 0..MaxRefusals
  /\ executed \in [Callers -> Nat]

\* A session that is open and not being closed is the one the worker holds: no
\* restart ever leaves a second subprocess behind that nobody will close ("a failed
\* statement never leaves a half-open session behind", mcp_worker.py:16-17).
NoOrphanSession ==
  \A g \in Sessions :
    session[g] \in {"starting", "idle", "serving"} /\ g \notin killed => g = task

\* A caller that awaits an answer is in the queue or in service, exactly once, so
\* some session still has to resolve its future (mcp_worker.py:61-93, 131).
EveryRequestIsKept ==
  \A c \in Callers :
    pc[c] = "wait" /\ future[c] = "pending" =>
      Cardinality({i \in DOMAIN requests : requests[i] = c})
        + Cardinality({g \in Sessions : serving[g] = c}) = 1

\* Whenever a request is queued there is a session that is not done, which will
\* take or drain it: none is queued behind a worker that has exited
\* (_ensure and put have no suspension between them, mcp_worker.py:107-131).
QueueIsAttended ==
  requests # <<>> => \E g \in Sessions : session[g] \in Live

\* Whoever holds the lock while it awaits a session's start awaits one that is
\* starting or reporting its failure, and nobody is closing it: the lock cannot be
\* held for ever (mcp_worker.py:107-116, 140-148).
StartIsWatched ==
  \A c \in Callers :
    pc[c] = "ready" /\ ready[target[c]] = "pending" =>
      /\ lock = c
      /\ session[target[c]] \in {"starting", "failing"}
      /\ target[c] \notin killed

\* The inductive strengthening of the two invariants above, in named parts.

\* A session that executes a request executes some caller's.
ServingHasCaller == \A g \in Sessions : session[g] = "serving" => serving[g] \in Callers

\* A session that takes requests has resolved its ready future, or found it cancelled.
OpenIsReady ==
  \A g \in Sessions : session[g] \in {"idle", "serving"} => ready[g] \in {"ok", "cancelled"}

\* A session that is starting is awaited by the holder of the lock, unless that
\* caller was cancelled.
StartingIsHeld ==
  \A g \in Sessions :
    session[g] = "starting" =>
      \/ ready[g] = "cancelled"
      \/ ready[g] = "pending" /\ \E c \in Callers : lock = c /\ pc[c] = "ready" /\ target[c] = g

\* Sessions not started yet are untouched.
FutureSessionsFresh ==
  \A g \in Sessions :
    g > started => session[g] = "none" /\ ready[g] = "pending" /\ g \notin killed

\* Whoever awaits a session's start holds the lock.
StarterHoldsLock ==
  \A c \in Callers : pc[c] = "ready" => lock = c /\ target[c] \in Sessions

\* All of it: what every step of the worker and its callers keeps
\* (mcp_worker.py:47-116, 140-148).
SessionInv ==
  /\ TypeOK
  /\ ServingHasCaller
  /\ OpenIsReady
  /\ StartingIsHeld
  /\ FutureSessionsFresh
  /\ StarterHoldsLock
  /\ NoOrphanSession
  /\ StartIsWatched

\* A future is resolved once: what its caller was told never changes while it is
\* the future of that attempt (the `if not future.done()` of mcp_worker.py:70-84,
\* 101; asyncio raises InvalidStateError otherwise).
ResolvedOnce ==
  [][\A c \in Callers :
       future[c] \in {"result", "exception", "cancelled"} =>
         future'[c] = future[c] \/ (future[c] = "exception" /\ pc[c] = "have")]_vars

\* The worker implements the service it stands for.  An execution whose session is
\* being closed no longer counts as executing.
Service == INSTANCE McpService WITH
  NeedsNoRun <- {c \in Callers : Op[c] = "tools"},
  status     <- [c \in Callers |-> IF pc[c] \in CallEnds THEN pc[c] ELSE "open"],
  executing  <- {serving[g] : g \in {s \in Sessions \ killed : session[s] = "serving"}},
  runs       <- executed,
  answered   <- {c \in Callers : future[c] = "result"}
ServiceSpec == Service!Spec

\* Every operation that starts ends, whatever fails or is cancelled, as long as the
\* loop runs and the server never hangs (mcp_worker.py:125-148).
EveryCallEnds == \A c \in Callers : pc[c] # "start" ~> pc[c] \in CallEnds

\* A session the worker has let go of is torn down in the end (mcp_worker.py:140-148).
DroppedSessionsEnd ==
  \A g \in Sessions : session[g] \in Live /\ task # g ~> session[g] = "done"

\* "Call any advertised tool, restarting the session once if it had died"
\* (mcp_worker.py:126): when one session dies, once, and nobody is cancelled, every
\* operation still succeeds.
OneDeathIsTransparent ==
  deaths <= 1 /\ refusals = 0 =>
    \A c \in Callers : pc[c] \notin {"error", "cancelled"}

\* "If the worker dies for any reason the next call transparently starts a new one"
\* (mcp_worker.py:15-17): when one caller is cancelled and nothing else fails, the
\* others still succeed.
CancellationIsLocal ==
  deaths = 0 /\ refusals = 0 =>
    \A c \in Callers : cancel[c] = "no" => pc[c] \notin {"error", "cancelled"}
=============================================================================
