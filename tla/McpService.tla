------------------------------ MODULE McpService ------------------------------
(***************************************************************************)
(* What safe_frame/mcp_worker.py promises its callers, with no session,    *)
(* queue or lock in sight: "serialises queries onto one persistent         *)
(* session" - statements execute one at a time - and an operation that is  *)
(* reported as answered was answered by an execution of its own, of which  *)
(* there are at most two.                                                  *)
(***************************************************************************)
EXTENDS Naturals

CONSTANTS Callers,    \* the operations, one per caller
          NeedsNoRun  \* those that read the tool list and execute nothing

VARIABLES status,     \* "open", or how the operation ended
          executing,  \* the operation whose statement is executing, at most one
          runs,       \* how often each operation's statement was started
          answered    \* the operations with an answer

vars == <<status, executing, runs, answered>>

Init ==
  /\ status = [c \in Callers |-> "open"]
  /\ executing = {}
  /\ runs = [c \in Callers |-> 0]
  /\ answered = {}

Start(c) ==
  /\ status[c] = "open" /\ executing = {} /\ runs[c] < 2 /\ c \notin answered
  /\ executing' = {c}
  /\ runs' = [runs EXCEPT ![c] = @ + 1]
  /\ UNCHANGED <<status, answered>>

\* The execution ends: with an answer, or lost with its session.  An operation
\* that was abandoned meanwhile may still be executing, and gets no answer.
Answer(c) ==
  /\ executing = {c} /\ status[c] = "open"
  /\ executing' = {}
  /\ answered' = answered \cup {c}
  /\ UNCHANGED <<status, runs>>

Lose(c) ==
  /\ executing = {c}
  /\ executing' = {}
  /\ UNCHANGED <<status, runs, answered>>

Succeed(c) ==
  /\ status[c] = "open"
  /\ c \in answered \/ c \in NeedsNoRun
  /\ status' = [status EXCEPT ![c] = "ok"]
  /\ UNCHANGED <<executing, runs, answered>>

Fail(c) ==
  /\ status[c] = "open"
  /\ status' \in {[status EXCEPT ![c] = end] : end \in {"error", "cancelled"}}
  /\ UNCHANGED <<executing, runs, answered>>

Next == \E c \in Callers : Start(c) \/ Answer(c) \/ Lose(c) \/ Succeed(c) \/ Fail(c)

Spec == Init /\ [][Next]_vars
=============================================================================
