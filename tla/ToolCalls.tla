------------------------------ MODULE ToolCalls ------------------------------
(***************************************************************************)
(* Tool calls of concurrent agents (internal/tool/executor.go): attempts   *)
(* with backoff, the rate limit of the host, HTTP or the shared client of  *)
(* an MCP server, and the outbound dead-letter queue.                      *)
(***************************************************************************)
EXTENDS McpClient, HostLimiter

CONSTANT Setups  \* what each caller calls, see SetupOK

VARIABLES
  call,     \* of each caller: type of the tool,
            \* max_attempts, and whether the host is limited
  attempt,
  outcome,  \* "none", "ok", "invalid", "failed", "toolerror" or "cancelled"
  dead      \* entries of each caller in the outbound-dlq

vars == <<mcp, limiter, call, attempt, outcome, dead>>

SetupOK(s) ==
  \A c \in Callers : s[c].type \in {"http", "mcp"} /\ s[c].retry \in Nat /\ s[c].limited \in BOOLEAN

ASSUME SetupsOK == \A s \in Setups : SetupOK(s)

\* A host without a bucket is not waited for.
Enters(c) ==
  IF call[c].limited THEN "limit" ELSE IF call[c].type = "mcp" THEN "get" ELSE "http"

\* No retry policy is one attempt.
MaxAttempts(c) == Max({1, call[c].retry})

Init ==
  /\ McpInit /\ LimiterInit
  /\ call \in Setups /\ (cur = 1 => \E c \in Callers : call[c].type = "mcp")
  /\ limited = {c \in Callers : call[c].limited}
  /\ pc = [c \in Callers |-> Enters(c)]
  /\ attempt = [c \in Callers |-> 1]
  /\ outcome = [c \in Callers |-> "none"]
  /\ dead = [c \in Callers |-> 0]

mcpRest == <<expired, mine, again, cur, client, holder, registry, executed, got, notices>>
callState == <<call, attempt, outcome, dead>>

-----------------------------------------------------------------------------
Dispatch(c) == Goes(c, IF call[c].type = "http" THEN "http" ELSE "get")

\* HostLimiter.Wait before every attempt.
Limit(c) ==
  /\ pc[c] = "limit"
  /\ AskToken(c)
  /\ IF Refilled > 0 THEN Dispatch(c) ELSE Goes(c, "asleep")
  /\ UNCHANGED <<mcpRest, callState>>

WakeUp(c) ==
  /\ pc[c] = "asleep" /\ Wake(c) /\ Dispatch(c)
  /\ UNCHANGED <<mcpRest, callState>>

Ends(c, o) ==
  /\ pc' = [pc EXCEPT ![c] = "done"] /\ result' = [result EXCEPT ![c] = "none"]
  /\ outcome' = [outcome EXCEPT ![c] = o]

\* A wait that is cancelled ends the call without a dead letter.
CancelledAsleep(c) ==
  /\ pc[c] = "asleep" /\ expired[c]
  /\ GiveUpWaiting(c) /\ Ends(c, "cancelled")
  /\ UNCHANGED <<mcpRest, call, attempt, dead>>

CancelledInBackoff(c) ==
  /\ pc[c] = "backoff" /\ expired[c] /\ Ends(c, "cancelled")
  /\ UNCHANGED <<mcpRest, limiter, call, attempt, dead>>

\* Before the first attempt: the URL does not expand, there is no MCP registry,
\* or the type is none of the two.  Nobody is told but the model.
Refuse(c) ==
  /\ pc[c] = Enters(c) /\ attempt[c] = 1 /\ Ends(c, "invalid")
  /\ UNCHANGED <<mcpRest, limiter, call, attempt, dead>>

\* One request: its status may be good, worth a retry, or final.
HttpAttempt(c) ==
  /\ pc[c] = "http"
  /\ \E r \in {"ok", "error", "notfound"} :
       /\ expired[c] => r = "error"
       /\ Returns(c, r)
       /\ executed' = [executed EXCEPT ![c] = @ + 1]
  /\ UNCHANGED <<expired, mine, again, cur, client, holder, registry, got, notices,
                 limiter, callState>>

\* A 4xx status or a server that is not there is not tried again.
Retries(c) == attempt[c] < MaxAttempts(c) /\ result[c] = "error"

Succeeds(c) ==
  /\ pc[c] = "result" /\ result[c] = "ok" /\ Ends(c, "ok")
  /\ UNCHANGED <<mcpRest, limiter, call, attempt, dead>>

\* The tool ran and failed: the model decides what to do about it.
ToolFails(c) ==
  /\ pc[c] = "result" /\ result[c] = "toolerror" /\ Ends(c, "toolerror")
  /\ UNCHANGED <<mcpRest, limiter, call, attempt, dead>>

BacksOff(c) ==
  /\ pc[c] = "result" /\ Retries(c) /\ Goes(c, "backoff")
  /\ UNCHANGED <<mcpRest, limiter, callState>>

\* Mutant: the attempt is not counted.
TryAgainUncounted(c) ==
  /\ pc[c] = "backoff" /\ Goes(c, Enters(c))
  /\ UNCHANGED <<mcpRest, limiter, callState>>

\* The wait is over.  A Retry-After of 0 does not look at the context, and of a
\* timer and a context that are both done the select may pick the timer.
TryAgain(c) ==
  /\ pc[c] = "backoff"
  /\ attempt' = [attempt EXCEPT ![c] = @ + 1]
  /\ Goes(c, Enters(c))
  /\ UNCHANGED <<mcpRest, limiter, call, outcome, dead>>

\* Permanent or out of attempts: an entry in the outbound-dlq, whose save may
\* fail without anybody being told.
Fails(c) ==
  /\ pc[c] = "result" /\ result[c] \in {"error", "notfound"} /\ ~Retries(c)
  /\ Ends(c, "failed")
  /\ dead' \in {dead, [dead EXCEPT ![c] = @ + 1]}
  /\ UNCHANGED <<mcpRest, limiter, call, attempt>>

\* The deadline of the tool or of the run passes, as far as anybody looks at it.
Expire(c) ==
  /\ pc[c] \in {"asleep", "http", "read", "starting", "backoff"} /\ ~expired[c]
  /\ expired' = [expired EXCEPT ![c] = TRUE]
  /\ UNCHANGED <<pc, result, mine, again, cur, client, holder, registry, executed, got,
                 notices, limiter, callState>>

Attempt(c) ==
  \/ Refuse(c)
  \/ Limit(c) \/ WakeUp(c) \/ CancelledAsleep(c)
  \/ HttpAttempt(c)
  \/ McpCall(c) /\ UNCHANGED <<limiter, callState>>
  \/ Succeeds(c) \/ ToolFails(c) \/ Fails(c)
  \/ BacksOff(c) \/ CancelledInBackoff(c) \/ TryAgain(c)

Passes == Tick /\ UNCHANGED <<mcp, callState>>

Serves == McpEnvironment /\ UNCHANGED <<limiter, callState>>

Ended == (\A c \in Callers : pc[c] = "done") /\ UNCHANGED vars

Next == Passes \/ Serves \/ Ended \/ \E c \in Callers : Expire(c) \/ Attempt(c)

\* Tool calls have a deadline (tool_timeout, 600 s unless it is set); the MCP
\* server owes nobody an answer.
Spec ==
  /\ Init /\ [][Next]_vars
  /\ WF_vars(Passes)
  /\ \A c \in Callers : WF_vars(Expire(c)) /\ WF_vars(Attempt(c))

-----------------------------------------------------------------------------
TypeOK ==
  /\ McpTypeOK /\ LimiterTypeOK
  /\ pc \in [Callers -> McpPcs \cup {"limit", "asleep", "http", "backoff", "done"}]
  /\ call \in Setups
  /\ attempt \in [Callers -> Nat] /\ \A c \in Callers : attempt[c] \in 1..MaxAttempts(c)
  /\ outcome \in [Callers -> {"none", "ok", "invalid", "failed", "toolerror", "cancelled"}]
  /\ dead \in [Callers -> 0..1]

-----------------------------------------------------------------------------
(* How often a tool can still run.                                          *)

\* The requests of a caller the server may still execute.
Outstanding(c) ==
  {r \in UNION {{g} \X client[g].asked : g \in Gens} : client[r[1]].owners[r[2]] = c}

BeforeRequest == {"limit", "asleep", "get", "lock", "recreate", "starting", "http"}

\* An attempt makes one request at most, in spite of the second call.
OneRequestAnAttempt ==
  \A c \in Callers :
    /\ IsFiniteSet(Outstanding(c))
    /\ executed[c] + Cardinality(Outstanding(c)) <=
         (IF pc[c] \in BeforeRequest THEN attempt[c] - 1 ELSE attempt[c])

\* A caller backs off only with an attempt left, and is buried once.
AttemptsLeft ==
  \A c \in Callers :
    /\ pc[c] = "backoff" => attempt[c] < MaxAttempts(c)
    /\ pc[c] # "done" => dead[c] = 0

Inductive ==
  /\ TypeOK
  /\ ClientsKnown /\ ReadersHold /\ DecodersHeld /\ GivenUp /\ OwnResponse
  /\ BucketFollows
  /\ OneRequestAnAttempt /\ AttemptsLeft

-----------------------------------------------------------------------------
\* executor.go:310-313 and 235-243: the second call on a recreated client is no
\* second attempt, and what the tool has reported is not tried again: a tool
\* never runs more often than it has attempts.
RunsWithinAttempts == \A c \in Callers : executed[c] <= MaxAttempts(c)

\* A call that waits for a sleeping, silent or dead server, for the mutex of a
\* caller that does, or for a restart, ends.
CallsEnd == \A c \in Callers : <>(pc[c] = "done")
=============================================================================
