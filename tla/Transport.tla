------------------------------ MODULE Transport ------------------------------
(***************************************************************************)
(* One exchange with a provider over HTTP, what a failure of it says about *)
(* the bill, and what the hold taken for it becomes: transport.ts,         *)
(* errors.ts and prepare of packages/providers, and attempt in             *)
(* apps/worker/src/pipeline.ts.                                            *)
(*                                                                         *)
(* An exchange is what the network and the provider do: whether the        *)
(* connection holds (it is cut when the headers arrived and the body does  *)
(* not), the status, the body, the usage it reports, the completion in it, *)
(* whether that can be used, and whether the provider did paid work.       *)
(***************************************************************************)
EXTENDS Naturals

\* What a provider does without doing paid work is refuse: the reading the
\* comment of mapHttpFailure gives to its statuses.
Exchanges ==
    {x \in [shape      : {"chat", "messages"},
            connection : {"refused", "reset", "silent", "cut", "kept"},
            status     : {"ok", "unauthorized", "limited", "error"},
            body       : {"envelope", "prose"},
            usage      : {"none", "figures", "infinite"},
            content    : {"missing", "filtered", "empty", "text"},
            usable     : BOOLEAN,
            worked     : BOOLEAN] :
        /\ x.content = "filtered" => x.shape = "chat"
        /\ x.connection = "refused" => ~x.worked
        /\ x.connection \in {"cut", "kept"} /\ x.status \in {"unauthorized", "limited"}
              => ~x.worked
        /\ x.connection = "kept" /\ x.status = "ok" => x.worked}

Retryable == {"timeout", "network", "rate_limited", "http_error"}

ProviderError(code, billing, usage) ==
    [failed |-> TRUE, code |-> code, billing |-> billing, usage |-> usage,
     retryable |-> code \in Retryable]

\* A rejected credential and a rate limit are refused before any work.
mapHttpFailure(status) ==
    CASE status = "unauthorized" -> ProviderError("unauthorized", "none", "none")
      [] status = "limited"      -> ProviderError("rate_limited", "none", "none")
      [] status = "error"        -> ProviderError("http_error", "unknown", "none")

\* Variant: a connection that gave no response is taken to have cost nothing.
LostConnectionIsFree(x) ==
    ProviderError(IF x.connection = "silent" THEN "timeout" ELSE "network", "none", "none")

\* fetch rejects.  A connection that was refused and one reset half-way through
\* the request look alike, so neither is free.
FetchFails(x) ==
    ProviderError(IF x.connection = "silent" THEN "timeout" ELSE "network", "unknown", "none")

\* Usage that is not reported is nothing, never a guess.
readUsage(x) == IF x.usage = "figures" THEN "figures" ELSE "none"

\* A response that cannot be read still cost what it reports.
Unreadable(code, usage) ==
    ProviderError(code, IF usage = "figures" THEN "charged" ELSE "unknown", usage)

\* Both shapes; only the chat shape says that an answer was filtered.
readChoiceText(x, usage) ==
    IF x.content = "text"
    THEN [failed |-> FALSE, usage |-> usage]
    ELSE Unreadable(IF x.content = "filtered" THEN "refused" ELSE "malformed_output", usage)

\* postJson and the transports over it.  The body is read outside the try of
\* postJson: its failure is no ProviderError until providerFailure makes it one.
Send(x) ==
    IF x.connection \in {"refused", "reset", "silent"} THEN FetchFails(x)
    ELSE IF x.connection = "cut" THEN ProviderError("unknown", "unknown", "none")
    ELSE IF x.status # "ok" THEN mapHttpFailure(x.status)
    ELSE IF x.body = "prose" \/ x.usage = "infinite"
         THEN ProviderError("malformed_output", "unknown", "none")
    ELSE readChoiceText(x, readUsage(x))

OutcomeForBilling(billing) ==
    CASE billing = "none"    -> "released"
      [] billing = "charged" -> "charged"
      [] billing = "unknown" -> "reconciling"

\* The catch of attempt: the call did not answer.
SettleFailed(failure) ==
    LET outcome == OutcomeForBilling(failure.billing)
    IN  [outcome   |-> outcome,
         figure    |-> CASE outcome = "released"    -> "nothing"
                         [] outcome = "charged"     -> "reported"
                         [] outcome = "reconciling" -> "hold",
         result    |-> "failed",
         retryable |-> failure.retryable]

\* The charge is settled before the answer is parsed, and parsing changes none
\* of it: prepare's withBilling says so again.
SettleAnswered(sent, usable) ==
    [outcome   |-> "charged",
     figure    |-> IF sent.usage = "figures" THEN "reported" ELSE "hold",
     result    |-> IF usable THEN "succeeded" ELSE "unusable",
     retryable |-> FALSE]

Attempted(x) ==
    LET sent == Send(x)
    IN  IF sent.failed THEN SettleFailed(sent) ELSE SettleAnswered(sent, x.usable)
=============================================================================
