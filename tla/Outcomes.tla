------------------------------ MODULE Outcomes ------------------------------
(***************************************************************************)
(* How an upstream error is judged: what the client is answered, whether   *)
(* another target may make it good, whether the credential rests, and      *)
(* whom the lane blames.  No state; Stream applies these to every attempt. *)
(* Sources: internal/outwire/errors.go, internal/dataplane/outcome.go,     *)
(* attempt_set.go.                                                         *)
(***************************************************************************)
EXTENDS Integers

(* The sentinel errors of the SDK and the statuses of its APIError.        *)
Sentinels == {"contextTooLong", "invalidRequest", "truncated", "overflow",
              "malformed", "tooLarge", "transport", "other"}
ServerErrors == {"500", "529"}
Statuses == {"400", "401", "402", "403", "404", "408", "410", "422", "429"}
            \cup ServerErrors
Errors == Sentinels \cup Statuses

-----------------------------------------------------------------------------
(* The status and the code the client sees.                                *)
MapUpstreamError(e) ==
  CASE e \in {"contextTooLong"} -> <<400, "context_length_exceeded">>
    [] e \in {"invalidRequest"} -> <<400, "invalid_request_error">>
    [] e \in {"truncated", "overflow"} -> <<200, "">>
    [] e \in {"transport"} -> <<504, "upstream_timeout">>
    [] e \in {"401", "403"} -> <<502, "upstream_auth_error">>
    [] e \in {"402"} -> <<502, "upstream_quota_exhausted">>
    [] e \in {"429"} -> <<429, "rate_limit_exceeded">>
    [] e \in {"529"} -> <<529, "upstream_error">>
    [] e \in {"400"} -> <<400, "invalid_request_error">>
    [] e \in {"404", "410"} -> <<404, "model_not_found">>
    [] e = "other" -> <<500, "internal_error">>
    [] OTHER -> <<502, "upstream_error">>

(* Another target may do better.                                           *)
FailoverEligible(e) ==
  e \in {"malformed", "tooLarge", "transport",
         "401", "402", "403", "404", "408", "410", "429"} \cup ServerErrors

(* Seconds the credential rests.                                           *)
CredentialCooldown(e) ==
  CASE e \in {"401", "403"} -> 1800
    [] e \in {"402"} -> 3600
    [] e \in {"429"} -> 60
    [] OTHER -> 0

(* The class of a code in an OpenAI error body ...                         *)
ErrorTypeFromCode(code) ==
  CASE code \in {"model_not_found", "context_length_exceeded",
                 "invalid_request_error", "request_too_large"} -> "invalid_request_error"
    [] code \in {"invalid_api_key", "upstream_auth_error"} -> "authentication_error"
    [] code = "rate_limit_exceeded" -> "rate_limit_error"
    [] code \in {"insufficient_quota", "insufficient_balance",
                 "upstream_quota_exhausted"} -> "insufficient_quota"
    [] code = "upstream_timeout" -> "timeout_error"
    [] code = "admin_cannot_call_model" -> "permission_error"
    [] OTHER -> "api_error"

-----------------------------------------------------------------------------
(* An outcome of an attempt.                                               *)
Outcome(kind, committed, eligible, rests, status, code) ==
  [kind |-> kind, committed |-> committed, eligible |-> eligible,
   rests |-> rests, status |-> status, code |-> code]

(* OutcomeFromErr: truncated or overflowing before the first event is an   *)
(* upstream failure like any other.                                        *)
FromErr(e) ==
  IF e \in {"truncated", "overflow"}
    THEN Outcome("upstream_failed", FALSE, TRUE, 0, 502, "upstream_error")
    ELSE Outcome("upstream_failed", FALSE, FailoverEligible(e), CredentialCooldown(e),
                 MapUpstreamError(e)[1], MapUpstreamError(e)[2])

(* WithRequestContext: what the end of the request's own context explains  *)
(* is nobody's failure.                                                    *)
InContext(o, ctx) ==
  CASE o.committed -> o
    [] ~o.committed /\ ctx = "canceled" ->
         [o EXCEPT !.kind = "client_aborted", !.eligible = FALSE, !.rests = 0]
    [] ~o.committed /\ ctx = "deadline" ->
         Outcome("gateway_timeout", FALSE, FALSE, 0, 504, "gateway_timeout")
    [] OTHER -> o

FromErrCtx(e, ctx) == InContext(FromErr(e), ctx)

(* Mutant: a client that hung up is a partial delivery like any other.     *)
CommittedKindCanceled(usageStatus) ==
  CASE usageStatus = "ok" -> "committed_success"
    [] usageStatus = "overflow" -> "gateway_overflow"
    [] usageStatus = "timeout" -> "gateway_timeout"
    [] OTHER -> "committed_partial"

(* committedKindForStatus, for a stream that has begun.                    *)
CommittedKind(usageStatus) ==
  CASE usageStatus = "ok" -> "committed_success"
    [] usageStatus = "overflow" -> "gateway_overflow"
    [] usageStatus = "timeout" -> "gateway_timeout"
    [] usageStatus = "canceled" -> "client_aborted"
    [] OTHER -> "committed_partial"

(* LaneDecision: the verdict the lane acts on.                             *)
NormalizedKind(o) ==
  IF o.kind = "client_aborted" /\ o.committed /\ o.code = "downstream_write_failed"
    THEN "downstream_write_failed" ELSE o.kind

LaneDecision(o) ==
  LET k == NormalizedKind(o) IN
  [kind |-> k,
   committed |-> o.committed \/ k \notin {"upstream_failed", "client_aborted"},
   success  |-> k = "committed_success",
   eligible |-> k = "upstream_failed" /\ o.eligible,
   penalize |-> k = "committed_partial" \/ (k = "upstream_failed" /\ o.eligible)]

UsageStatus(kind, code) ==
  CASE kind = "committed_success" -> "ok"
    [] kind \in {"client_aborted", "downstream_write_failed"} -> "canceled"
    [] kind = "gateway_timeout" -> "timeout"
    [] kind = "gateway_overflow" -> "overflow"
    [] kind = "committed_partial" /\ code \in {"stream_truncated", "stream_idle_timeout"} -> "truncated"
    [] OTHER -> "error"
=============================================================================
