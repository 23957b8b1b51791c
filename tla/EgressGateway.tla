---------------------------- MODULE EgressGateway ----------------------------
(***************************************************************************)
(* EgressGateway.enforce_egress of holly/infra/egress.py.  Requests of     *)
(* several threads run through the pipeline at once and share the rate     *)
(* limiter, the budgets, the audit log and the HTTP client, which are      *)
(* behind protocols: each of their calls is atomic and may raise, with or  *)
(* without effect.  An action is one such call and what follows it up to   *)
(* the next.  The gateway judges a request by the domain it extracts from  *)
(* the URL.  Whether the HTTP client, which parses the URL on its own,     *)
(* connects to that domain is no part of this module.                      *)
(***************************************************************************)
EXTENDS Naturals, FiniteSetsExt

CONSTANTS
    Requests,
    DomainOf,           \* _extract_domain of the URL
    Allowed,            \* keys of _allowed_domains
    WorkflowOf,
    TokensOf,           \* estimate for the redacted body
    RateLimit,          \* rate_limit_per_minute
    Budget              \* of a workflow

VARIABLES
    at,                 \* per request, the call it makes next
    answer,             \* state of its EgressPipelineResult
    window,             \* per domain, the requests of a tenant counted in this minute
    charged,            \* requests deducted from their workflow's budget
    logged,             \* requests with an audit entry
    delivered,          \* requests that the HTTP client has sent out
    response            \* per request, the body that enforce_egress returns

egressVars == <<at, answer, window, charged, logged, delivered, response>>

Init ==
    /\ at = [r \in Requests |-> "start"]
    /\ answer = [r \in Requests |-> "none"]
    /\ window = [d \in Allowed |-> {}]
    /\ charged = {} /\ logged = {} /\ delivered = {}
    /\ response = [r \in Requests |-> "none"]

Go(r, next) ==
    /\ at' = [at EXCEPT ![r] = next]
    /\ UNCHANGED answer

Return(r, state) ==
    /\ at' = [at EXCEPT ![r] = "returned"]
    /\ answer' = [answer EXCEPT ![r] = state]

-----------------------------------------------------------------------------

\* Domain check and redaction of body and headers.
Receive(r) ==
    /\ at[r] = "start"
    /\ \/ DomainOf[r] \notin Allowed /\ Return(r, "DOMAIN_BLOCKED")
       \/ DomainOf[r] \in Allowed /\ Return(r, "REDACTION_ERROR")
       \/ DomainOf[r] \in Allowed /\ Go(r, "rate")
    /\ UNCHANGED <<window, charged, logged, delivered, response>>

HasRate(r) == Cardinality(window[DomainOf[r]]) < RateLimit

\* check_and_increment.  An EgressError of the limiter is answered with the state
\* the pipeline is in, any other exception FAULTED, and the request may have been
\* counted if there was room for it.
CheckRate(r) ==
    LET counted == [window EXCEPT ![DomainOf[r]] = @ \union {r}] IN
    /\ at[r] = "rate"
    /\ \/ HasRate(r) /\ window' = counted /\ Go(r, "budget")
       \/ ~HasRate(r) /\ UNCHANGED window /\ Return(r, "RATE_EXCEEDED")
       \/ /\ UNCHANGED window \/ (HasRate(r) /\ window' = counted)
          /\ Return(r, "RATE_CHECKING") \/ Return(r, "FAULTED")
    /\ UNCHANGED <<charged, logged, delivered, response>>

Spent(w) == MapThenSumSet(LAMBDA r : TokensOf[r], {r \in charged : WorkflowOf[r] = w})

HasBudget(r) == Spent(WorkflowOf[r]) + TokensOf[r] <= Budget

\* check_and_deduct, which may raise as the limiter does; what was counted before
\* stays counted.
CheckBudget(r) ==
    /\ at[r] = "budget"
    /\ \/ HasBudget(r) /\ charged' = charged \union {r} /\ Go(r, "log")
       \/ ~HasBudget(r) /\ UNCHANGED charged /\ Return(r, "BUDGET_EXCEEDED")
       \/ /\ UNCHANGED charged \/ (HasBudget(r) /\ charged' = charged \union {r})
          /\ Return(r, "BUDGET_CHECKING") \/ Return(r, "FAULTED")
    /\ UNCHANGED <<window, logged, delivered, response>>

\* Mutant: a request whose audit entry fails is forwarded all the same.
LogBestEffort(r) ==
    /\ at[r] = "log"
    /\ logged' \in {logged, logged \union {r}}
    /\ Go(r, "send")
    /\ UNCHANGED <<window, charged, delivered, response>>

\* log_egress; a failure denies the request.
Log(r) ==
    /\ at[r] = "log"
    /\ \/ logged' = logged \union {r} /\ Go(r, "send")
       \/ logged' \in {logged, logged \union {r}} /\ Return(r, "LOG_ERROR")
    /\ UNCHANGED <<window, charged, delivered, response>>

\* send; an error or a timeout says nothing of whether the request went out.
Send(r) ==
    /\ at[r] = "send"
    /\ \/ /\ delivered' = delivered \union {r}
          /\ response' = [response EXCEPT ![r] = "raw"]
          /\ Go(r, "redact")
       \/ /\ delivered' \in {delivered, delivered \union {r}}
          /\ UNCHANGED response
          /\ Return(r, "FORWARD_ERROR")
    /\ UNCHANGED <<window, charged, logged>>

\* Redaction of the response; if it fails, the result carries the response with
\* its headers, or all of it, as it came.
RedactResponse(r) ==
    /\ at[r] = "redact"
    /\ \/ response' = [response EXCEPT ![r] = "redacted"] /\ Return(r, "IDLE")
       \/ UNCHANGED response /\ Return(r, "REDACTION_ERROR")
    /\ UNCHANGED <<window, charged, logged, delivered>>

\* The minute of the rate limiter is over.
NextWindow(d) ==
    /\ window[d] # {}
    /\ window' = [window EXCEPT ![d] = {}]
    /\ UNCHANGED <<at, answer, charged, logged, delivered, response>>

Next ==
    \/ \E r \in Requests :
          Receive(r) \/ CheckRate(r) \/ CheckBudget(r) \/ Log(r) \/ Send(r) \/ RedactResponse(r)
    \/ \E d \in Allowed : NextWindow(d)

Spec == Init /\ [][Next]_egressVars

-----------------------------------------------------------------------------

States == {"DOMAIN_BLOCKED", "REDACTION_ERROR", "RATE_CHECKING", "RATE_EXCEEDED",
           "BUDGET_CHECKING", "BUDGET_EXCEEDED", "LOG_ERROR", "FORWARD_ERROR", "FAULTED", "IDLE"}

TypeOK ==
    /\ at \in [Requests -> {"start", "rate", "budget", "log", "send", "redact", "returned"}]
    /\ answer \in [Requests -> States \union {"none"}]
    /\ window \in [Allowed -> SUBSET Requests]
    /\ charged \subseteq Requests /\ logged \subseteq Requests /\ delivered \subseteq Requests
    /\ response \in [Requests -> {"none", "raw", "redacted"}]

\* Nothing is sent out but to an extracted domain that is allowed, paid for and
\* logged, within its workflow's budget, whichever collaborator fails; and the
\* answer tells whether the request went out: it did after IDLE, it may have after
\* FORWARD_ERROR or with a response in hand, and never after any other
\* (enforce_egress).
AnswersAreTrue ==
    \A r \in Requests :
       /\ r \in delivered => DomainOf[r] \in Allowed /\ r \in charged \intersect logged
       /\ Spent(WorkflowOf[r]) <= Budget
       /\ answer[r] = "IDLE" => r \in delivered /\ response[r] = "redacted"
       /\ r \in delivered /\ at[r] = "returned" =>
             answer[r] \in {"IDLE", "FORWARD_ERROR"} \/ response[r] = "raw"
=============================================================================
