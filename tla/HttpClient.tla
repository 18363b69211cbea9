----------------------------- MODULE HttpClient -----------------------------
(***************************************************************************)
(* One write sent to Decathlon by DecathlonHttpClient                      *)
(* (packages/decathlon/src/http-client.ts): request with either retry      *)
(* policy; requestMultipart behaves as request with the default one.       *)
(*                                                                         *)
(* An attempt that the client has given up may still be under way: what it *)
(* does at Decathlon is a step of its own, which may come late.            *)
(***************************************************************************)
EXTENDS Naturals

CONSTANTS
    MaxRetries,  \* the option maxRetries
    SafeOnly     \* retryPolicy = "rate-limit-only"

ASSUME ClientAssumption == MaxRetries \in Nat /\ SafeOnly \in BOOLEAN

Tries == 1..(MaxRetries + 1)

VARIABLES
    at,       \* where the client is, or how the request ended
    attempt,  \* the attempts begun
    reply,    \* what became of each attempt
    times     \* how often the request took effect at Decathlon

vars == <<at, attempt, reply, times>>

(* "ok": 2xx.  "busy": 502 and 503.  "broken": the other 5xx.  "refused":  *)
(* 4xx other than 429.  "lost": no answer comes.                           *)
Effective == {"ok", "busy", "broken", "lost"}
Idle == {"tooMany", "refused", "busy", "broken", "lost"}
Replies == Effective \cup Idle
Ends == {"ok", "refused", "rateLimited", "unknown", "error", "failed"}

TypeOK ==
    /\ at \in {"send", "await", "body", "backoff"} \cup Ends
    /\ attempt \in 0..(MaxRetries + 1)
    /\ reply \in [Tries -> {"unsent", "underWay"} \cup Replies]
    /\ times \in Nat

Init ==
    /\ at = "send" /\ attempt = 0
    /\ reply = [n \in Tries |-> "unsent"]
    /\ times = 0

-----------------------------------------------------------------------------
(* Decathlon and the network                                               *)

Answer(n, r) ==
    /\ reply[n] = "underWay"
    /\ reply' = [reply EXCEPT ![n] = r]
    /\ UNCHANGED <<at, attempt>>

Apply(n) ==
    /\ \E r \in Effective : Answer(n, r)
    /\ times' = times + 1

(* "only a 429 guarantees Decathlon did nothing", and a 4xx. *)
Ignore(n) ==
    /\ \E r \in Idle : Answer(n, r)
    /\ UNCHANGED times

-----------------------------------------------------------------------------
(* The client                                                              *)

LastTry == attempt > MaxRetries

Send ==
    /\ at = "send" /\ ~LastTry
    /\ attempt' = attempt + 1
    /\ reply' = [reply EXCEPT ![attempt + 1] = "underWay"]
    /\ at' = "await"
    /\ UNCHANGED times

Got(r) == at = "await" /\ reply[attempt] = r

GoTo(place) == at' = place /\ UNCHANGED <<attempt, reply, times>>

Throttled ==
    /\ Got("tooMany")
    /\ GoTo(IF LastTry THEN "rateLimited" ELSE "backoff")

(* A 500 or 504 is never retried; with the default policy it is a plain error. *)
Broken ==
    /\ Got("broken")
    /\ GoTo(IF SafeOnly THEN "unknown" ELSE "error")

(* Faulty variant: the policy is not asked. *)
BusyRetried ==
    /\ Got("busy")
    /\ GoTo(IF LastTry THEN "error" ELSE "backoff")

Busy ==
    /\ Got("busy")
    /\ GoTo(IF SafeOnly THEN "unknown"
            ELSE IF LastTry THEN "error" ELSE "backoff")

Refused == Got("refused") /\ GoTo("refused")

Accepted == Got("ok") /\ GoTo("body")

BodyRead == at = "body" /\ GoTo("ok")

(* The catch block: no answer in timeoutMs, a network error, a body that   *)
(* cannot be read.  Faulty variant: a plain error.                         *)
CaughtAsError == GoTo(IF SafeOnly \/ LastTry THEN "failed" ELSE "backoff")

Caught ==
    GoTo(IF SafeOnly THEN "unknown"
         ELSE IF LastTry THEN "failed" ELSE "backoff")

NoAnswer == at = "await" /\ Caught

BodyLost == at = "body" /\ Caught

Wait == at = "backoff" /\ GoTo("send")

-----------------------------------------------------------------------------
Receive == Throttled \/ Broken \/ Busy \/ Refused \/ Accepted

Client == Send \/ Receive \/ BodyRead \/ NoAnswer \/ BodyLost \/ Wait

Next == Client \/ \E n \in Tries : Apply(n) \/ Ignore(n)

Spec == Init /\ [][Next]_vars

-----------------------------------------------------------------------------
(* Properties                                                              *)

(* "writes that must never be applied twice" (http-client.ts:35): with the *)
(* policy for them, whatever is late or lost, a write takes effect once at *)
(* most.                                                                   *)
AppliedAtMostOnce == SafeOnly => times <= 1

(* What the request ends with is true of Decathlon: a 2xx is a write that  *)
(* took effect, and with the safe policy a refusal is one that did not and *)
(* never will.                                                             *)
OutcomeIsTrue ==
    /\ at \in {"body", "ok"} => times > 0
    /\ SafeOnly /\ at \in {"refused", "rateLimited"} =>
           times = 0 /\ \A n \in Tries : reply[n] # "underWay"

(* The safe policy implements the request the order sync is built on,      *)
(* which takes every error but DecathlonOutcomeUnknownError for a refusal. *)
Told == CASE at = "ok" -> "ok"
          [] at \in {"refused", "rateLimited", "error", "failed"} -> "refused"
          [] at = "unknown" -> "unknown"
          [] OTHER -> "pending"

OneShot == INSTANCE OneShotRequest WITH outcome <- Told
OneShotSpec == OneShot!Spec

=============================================================================
