---------------------------- MODULE PoliteClient ----------------------------
(***************************************************************************)
(* The HTTP client of the adapters: robots.txt before anything else, a     *)
(* minimum interval between the page requests to one host, a bounded       *)
(* number of retries on 429 and 5xx.  One client serves one adapter, one   *)
(* call at a time.  time.sleep is a jump of the clock; Tick is all the     *)
(* time the network and the adapter take.  An adapter asks one url per     *)
(* host, so the cached parser has one verdict.  The requests httpx makes   *)
(* on its own to follow a redirect are part of the request they belong to. *)
(***************************************************************************)
EXTENDS Naturals

CONSTANTS Hosts,
          MinInterval,  \* min_interval_seconds
          MaxRetries,   \* max_retries
          Backoffs,     \* delays a retry may wait: 2^attempt plus jitter, or Retry-After
          MaxTime,      \* bound: no tick after it
          Never         \* no request yet

VARIABLES now,     \* time.monotonic()
          robots,  \* the verdict of the parser cached per origin
          last,    \* _last_request_at
          pc, host, attempt,  \* the call of get under way
          sentAt,  \* history: when the client's last page request to a host left
          answer,  \* history: what its robots.txt answered
          tries    \* history: page requests of this call

history == <<sentAt, answer, tries>>
vars == <<now, robots, last, pc, host, attempt, history>>

Times == Nat \cup {Never}

\* Answers to the request for robots.txt and what each allows of the url asked.
Verdict == [rules_allow |-> "allow", rules_forbid |-> "disallow", forbidden |-> "disallow",
            not_found |-> "allow", server_error |-> "disallow", unreachable |-> "disallow"]

TypeOK == /\ now \in Nat
          /\ robots \in [Hosts -> {"unknown", "allow", "disallow"}]
          /\ last \in [Hosts -> Times]
          /\ pc \in {"idle", "robots", "limit", "response"}
          /\ host \in Hosts
          /\ attempt \in 0..MaxRetries
          /\ sentAt \in [Hosts -> Times]
          /\ answer \in [Hosts -> DOMAIN Verdict \cup {"none"}]
          /\ tries \in Nat

Init == /\ now = 0
        /\ robots = [h \in Hosts |-> "unknown"]
        /\ last = [h \in Hosts |-> Never]
        /\ pc = "idle"
        /\ host \in Hosts
        /\ attempt = 0
        /\ sentAt = [h \in Hosts |-> Never]
        /\ answer = [h \in Hosts |-> "none"]
        /\ tries = 0

\* Mutant: the verdict of an earlier call is taken for a permission.
CallTrusting(h) == /\ pc = "idle"
                   /\ host' = h
                   /\ attempt' = 0
                   /\ tries' = 0
                   /\ pc' = IF robots[h] = "unknown" THEN "robots" ELSE "limit"
                   /\ UNCHANGED <<now, robots, last, sentAt, answer>>

\* get(url): robots.txt is looked up first, from the cache when it is there; a
\* forbidden url raises RobotsDisallowed and the call is over.
Call(h) == /\ pc = "idle"
           /\ host' = h
           /\ attempt' = 0
           /\ tries' = 0
           /\ pc' = CASE robots[h] = "unknown"  -> "robots"
                      [] robots[h] = "allow"    -> "limit"
                      [] robots[h] = "disallow" -> "idle"
           /\ UNCHANGED <<now, robots, last, sentAt, answer>>

\* _robots_for: one request, outside the rate limit, cached whatever it answered.
ReadRobots == /\ pc = "robots"
              /\ \E a \in DOMAIN Verdict :
                   /\ answer' = [answer EXCEPT ![host] = a]
                   /\ robots' = [robots EXCEPT ![host] = Verdict[a]]
                   /\ pc' = IF Verdict[a] = "allow" THEN "limit" ELSE "idle"
              /\ UNCHANGED <<now, last, host, attempt, sentAt, tries>>

\* When _respect_rate_limit lets a request to h go.
Ready(h) == IF last[h] = Never THEN now
            ELSE IF last[h] + MinInterval <= now THEN now ELSE last[h] + MinInterval

\* Mutant: the time is noted before the sleep.
SendNotedEarly == /\ pc = "limit"
                  /\ now' = Ready(host)
                  /\ last' = [last EXCEPT ![host] = now]
                  /\ sentAt' = [sentAt EXCEPT ![host] = now']
                  /\ tries' = tries + 1
                  /\ pc' = "response"
                  /\ UNCHANGED <<robots, host, attempt, answer>>

\* _respect_rate_limit: sleep until the interval is over, note the time; then the
\* request leaves.
Send == /\ pc = "limit"
        /\ now' = Ready(host)
        /\ last' = [last EXCEPT ![host] = now']
        /\ sentAt' = [sentAt EXCEPT ![host] = now']
        /\ tries' = tries + 1
        /\ pc' = "response"
        /\ UNCHANGED <<robots, host, attempt, answer>>

\* The response of a page: its status is final, or the request itself failed.
Return == /\ pc = "response"
          /\ pc' = "idle"
          /\ UNCHANGED <<now, robots, last, host, attempt, history>>

RetryAllowed == attempt < MaxRetries

\* 429 or 5xx with retries left: wait, then go round the loop again.
Retry == /\ pc = "response"
         /\ RetryAllowed
         /\ \E delay \in Backoffs : now' = now + delay
         /\ attempt' = attempt + 1
         /\ pc' = "limit"
         /\ UNCHANGED <<robots, last, host, history>>

Tick == /\ now < MaxTime
        /\ now' = now + 1
        /\ UNCHANGED <<robots, last, pc, host, attempt, history>>

Next == \/ \E h \in Hosts : Call(h)
        \/ ReadRobots \/ Send \/ Return \/ Retry \/ Tick

Spec == Init /\ [][Next]_vars

-----------------------------------------------------------------------------
\* get may be called again and again on a host whose robots.txt said no, could not be
\* read or failed: the client never sends it a page request of its own.
RobotsHonoured == \A h \in Hosts : sentAt[h] # Never => answer[h] \in {"rules_allow", "not_found"}

\* A host's robots.txt is read once in the life of a client, and a verdict, the one of a
\* failed read included, is never revised between two pages of one catalogue.
RobotsStepStable == \A h \in Hosts : answer[h] # "none" => answer'[h] = answer[h]
RobotsReadOnce == [][RobotsStepStable]_vars

\* Retries, short Retry-After headers and calls for other hosts in between never bring two
\* page requests to one host closer than the minimum interval.
SpacedStep == tries' > tries /\ sentAt[host] # Never
                => sentAt'[host] >= sentAt[host] + MinInterval
PagesSpaced == [][SpacedStep]_vars

\* A host that answers 429 for ever gets max_retries + 1 requests per call.
CallBounded == tries <= MaxRetries + 1
=============================================================================
