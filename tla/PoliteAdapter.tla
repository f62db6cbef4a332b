--------------------------- MODULE PoliteAdapter ---------------------------
(***************************************************************************)
(* The Shopify adapter of a crawl run on top of its polite client: a page  *)
(* of the adapter is a call of get, with the robots.txt of the store, the  *)
(* waits and the retries, and what get returns or raises is what the page  *)
(* answers.  A store is a host of its own.                                 *)
(***************************************************************************)
EXTENDS ShopifyAdapter

CONSTANTS MinInterval, MaxRetries, Backoffs, MaxTime, Never  \* see PoliteClient

ASSUME PolicyAssumption == MinInterval \in Nat /\ MaxRetries \in Nat
ASSUME BackoffsAssumption == Backoffs \subseteq Nat
ASSUME NeverAssumption == Never \notin Nat

VARIABLES now, robots, last, clientPc, host, attempt, sentAt, answer, tries

client == <<now, robots, last, clientPc, host, attempt, sentAt, answer, tries>>

Client == INSTANCE PoliteClient WITH Hosts <- Stores, pc <- clientPc

CrawlInit == Init /\ Client!Init

\* get raises RobotsDisallowed, to which fetch is no wiser than to any exception.
Disallowed == IF clientPc' = "idle" THEN PageRaises ELSE UNCHANGED vars

\* The adapter asks for the next page of the store.
Get == pc = "page" /\ Client!Call(store) /\ Disallowed

RobotsTxt == Client!ReadRobots /\ Disallowed

Request == (Client!Send \/ Client!Retry) /\ UNCHANGED vars

\* get returns a response of any status, or the last request raised.
Response == Client!Return /\ (PageOk \/ PageRefused \/ PageRaises)

\* The adapter between two pages, which asks nobody.
Inside == (Fetch \/ LoadCatalog \/ MatchStore \/ Return \/ Finish) /\ UNCHANGED client

Time == Client!Tick /\ UNCHANGED vars

CrawlNext == Get \/ RobotsTxt \/ Request \/ Response \/ Inside \/ Time

CrawlSpec == CrawlInit /\ [][CrawlNext]_<<vars, client>>

\* A request ends, with its timeout at the latest, and so does a wait.
FairCrawlSpec == CrawlSpec /\ WF_<<vars, client>>(CrawlNext)

-----------------------------------------------------------------------------
\* A store whose robots.txt says no, could not be read or failed is never asked for a page,
\* however often the references of a run come back to it, and is not taken for a store
\* that has nothing to sell: what the run keeps was answered by stores that allow it.
RobotsHonoured == /\ Client!RobotsHonoured
                  /\ \A s \in loaded : answer[s] \in {"rules_allow", "not_found"}

\* Retries, short Retry-After headers and pages of other stores in between never bring two
\* page requests to one store closer than the minimum interval.
PagesSpaced == [][Client!SpacedStep]_client
=============================================================================
