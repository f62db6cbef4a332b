----------------------------- MODULE WebSearch -----------------------------
(***************************************************************************)
(* One request to POST /api/search/stream: the task that searches and puts *)
(* events on a queue, the generator that drains the queue to the client,   *)
(* and the client, who may leave at any time.  An action of the search is  *)
(* the code from one await of a remote call to the next: putting on the    *)
(* unbounded queue never waits.  A remote call answers or raises.          *)
(***************************************************************************)
EXTENDS Integers, Sequences, FiniteSets, SequencesExt, Subsequences

CONSTANTS Refs,       \* the tracked references
          Chunks,     \* pieces of prose the model streams
          Blank,      \* the piece that is only white space
          MaxChunks,  \* bound: pieces of one explanation
          MaxPick,    \* bound: references the model names in one pick
          None

ASSUME ChunksAssumption == Blank \in Chunks
ASSUME NoneAssumption == None \notin Refs
ASSUME BoundsAssumption == MaxChunks \in Nat /\ MaxPick \in Nat

VARIABLES pc,         \* what the search awaits
          candidates, \* the references the model may pick from
          result,     \* the SearchResult so far
          parts,      \* the prose so far
          webCall, liveCall,  \* the two lookups of asyncio.gather
          queue,      \* the events between the search and the generator
          gen, item,  \* the generator, and the event it is sending
          client,     \* "on", or "gone" once it has disconnected
          told,       \* history: the events the client has received
          blame       \* history: the remote call whose exception ended the search

search == <<pc, candidates, result, parts, webCall, liveCall, blame>>
vars == <<search, queue, gen, item, client, told>>

Contract == INSTANCE StreamContract
              WITH stream <- IF client = "gone" THEN "cut"
                             ELSE IF gen \in {"reading", "sending"} THEN "open" ELSE "ended"

Sentinel == [type |-> "sentinel"]
Events == {Contract!Stage, Contract!Error}
          \cup {Contract!Text(c) : c \in Chunks}
          \cup [type : {"partial"}, figures : Contract!Figures]
          \cup [type : {"result"}, figures : Contract!Figures, explanation : Seq(Chunks)]

\* search_web_market makes two calls: the grounded search and the extraction.
Looking == {"out", "extracting"}

TypeOK ==
  /\ pc \in {"start", "find", "list", "pick", "cheapest", "fair", "market", "status",
             "explain", "ended"}
  /\ candidates \subseteq Refs
  /\ result \in Contract!Figures
  /\ parts \in Seq(Chunks)
  /\ webCall \in {"none", "found", "nothing"} \cup Looking
  /\ liveCall \in {"none", "out", "found", "nothing"}
  /\ queue \in Seq(Events \cup {Sentinel})
  /\ gen \in {"reading", "sending", "joining", "closed"}
  /\ item \in Events \cup {Sentinel}
  /\ client \in {"on", "gone"}
  /\ told \in Seq(Events)
  /\ blame \in {None, "find", "list", "pick", "cheapest", "fair", "live", "cancelled"}

Nothing == [resolved |-> None, choices |-> <<>>, priced |-> FALSE, web |-> FALSE, live |-> FALSE]

Init == /\ pc = "start" /\ candidates = {} /\ result = Nothing /\ parts = <<>>
        /\ webCall = "none" /\ liveCall = "none"
        /\ queue = <<>> /\ gen = "reading" /\ item = Sentinel
        /\ client = "on" /\ told = <<>> /\ blame = None

-----------------------------------------------------------------------------
\* run() of main.py: what every way out of run_search puts on the queue.

\* Mutant: a failed search puts no error.
FailSilent == queue' = Append(queue, Sentinel)

\* Mutant: the sentinel is not in a finally.
FailOpen == queue' = Append(queue, Contract!Error)

Fail == queue' = queue \o <<Contract!Error, Sentinel>>

\* The result without the prose, of which the search has streamed none.
Return(stages, figures) ==
  /\ pc' = "ended"
  /\ result' = figures
  /\ queue' = queue \o stages \o <<Contract!Result(figures, <<>>), Sentinel>>

Raise(call) == /\ pc' = "ended" /\ blame' = call /\ Fail
               /\ UNCHANGED <<candidates, result, parts, webCall, liveCall>>

Say(events) == queue' = queue \o events

-----------------------------------------------------------------------------
\* run_search up to the reference: strip, _resolve.

Begin == /\ pc = "start"
         /\ \/ Return(<<>>, Nothing)              \* a query that is all white space
            \/ pc' = "find" /\ Say(<<Contract!Stage>>) /\ UNCHANGED result
         /\ UNCHANGED <<candidates, parts, webCall, liveCall, blame>>

\* The one reference: the search goes on to its prices.
Resolved(ref) == /\ pc' = "cheapest"
                 /\ result' = [Nothing EXCEPT !.resolved = ref]
                 /\ Say(<<Contract!Stage, Contract!Stage>>)
                 /\ UNCHANGED candidates

Disambiguate(refs) == /\ pc' = "pick" /\ candidates' = refs
                      /\ Say(<<Contract!Stage>>)
                      /\ UNCHANGED result

Unmatched == Return(<<>>, Nothing) /\ UNCHANGED candidates

FindReference ==
  /\ pc = "find"
  /\ \E matches \in SUBSET Refs : \E exact \in SUBSET matches :
        \/ \E ref \in exact : exact = {ref} /\ Resolved(ref)
        \/ \E ref \in matches : Cardinality(exact) # 1 /\ matches = {ref} /\ Resolved(ref)
        \/ /\ Cardinality(exact) # 1 /\ Cardinality(matches) > 1
           /\ Disambiguate(matches)
        \/ /\ matches = {}
           /\ pc' = "list" /\ Say(<<Contract!Stage>>) /\ UNCHANGED <<candidates, result>>
  /\ UNCHANGED <<parts, webCall, liveCall, blame>>

ListTrackedReferences ==
  /\ pc = "list"
  /\ \E refs \in SUBSET Refs : IF refs = {} THEN Unmatched ELSE Disambiguate(refs)
  /\ UNCHANGED <<parts, webCall, liveCall, blame>>

\* The references the model names that are on the list: it may name one twice,
\* or one that is not tracked.
Known(named) == Within(named, candidates)

Choose(refs) == /\ Return(<<Contract!Stage, Contract!Stage>>, [Nothing EXCEPT !.choices = refs])
                /\ UNCHANGED candidates

ResolveReference ==
  /\ pc = "pick"
  /\ \E named \in BoundedSeq(Refs \cup {None}, MaxPick) :
        \/ Known(named) = <<>> /\ Unmatched
        \/ Len(Known(named)) = 1 /\ Resolved(Known(named)[1])
        \/ Len(Known(named)) > 1 /\ Choose(Known(named))
  /\ UNCHANGED <<parts, webCall, liveCall, blame>>

-----------------------------------------------------------------------------
\* run_search from the reference on.

\* Whether the cheapest listing was found is kept in result.priced until the
\* fair price is known too.
GetCheapestListing ==
  /\ pc = "cheapest"
  /\ \E found \in BOOLEAN : result' = [result EXCEPT !.priced = found]
  /\ pc' = "fair"
  /\ UNCHANGED <<candidates, parts, webCall, liveCall, queue, blame>>

\* Mutant: the prose is asked for before the figures are told.
ExplainFirst(figures) == /\ pc' = "explain"
                         /\ result' = figures
                         /\ Say(<<Contract!Stage>>)

\* The figures are told before the prose about them is asked for.
Explain(figures) == /\ pc' = "explain"
                    /\ result' = figures
                    /\ Say(<<Contract!Partial(figures), Contract!Stage>>)

GetFairPrice ==
  /\ pc = "fair"
  /\ \E found \in BOOLEAN :
        IF found /\ result.priced
        THEN Explain(result) /\ UNCHANGED <<webCall, liveCall>>
        ELSE /\ pc' = "market"
             /\ result' = [result EXCEPT !.priced = FALSE]
             /\ webCall' = "out" /\ liveCall' = "out"
             /\ Say(<<Contract!Stage>>)
  /\ UNCHANGED <<candidates, parts, blame>>

\* Both lookups of the gather have answered.
Settle(web, live) ==
  LET figures == [result EXCEPT !.web = web = "found", !.live = live = "found"]
  IN  \/ figures.web /\ Explain(figures)
      \/ ~figures.web /\ figures.live /\ Return(<<Contract!Stage>>, figures)
      \/ /\ ~figures.web /\ ~figures.live
         /\ pc' = "status" /\ UNCHANGED <<result, queue>>

\* One lookup of the gather answers: the search goes on with the last one.
WebAnswers(answer) == /\ webCall' = answer
                      /\ IF pc = "market" /\ liveCall # "out"
                         THEN Settle(answer, liveCall)
                         ELSE UNCHANGED <<pc, result, queue>>
                      /\ UNCHANGED <<candidates, parts, liveCall, blame>>

\* search_web_market answers nothing where it fails or is not grounded; a grounded
\* answer is worth a second call.
SearchWebMarket ==
  /\ webCall = "out"
  /\ \/ WebAnswers("nothing")
     \/ webCall' = "extracting"
        /\ UNCHANGED <<pc, candidates, result, parts, liveCall, queue, blame>>

\* However the extraction ends, the grounded text is an answer.
ExtractOffers == webCall = "extracting" /\ WebAnswers("found")

SearchLiveListings ==
  /\ liveCall = "out" /\ pc = "market"
  /\ \E answer \in {"found", "nothing"} :
        /\ liveCall' = answer
        /\ IF webCall \notin Looking THEN Settle(webCall, answer) ELSE UNCHANGED <<pc, result, queue>>
  /\ UNCHANGED <<candidates, parts, webCall, blame>>

\* gather raises the first exception and leaves the other lookup running.
LiveListingsRaise ==
  /\ liveCall = "out" /\ pc = "market"
  /\ liveCall' = "nothing"
  /\ pc' = "ended" /\ blame' = "live" /\ Fail
  /\ UNCHANGED <<candidates, result, parts, webCall>>

\* An exception of service_status is caught: the message just says less.
ServiceStatus == /\ pc = "status"
                 /\ Return(<<Contract!Stage>>, result)
                 /\ UNCHANGED <<candidates, parts, webCall, liveCall, blame>>

\* One piece of prose: kept for the result and told at once.
Chunk == /\ pc = "explain" /\ Len(parts) < MaxChunks
         /\ \E c \in Chunks : parts' = Append(parts, c) /\ Say(<<Contract!Text(c)>>)
         /\ UNCHANGED <<pc, candidates, result, webCall, liveCall, blame>>

\* The prose is complete, or the model failed in the middle of it.
Explained ==
  /\ pc = "explain"
  /\ pc' = "ended"
  /\ Say(<<Contract!Stage, Contract!Result(result, Contract!Strip(parts)), Sentinel>>)
  /\ UNCHANGED <<candidates, result, parts, webCall, liveCall, blame>>

CallRaises == pc \in {"find", "list", "pick", "cheapest", "fair"} /\ Raise(pc)

SearchStep == \/ Begin \/ FindReference \/ ListTrackedReferences \/ ResolveReference
              \/ GetCheapestListing \/ GetFairPrice \/ SearchWebMarket \/ ExtractOffers
              \/ SearchLiveListings \/ LiveListingsRaise \/ ServiceStatus \/ Chunk \/ Explained \/ CallRaises

Search == SearchStep /\ UNCHANGED <<gen, item, client, told>>

-----------------------------------------------------------------------------
\* events() of main.py.

Get == /\ gen = "reading" /\ queue # <<>>
       /\ queue' = Tail(queue)
       /\ IF Head(queue) = Sentinel
          THEN gen' = "joining" /\ UNCHANGED item
          ELSE gen' = "sending" /\ item' = Head(queue)
       /\ UNCHANGED <<search, client, told>>

\* What is sent to a client that has gone is dropped.
Yield == /\ gen = "sending"
         /\ told' = IF client = "on" THEN Append(told, item) ELSE told
         /\ gen' = "reading"
         /\ UNCHANGED <<search, queue, item, client>>

Joined == /\ gen = "joining" /\ pc = "ended"
          /\ gen' = "closed"
          /\ UNCHANGED <<search, queue, item, client, told>>

Disconnect == /\ client = "on" /\ gen \in {"reading", "sending"}
              /\ client' = "gone"
              /\ UNCHANGED <<search, queue, gen, item, told>>

\* Mutant: the lookups are tasks of their own, which a cancelled search leaves running.
LeftRunning(call) == call

\* Cancelling the await of gather cancels what it gathers.
Cancelled(call) == IF call \in Looking THEN "nothing" ELSE call

\* Noticing that the client is gone, the server cancels the generator where it
\* waits, in the get of the queue; its await of the task is cancelled in turn, and
\* with it the search and both lookups.  CancelledError is no Exception: run()
\* puts no error, only the sentinel of its finally.
Cancel == /\ client = "gone" /\ gen = "reading" /\ pc # "start"
          /\ gen' = "joining"
          /\ IF pc = "ended"
             THEN UNCHANGED <<search, queue>>
             ELSE /\ pc' = "ended" /\ blame' = "cancelled"
                  /\ queue' = Append(queue, Sentinel)
                  /\ webCall' = Cancelled(webCall) /\ liveCall' = Cancelled(liveCall)
                  /\ UNCHANGED <<candidates, result, parts>>
          /\ UNCHANGED <<item, client, told>>

\* Cancelled in the middle of a send, the generator is left at its yield and
\* closed later: its finally then waits for a search nobody cancels.
Abandon == /\ client = "gone" /\ gen = "sending"
           /\ gen' = "joining"
           /\ UNCHANGED <<search, queue, item, client, told>>

Generator == Get \/ Yield \/ Joined \/ Cancel \/ Abandon

Next == Search \/ Generator \/ Disconnect

\* A remote call answers or times out, the model's stream ends, the event loop
\* runs what is ready and a client reads or goes; nobody has to disconnect, and
\* a disconnect need not be noticed.
Fairness == WF_vars(Search) /\ WF_vars(Get \/ Yield) /\ WF_vars(Joined)

Spec == Init /\ [][Next]_vars /\ Fairness

-----------------------------------------------------------------------------
\* What the page receives follows the contract: progress, one partial with
\* figures, prose after it, one ending that repeats both or, where no figures
\* are told, an error, and the stream is not closed before the ending.
KeepsContract == Contract!Spec

\* What may still run when the response is over: nothing of the search, neither the task nor
\* a lookup, except the web lookup that gather leaves behind when the live one raises, which
\* goes on, for at most its two calls, with nobody to take its answer.
NoSearchOutlivesStream ==
  gen = "closed" => /\ pc = "ended"
                    /\ liveCall # "out"
                    /\ webCall \in Looking => blame = "live"

\* A search stays within its request: it tells of tracked references only, whatever the
\* model names, and however its client leaves, no lookup of a cancelled search goes on.
SearchContained == TypeOK /\ NoSearchOutlivesStream

\* Every response ends: no failure, cancellation or disconnect leaves the
\* generator waiting for an event that does not come.
StreamEnds == <>(gen = "closed")

\* fetcher.py:21-23 of the tool server: a live lookup "must never be the reason a search fails".
LiveLookupHarmless == blame # "live"
=============================================================================
