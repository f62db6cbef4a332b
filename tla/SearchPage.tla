----------------------------- MODULE SearchPage -----------------------------
(***************************************************************************)
(* The search page: the streams of the searches a visitor starts, the one  *)
(* results area, buffer and last result all of them write to, and the      *)
(* panel that lists the rows behind a card.  Each stream keeps the         *)
(* contract of StreamContract, or its connection fails; the script runs    *)
(* one event to its end at a time.                                         *)
(***************************************************************************)
EXTENDS Naturals, Sequences, FiniteSets

CONSTANTS NSearches,  \* the searches of one visit, in the order they are started
          MaxWords,   \* bound: pieces of prose of one search
          MaxActs,    \* bound: searches started and panels opened
          NoSearch

ASSUME NoSearchAssumption == NoSearch \notin 1..NSearches
ASSUME PageBoundsAssumption == NSearches \in Nat /\ MaxWords \in Nat /\ MaxActs \in Nat

Searches == 1..NSearches

VARIABLES stream,     \* per search: how far its stream has come, with the figures it told
          words,      \* per search: the pieces of prose streamed
          card,       \* #results: kind, the search it is of, #stream-text and the prose it shows
          streamBuf,  \* the buffer of appendStream
          lastResult, \* what the panel would be of: a search and the kind of its result
          disabled,   \* #go
          panel,      \* #overlay and #modal: open, the search of its head, of its rows
          fetches,    \* the searches whose listings are being fetched
          opened,     \* bound: times the panel was opened
          overlapped, \* history: the last search was started while another awaited its result
          late        \* history: the panel was opened while a list was being fetched

pageVars == <<stream, words, card, streamBuf, lastResult, disabled, panel, fetches, opened,
              overlapped, late>>

\* Figures of the crawl, or of the live web; both come in a partial and get prose.
Figured == {"priced", "web"}
Kinds == {"none", "skeleton", "plain", "message"} \cup Figured
Word == Searches \X (1..MaxWords)

PageTypeOK ==
  /\ stream \in [Searches -> {"new", "requested", "settled", "ended"} \cup Figured]
  /\ words \in [Searches -> 0..MaxWords]
  /\ card \in [kind : Kinds, of : Searches \cup {NoSearch}, prose : Seq(Word),
               host : {"none", "shown", "hidden"}, settled : BOOLEAN]
  /\ streamBuf \in Seq(Word)
  /\ lastResult \in [of : Searches \cup {NoSearch}, kind : {"none", "plain"} \cup Figured]
  /\ disabled \in BOOLEAN
  /\ panel \in [open : BOOLEAN, of : Searches \cup {NoSearch},
                rows : Searches \cup {NoSearch}]
  /\ fetches \in Seq(Searches)
  /\ opened \in Nat
  /\ overlapped \in BOOLEAN /\ late \in BOOLEAN

\* The searches whose result is still to come, and those whose stream is open.
Awaiting == {s \in Searches : stream[s] \in {"requested"} \cup Figured}
Running == {s \in Searches : stream[s] \in {"requested", "settled"} \cup Figured}

PageInit ==
  /\ stream = [s \in Searches |-> "new"]
  /\ words = [s \in Searches |-> 0]
  /\ card = [kind |-> "none", of |-> NoSearch, prose |-> <<>>, host |-> "none", settled |-> FALSE]
  /\ streamBuf = <<>>
  /\ lastResult = [of |-> NoSearch, kind |-> "none"]
  /\ disabled = FALSE
  /\ panel = [open |-> FALSE, of |-> NoSearch, rows |-> NoSearch]
  /\ fetches = <<>>
  /\ opened = 0
  /\ overlapped = FALSE /\ late = FALSE

panelVars == <<panel, fetches, opened, late>>

-----------------------------------------------------------------------------
\* What the events write.

\* A card with figures has an empty #stream-text for the prose to come.
Show(kind, s) == [kind |-> kind, of |-> s, prose |-> <<>>, settled |-> FALSE,
                  host |-> IF kind \in Figured THEN "shown" ELSE "none"]

\* The whole explanation of s: what the server assembled from its pieces.
Explanation(s) == [i \in 1..words[s] |-> <<s, i>>]

\* renderResult(r): without prose, the analysis of crawled figures hides its #stream-text
\* and a card of the live web has no analysis.
Host(kind, s) == IF kind \in Figured /\ words[s] > 0 THEN "shown"
                 ELSE IF kind = "priced" THEN "hidden" ELSE "none"

RenderResult(kind, s) == [kind |-> kind, of |-> s, host |-> Host(kind, s), settled |-> TRUE,
                          prose |-> IF kind \in Figured THEN Explanation(s) ELSE <<>>]

\* Mutant: the prose is cut off where the stream was when the result arrived.
FinalizeUnsettled(kind, s) == IF card.host = "none" THEN RenderResult(kind, s) ELSE card

\* finalizeStream(r): the text settles in the card on screen, whichever it is; a hidden
\* #stream-text stays hidden.
Finalize(kind, s) ==
  IF card.host = "none" THEN RenderResult(kind, s)
  ELSE [card EXCEPT !.settled = TRUE,
                    !.host = IF words[s] > 0 THEN @ ELSE "hidden",
                    !.prose = IF card.host = "shown" THEN Explanation(s) ELSE <<>>]

Result(kind, s) == [of |-> s, kind |-> kind]

-----------------------------------------------------------------------------
\* Searches: the form while its button is enabled, a tile or a choice at any time.

Reset == streamBuf' = <<>>

\* The visitor does not leave the page yet.
Stays == Cardinality({s \in Searches : stream[s] # "new"}) + opened < MaxActs

RunSearch(s) == /\ Stays
                /\ stream[s] = "new" /\ \A r \in 1..(s - 1) : stream[r] # "new"
                /\ stream' = [stream EXCEPT ![s] = "requested"]
                /\ disabled' = TRUE
                /\ card' = Show("skeleton", s)
                /\ Reset
                /\ overlapped' = (Awaiting # {})
                /\ UNCHANGED <<words, lastResult, panelVars>>

\* {"type": "partial"}
OnPartial(s) == /\ stream[s] = "requested"
                /\ \E kind \in Figured : /\ stream' = [stream EXCEPT ![s] = kind]
                                         /\ card' = Show(kind, s)
                                         /\ lastResult' = Result(kind, s)
                /\ UNCHANGED <<words, streamBuf, disabled, overlapped, panelVars>>

\* {"type": "text"}: appendStream writes the whole buffer into the host there is.
OnText(s) == /\ stream[s] \in Figured /\ words[s] < MaxWords
             /\ words' = [words EXCEPT ![s] = @ + 1]
             /\ streamBuf' = Append(streamBuf, <<s, words'[s]>>)
             /\ card' = IF card.host = "shown" THEN [card EXCEPT !.prose = streamBuf'] ELSE card
             /\ UNCHANGED <<stream, lastResult, disabled, overlapped, panelVars>>

\* The ending has been shown: the script awaits the end of the stream.
Settled(s) == /\ stream' = [stream EXCEPT ![s] = "settled"]
              /\ UNCHANGED <<words, streamBuf, disabled, overlapped, panelVars>>

\* {"type": "result"} after a partial
OnFinalResult(s) == /\ stream[s] \in Figured
                    /\ card' = Finalize(stream[s], s)
                    /\ lastResult' = Result(stream[s], s)
                    /\ Settled(s)

\* {"type": "result"} of a search without figures: choices, listings or a message
OnPlainResult(s) == /\ stream[s] = "requested"
                    /\ card' = RenderResult("plain", s)
                    /\ lastResult' = Result("plain", s)
                    /\ Settled(s)

\* {"type": "error"}
OnError(s) == /\ stream[s] = "requested"
              /\ card' = Show("message", s)
              /\ Settled(s)
              /\ UNCHANGED lastResult

\* Mutant: the button is enabled behind the loop, not in the finally.
EndedOnResult(s) == /\ stream' = [stream EXCEPT ![s] = "ended"]
                    /\ disabled' = (disabled /\ card' # card)

\* Every way out of runSearch enables the button.
Ended(s) == /\ stream' = [stream EXCEPT ![s] = "ended"]
            /\ disabled' = FALSE

\* The reader is done.
Close(s) == /\ stream[s] = "settled"
            /\ UNCHANGED card
            /\ Ended(s)
            /\ UNCHANGED <<words, streamBuf, lastResult, overlapped, panelVars>>

\* A response that is not ok, or a connection that fails, behind the result as well.
ConnectionFails(s) == /\ s \in Running
                      /\ card' = Show("message", s)
                      /\ Ended(s)
                      /\ UNCHANGED <<words, streamBuf, lastResult, overlapped, panelVars>>

-----------------------------------------------------------------------------
\* The panel, opened by the button of a card with crawled figures, of the last result if
\* that has such figures too.

Opens == Stays /\ card.kind = "priced" /\ lastResult.kind = "priced" /\ ~panel.open

\* Mutant: the panel shows the rows it was closed with until its own arrive.
OpenModalKept == /\ Opens
                 /\ panel' = [panel EXCEPT !.open = TRUE, !.of = lastResult.of]
                 /\ fetches' = Append(fetches, lastResult.of)
                 /\ late' = (fetches # <<>>)
                 /\ opened' = opened + 1
                 /\ UNCHANGED <<stream, words, card, streamBuf, lastResult, disabled, overlapped>>

OpenModal == /\ Opens
             /\ panel' = [open |-> TRUE, of |-> lastResult.of, rows |-> NoSearch]
             /\ fetches' = Append(fetches, lastResult.of)
             /\ late' = (fetches # <<>>)
             /\ opened' = opened + 1
             /\ UNCHANGED <<stream, words, card, streamBuf, lastResult, disabled, overlapped>>

\* The answers of the fetches arrive in any order and write to the rows there
\* are; a fetch that fails writes a message there.
ListingsArrive(i) ==
  /\ \E rows \in {fetches[i], NoSearch} : panel' = [panel EXCEPT !.rows = rows]
  /\ fetches' = [j \in 1..(Len(fetches) - 1) |-> IF j < i THEN fetches[j] ELSE fetches[j + 1]]
  /\ UNCHANGED <<stream, words, card, streamBuf, lastResult, disabled, opened, overlapped, late>>

CloseModal == /\ panel.open
              /\ panel' = [panel EXCEPT !.open = FALSE]
              /\ UNCHANGED <<stream, words, card, streamBuf, lastResult, disabled, overlapped,
                             fetches, opened, late>>

Event(s) == \/ OnPartial(s) \/ OnText(s) \/ OnFinalResult(s) \/ OnPlainResult(s) \/ OnError(s)
            \/ Close(s) \/ ConnectionFails(s)

PageNext ==
  \/ \E s \in Searches : RunSearch(s) \/ Event(s)
  \/ \E i \in DOMAIN fetches : ListingsArrive(i)
  \/ OpenModal \/ CloseModal

\* Each stream goes on to its end: the server ends it or the connection fails.
PageFairness == \A s \in Searches : WF_pageVars(Event(s))

PageSpec == PageInit /\ [][PageNext]_pageVars /\ PageFairness

-----------------------------------------------------------------------------
\* The words under the figures of a search that was started alone are its own, from the
\* first on and none left out: nothing of the searches before it remains, although they
\* may have overlapped and written over each other, and the connection of the last one may
\* still be open and fail.
ProseIsOwn == ~overlapped => \A i \in DOMAIN card.prose : card.prose[i] = <<card.of, i>>

\* Once such a search has its result, its answer stands: its figures with the whole of the
\* prose, settled, and the panel would be of the same result; or why it failed.
AnswerStands ==
  ~overlapped /\ Awaiting = {} /\ card.kind \in Figured =>
     /\ card.settled /\ card.prose = Explanation(card.of)
     /\ lastResult = Result(card.kind, card.of)

\* A search that was started alone has the card to itself, while it runs and afterwards.
CardIsOwn == PageTypeOK /\ ProseIsOwn /\ AnswerStands

\* However searches overlap and fail, the button comes back.
ButtonComesBack == disabled ~> ~disabled

\* The panel lists the rows of the reference at its head, whatever was searched and shown
\* before, unless it was opened while the list of an earlier panel was on its way.
PanelRowsOfHead == panel.open /\ panel.rows # NoSearch /\ ~late => panel.rows = panel.of
=============================================================================
