------------------------------ MODULE WebProofs ------------------------------
(***************************************************************************)
(* What holds of the web service: of a search and its stream, for any      *)
(* references, any prose and any length of it; of the page, for any number *)
(* of searches and panels; and of the conversation of the orchestrator,    *)
(* for any tools, any limit of turns and any number of calls in a turn.    *)
(***************************************************************************)
EXTENDS WebSearch, SearchPage, Orchestrator, SequenceTheorems, SequenceLemmas

-----------------------------------------------------------------------------
\* What has been put for the client: what it received, what is being sent, and the queue.
Sending == IF gen = "sending" THEN <<item>> ELSE <<>>
Put == told \o Sending \o queue

Items == Events \cup {Sentinel}

\* Every event may follow those before it.
Kept(s) == \A n \in DOMAIN s :
             s[n] # Sentinel => Contract!Follows(SubSeq(s, 1, n - 1), s[n])

\* Before the figures: progress only.
Progress(s) == \A n \in DOMAIN s : s[n] = Contract!Stage

\* From the figures on: one partial that tells them, and the prose so far.
Telling(s, figures, text) ==
  /\ Kept(s) /\ Contract!Prose(s) = text
  /\ \A n \in DOMAIN s : s[n].type \in {"stage", "partial", "text"}
  /\ Contract!At(s, "partial") # {}
  /\ \A n \in Contract!At(s, "partial") : s[n].figures = figures

\* An ending, and the sentinel behind it.
Finished(s) ==
  /\ Kept(s) /\ Len(s) >= 2
  /\ s[Len(s)] = Sentinel /\ s[Len(s) - 1].type \in {"result", "error"}
  /\ \A n \in 1..(Len(s) - 1) : s[n] # Sentinel

\* As long as the client is there, what is put for it keeps the contract all along.
StreamInv ==
  client = "on" =>
    IF gen \in {"reading", "sending"}
    THEN /\ pc \notin {"explain", "ended"} => Progress(Put) /\ parts = <<>>
         /\ pc = "explain" => Telling(Put, result, parts)
         /\ pc = "ended" => Finished(Put)
    ELSE pc = "ended" /\ Contract!Endings(told) # {}

-----------------------------------------------------------------------------
LEMMA ContractWithin == \A s, S : Contract!Within(s, S) = Within(s, S)
  BY DEF Contract!Within, Within

\* The prose an event adds to.
LEMMA ProseAppend ==
  ASSUME NEW s \in Seq(Items), NEW e \in Items
  PROVE  /\ Contract!Prose(s) \in Seq(Chunks)
         /\ Contract!Prose(Append(s, e)) = IF e.type = "text"
                                           THEN Append(Contract!Prose(s), e.chunk)
                                           ELSE Contract!Prose(s)
<1> DEFINE t == Within(s, Contract!Texts)
           u == Within(Append(s, e), Contract!Texts)
<1>1. t \in Seq(Contract!Texts)
  BY WithinType
<1>2. u = IF e \in Contract!Texts THEN Append(t, e) ELSE t
  BY WithinAppend
<1>3. \A x \in Contract!Texts : x.chunk \in Chunks
  BY DEF Contract!Texts, Contract!Text
<1>4. e \in Contract!Texts <=> e.type = "text"
  BY DEF Contract!Texts, Contract!Text, Items, Events, Sentinel, Contract!Stage, Contract!Error
<1>5. Contract!Prose(s) = [i \in DOMAIN t |-> t[i].chunk]
      /\ Contract!Prose(Append(s, e)) = [i \in DOMAIN u |-> u[i].chunk]
  BY ContractWithin DEF Contract!Prose
<1> HIDE DEF t, u
<1>6. Contract!Prose(s) \in Seq(Chunks)
  BY <1>1, <1>3, <1>5
<1>7. CASE e \in Contract!Texts
  <2>1. u = Append(t, e) /\ Append(t, e) \in Seq(Contract!Texts)
    BY <1>1, <1>2, <1>7
  <2>2. [i \in DOMAIN u |-> u[i].chunk] = Append([i \in DOMAIN t |-> t[i].chunk], e.chunk)
    BY <1>1, <1>3, <1>7, <2>1
  <2> QED
    BY <1>4, <1>5, <1>6, <1>7, <2>2
<1>8. CASE e \notin Contract!Texts
  BY <1>2, <1>4, <1>5, <1>6, <1>8
<1> QED
  BY <1>7, <1>8

LEMMA ProseOfProgress ==
  ASSUME NEW s \in Seq(Items), Progress(s)
  PROVE  Contract!Prose(s) = <<>>
<1>1. \A n \in 1..Len(s) : s[n] \notin Contract!Texts
  BY DEF Progress, Contract!Stage, Contract!Texts, Contract!Text
<1>2. Within(s, Contract!Texts) = <<>>
  BY <1>1, WithinNone
<1> QED
  BY <1>2, ContractWithin DEF Contract!Prose

\* Stripping takes chunks from the ends.
LEMMA StripType ==
  ASSUME NEW text \in Seq(Chunks)
  PROVE  Contract!Strip(text) \in Seq(Chunks)
<1> DEFINE W == Contract!Worded(text)
<1>1. CASE W = {}
  BY <1>1 DEF Contract!Strip
<1>2. CASE W # {}
  <2> DEFINE first == CHOOSE i \in W : \A j \in W : i <= j
             last == CHOOSE i \in W : \A j \in W : j <= i
  <2>1. Len(text) \in Nat /\ W \in SUBSET Nat /\ W \in SUBSET (0..Len(text)) /\ W \subseteq 1..Len(text)
    BY DEF Contract!Worded
  <2>2. Contract!Strip(text) = SubSeq(text, first, last)
    BY <1>2 DEF Contract!Strip
  <2>3. first \in W
    <3> HIDE DEF W
    <3>1. \E i \in W : \A j \in W : i <= j
      BY <1>2, <2>1, Least
    <3> QED
      BY <3>1
  <2>4. last \in W
    <3> HIDE DEF W
    <3>1. \E i \in W : \A j \in W : j <= i
      BY <1>2, <2>1, Greatest
    <3> QED
      BY <3>1
  <2> HIDE DEF W, first, last
  <2>5. first \in 1..Len(text) /\ last \in 1..Len(text)
    BY <2>1, <2>3, <2>4
  <2>6. \A i \in first..last : text[i] \in Chunks
    BY <2>5
  <2> QED
    BY <2>2, <2>5, <2>6, SubSeqProperties
<1> QED
  BY <1>1, <1>2

LEMMA StripEmpty == Contract!Strip(<<>>) = <<>>
  BY DEF Contract!Strip, Contract!Worded

-----------------------------------------------------------------------------
\* One more event that may follow.
LEMMA KeptAppend ==
  ASSUME NEW s \in Seq(Items), NEW e \in Items, Kept(s),
         e # Sentinel => Contract!Follows(s, e)
  PROVE  Kept(Append(s, e))
<1> DEFINE t == Append(s, e)
<1>1. t \in Seq(Items) /\ Len(t) = Len(s) + 1 /\ DOMAIN t = 1..Len(t) /\ t[Len(t)] = e
      /\ \A n \in 1..Len(s) : t[n] = s[n]
  OBVIOUS
<1>2. SubSeq(t, 1, Len(s)) = s
  BY <1>1
<1>3. \A n \in 1..Len(s) : SubSeq(t, 1, n - 1) = SubSeq(s, 1, n - 1)
  BY <1>1
<1> HIDE DEF t
<1> SUFFICES ASSUME NEW n \in 1..Len(t), t[n] # Sentinel
             PROVE  Contract!Follows(SubSeq(t, 1, n - 1), t[n])
  BY <1>1 DEF Kept, t
<1>4. CASE n \in 1..Len(s)
  <2>1. n \in DOMAIN s /\ t[n] = s[n] /\ SubSeq(t, 1, n - 1) = SubSeq(s, 1, n - 1)
    BY <1>1, <1>3, <1>4
  <2>2. s[n] # Sentinel => Contract!Follows(SubSeq(s, 1, n - 1), s[n])
    BY <2>1 DEF Kept
  <2> QED
    BY <2>1, <2>2
<1>5. CASE n = Len(t)
  <2>1. t[n] = e /\ n - 1 = Len(s)
    BY <1>1, <1>5
  <2>2. SubSeq(t, 1, n - 1) = s
    BY <1>2, <2>1
  <2> QED
    BY <2>1, <2>2
<1> QED
  BY <1>1, <1>4, <1>5

LEMMA ProgressKept ==
  ASSUME NEW s \in Seq(Items), Progress(s)
  PROVE  Kept(s)
<1> SUFFICES ASSUME NEW n \in 1..Len(s)
             PROVE  Contract!Follows(SubSeq(s, 1, n - 1), s[n])
  BY SMTT(30) DEF Kept
<1>1. \A i \in DOMAIN SubSeq(s, 1, n - 1) : SubSeq(s, 1, n - 1)[i] = Contract!Stage
  BY DEF Progress
<1>2. s[n] = Contract!Stage
  BY DEF Progress
<1> QED
  BY <1>1, <1>2 DEF Contract!Follows, Contract!Endings, Contract!At, Contract!Stage

LEMMA ProgressStage ==
  ASSUME NEW s \in Seq(Items), Progress(s)
  PROVE  Progress(Append(s, Contract!Stage))
  BY DEF Progress

\* Before the figures, the figures may follow, and so may an error and a result that has
\* no prose.
LEMMA ProgressFollows ==
  ASSUME NEW s \in Seq(Items), Progress(s), NEW figures \in Contract!Figures
  PROVE  /\ Contract!Follows(s, Contract!Error)
         /\ Contract!Follows(s, Contract!Result(figures, <<>>))
         /\ figures.priced \/ figures.web => Contract!Follows(s, Contract!Partial(figures))
<1>1. Contract!Endings(s) = {} /\ Contract!At(s, "partial") = {}
  BY DEF Progress, Contract!Endings, Contract!At, Contract!Stage
<1>2. Contract!Prose(s) = <<>>
  BY ProseOfProgress
<1> QED
  BY <1>1, <1>2, StripEmpty
     DEF Contract!Follows, Contract!Error, Contract!Result, Contract!Partial

LEMMA TellFigures ==
  ASSUME NEW s \in Seq(Items), Progress(s), NEW figures \in Contract!Figures,
         figures.priced \/ figures.web
  PROVE  Telling(Append(s, Contract!Partial(figures)), figures, <<>>)
<1> DEFINE e == Contract!Partial(figures)
           t == Append(s, e)
<1>1. e \in Items /\ e.type = "partial" /\ e.figures = figures
  BY DEF Items, Events, Contract!Partial
<1>2. Kept(t)
  BY <1>1, KeptAppend, ProgressKept, ProgressFollows
<1>3. Contract!Prose(t) = <<>>
  BY <1>1, ProseAppend, ProseOfProgress
<1> HIDE DEF e
<1>4. t \in Seq(Items) /\ DOMAIN t = 1..Len(s) + 1 /\ t[Len(s) + 1] = e
      /\ \A n \in 1..Len(s) : t[n] = Contract!Stage
  BY <1>1 DEF Progress
<1> HIDE DEF t
<1>5. \A n \in 1..Len(s) : t[n].type = "stage"
  BY <1>4 DEF Contract!Stage
<1>6. \A n \in DOMAIN t : t[n].type \in {"stage", "partial", "text"}
  BY <1>1, <1>4, <1>5
<1>7. Contract!At(t, "partial") = {Len(s) + 1}
  BY <1>1, <1>4, <1>5 DEF Contract!At
<1> QED
  BY <1>1, <1>2, <1>3, <1>4, <1>6, <1>7 DEF Telling, t, e

\* From the figures on, progress and prose may follow, and the result that repeats both.
LEMMA TellMore ==
  ASSUME NEW s \in Seq(Items), NEW figures, NEW text, Telling(s, figures, text)
  PROVE  /\ Telling(Append(s, Contract!Stage), figures, text)
         /\ \A c \in Chunks : Telling(Append(s, Contract!Text(c)), figures, Append(text, c))
         /\ Contract!Follows(s, Contract!Result(figures, Contract!Strip(text)))
<1>1. Contract!Endings(s) = {} /\ Contract!At(s, "partial") # {}
  BY DEF Telling, Contract!Endings, Contract!At
<1>2. Contract!Follows(s, Contract!Result(figures, Contract!Strip(text)))
  BY <1>1 DEF Telling, Contract!Follows, Contract!Result
<1>3. ASSUME NEW e \in Items, e.type \in {"stage", "text"}
      PROVE  Telling(Append(s, e), figures, Contract!Prose(Append(s, e)))
  <2> DEFINE t == Append(s, e)
  <2>1. t \in Seq(Items) /\ DOMAIN t = 1..Len(s) + 1 /\ t[Len(s) + 1] = e
        /\ \A n \in 1..Len(s) : t[n] = s[n]
    OBVIOUS
  <2>2. Contract!Follows(s, e)
    BY <1>1, <1>3 DEF Contract!Follows
  <2>3. Kept(t)
    BY <2>2, KeptAppend DEF Telling
  <2> HIDE DEF t
  <2>4. \A n \in DOMAIN t : t[n].type \in {"stage", "partial", "text"}
    BY <1>3, <2>1 DEF Telling
  <2>5. Contract!At(t, "partial") = Contract!At(s, "partial")
    BY <1>3, <2>1 DEF Contract!At
  <2>6. \A n \in Contract!At(t, "partial") : t[n].figures = figures
    BY <2>1, <2>5 DEF Contract!At, Telling
  <2> QED
    BY <1>1, <2>3, <2>4, <2>5, <2>6 DEF Telling, t
<1>4. Contract!Stage \in Items /\ Contract!Stage.type = "stage"
  BY DEF Items, Events, Contract!Stage
<1>5. ASSUME NEW c \in Chunks
      PROVE  Contract!Text(c) \in Items /\ Contract!Text(c).type = "text"
             /\ Contract!Text(c).chunk = c
  BY DEF Items, Events, Contract!Text
<1>6. Contract!Prose(s) = text
  BY DEF Telling
<1> QED
  BY <1>2, <1>3, <1>4, <1>5, <1>6, ProseAppend, ZenonT(30)

\* The ending with its sentinel.
LEMMA Finishing ==
  ASSUME NEW s \in Seq(Items), NEW e \in Items, Kept(s),
         \A n \in DOMAIN s : s[n] # Sentinel,
         e.type \in {"result", "error"}, Contract!Follows(s, e)
  PROVE  Finished(s \o <<e, Sentinel>>)
<1> DEFINE t == Append(s, e)
           u == Append(t, Sentinel)
<1>1. Sentinel \in Items /\ e # Sentinel
  BY DEF Items, Sentinel
<1>2. s \o <<e, Sentinel>> = u
  BY <1>1
<1>3. t \in Seq(Items) /\ Len(t) = Len(s) + 1 /\ t[Len(t)] = e /\ Kept(t)
  BY KeptAppend
<1>4. \A n \in 1..Len(t) : t[n] # Sentinel
  BY <1>1
<1> HIDE DEF t
<1>5. Kept(u)
  BY <1>1, <1>3, KeptAppend
<1>6. Len(u) = Len(t) + 1 /\ u[Len(u)] = Sentinel /\ \A n \in 1..Len(t) : u[n] = t[n]
  BY <1>1, <1>3
<1> HIDE DEF u
<1>7. Len(u) >= 2 /\ Len(u) - 1 = Len(t) /\ Len(t) \in 1..Len(t)
  BY <1>3, <1>6
<1>8. u[Len(u) - 1].type \in {"result", "error"}
  BY <1>3, <1>6, <1>7
<1>9. \A n \in 1..(Len(u) - 1) : u[n] # Sentinel
  BY <1>4, <1>6, <1>7
<1> QED
  BY <1>2, <1>5, <1>6, <1>7, <1>8, <1>9 DEF Finished

-----------------------------------------------------------------------------
\* What the steps of the search have in common.
Early == {"start", "find", "list", "pick", "cheapest", "fair", "market", "status"}
Stages == {<<>>, <<Contract!Stage>>, <<Contract!Stage, Contract!Stage>>}

Silent == UNCHANGED <<pc, result, parts, queue>>

Goes == /\ pc \in Early /\ pc' \in Early /\ parts' = parts /\ result' \in Contract!Figures
        /\ \E stages \in Stages : queue' = queue \o stages

Returns == /\ pc \in Early /\ pc' = "ended" /\ parts' = parts /\ result' \in Contract!Figures
           /\ \E stages \in Stages :
                queue' = queue \o stages \o <<Contract!Result(result', <<>>), Sentinel>>

Fails == /\ pc \in Early /\ pc' = "ended" /\ parts' = parts /\ result' = result
         /\ queue' = queue \o <<Contract!Error, Sentinel>>

Explains == /\ pc \in Early /\ pc' = "explain" /\ parts' = parts
            /\ result' \in Contract!Figures /\ (result'.priced \/ result'.web)
            /\ queue' = queue \o <<Contract!Partial(result'), Contract!Stage>>

LEMMA NothingType == Nothing \in Contract!Figures
  BY DEF Nothing, Contract!Figures

LEMMA ShapeOfResolving ==
  ASSUME TypeOK, Begin \/ FindReference \/ ListTrackedReferences \/ ResolveReference
  PROVE  (Goes \/ Returns) /\ candidates' \subseteq Refs
<1> USE NothingType DEF Early, Stages
<1>1. ASSUME NEW figures \in Contract!Figures, NEW stages \in Stages, pc \in Early,
             parts' = parts, Return(stages, figures)
      PROVE  Returns
  BY <1>1 DEF Return, Returns
<1>2. ASSUME NEW ref \in Refs, pc \in Early, parts' = parts, Resolved(ref)
      PROVE  Goes /\ candidates' = candidates
  <2>1. [Nothing EXCEPT !.resolved = ref] \in Contract!Figures
    BY DEF Nothing, Contract!Figures
  <2> QED
    BY <1>2, <2>1 DEF Resolved, Say, Goes
<1>3. ASSUME NEW refs \in SUBSET Refs, pc \in Early, parts' = parts, Disambiguate(refs), TypeOK
      PROVE  Goes /\ candidates' \subseteq Refs
  BY <1>3 DEF Disambiguate, Say, Goes, TypeOK
<1>4. ASSUME pc \in Early, parts' = parts, Unmatched
      PROVE  Returns /\ candidates' = candidates
  BY <1>1, <1>4 DEF Unmatched
<1>5. CASE Begin
  BY <1>1, <1>5 DEF Begin, Say, Goes, TypeOK
<1>6. CASE FindReference
  <2> PICK matches \in SUBSET Refs : \E exact \in SUBSET matches :
        \/ \E ref \in exact : exact = {ref} /\ Resolved(ref)
        \/ \E ref \in matches : Cardinality(exact) # 1 /\ matches = {ref} /\ Resolved(ref)
        \/ /\ Cardinality(exact) # 1 /\ Cardinality(matches) > 1
           /\ Disambiguate(matches)
        \/ /\ matches = {}
           /\ pc' = "list" /\ Say(<<Contract!Stage>>) /\ UNCHANGED <<candidates, result>>
    BY <1>6 DEF FindReference
  <2>1. pc \in Early /\ parts' = parts
    BY <1>6 DEF FindReference
  <2>2. CASE \E ref \in matches : Resolved(ref)
    BY <1>2, <2>1, <2>2 DEF TypeOK
  <2>3. CASE Disambiguate(matches)
    BY <1>3, <2>1, <2>3
  <2>4. CASE pc' = "list" /\ Say(<<Contract!Stage>>) /\ UNCHANGED <<candidates, result>>
    BY <2>1, <2>4 DEF Say, Goes, TypeOK
  <2> QED
    BY <2>2, <2>3, <2>4
<1>7. CASE ListTrackedReferences
  <2>1. pc \in Early /\ parts' = parts
    BY <1>7 DEF ListTrackedReferences
  <2>2. Unmatched \/ \E refs \in SUBSET Refs : Disambiguate(refs)
    BY <1>7 DEF ListTrackedReferences
  <2> QED
    BY <1>3, <1>4, <2>1, <2>2 DEF TypeOK
<1>8. CASE ResolveReference
  <2> PICK named \in BoundedSeq(Refs \cup {None}, MaxPick) :
        \/ Known(named) = <<>> /\ Unmatched
        \/ Len(Known(named)) = 1 /\ Resolved(Known(named)[1])
        \/ Len(Known(named)) > 1 /\ Choose(Known(named))
    BY <1>8 DEF ResolveReference
  <2>1. pc \in Early /\ parts' = parts
    BY <1>8 DEF ResolveReference
  <2>2. named \in Seq(Refs \cup {None})
    BY BoundsAssumption DEF BoundedSeq, SeqOf
  <2>3. Known(named) \in Seq(candidates)
    BY <2>2, WithinType DEF Known
  <2>4. Known(named) \in Seq(Refs)
    BY <2>3 DEF TypeOK
  <2>5. CASE Unmatched
    BY <1>4, <2>1, <2>5 DEF TypeOK
  <2>6. CASE Len(Known(named)) = 1 /\ Resolved(Known(named)[1])
    <3>1. Known(named)[1] \in Refs
      BY <2>4, <2>6
    <3> QED
      BY <1>2, <2>1, <2>6, <3>1 DEF TypeOK
  <2>7. CASE Choose(Known(named))
    <3>1. [Nothing EXCEPT !.choices = Known(named)] \in Contract!Figures
      BY <2>4 DEF Nothing, Contract!Figures
    <3> QED
      BY <1>1, <2>1, <2>7, <3>1 DEF Choose, TypeOK
  <2> QED
    BY <2>5, <2>6, <2>7
<1> QED
  BY <1>5, <1>6, <1>7, <1>8

LEMMA ShapeOfPricing ==
  ASSUME TypeOK, GetCheapestListing \/ GetFairPrice
  PROVE  Goes \/ Explains
<1> USE DEF Early, Stages
<1>1. \A b \in BOOLEAN : [result EXCEPT !.priced = b] \in Contract!Figures
  BY DEF TypeOK, Contract!Figures
<1>2. CASE GetCheapestListing
  <2>1. queue \o <<>> = queue
    BY DEF TypeOK
  <2> QED
    BY <1>1, <1>2, <2>1 DEF GetCheapestListing, Goes
<1>3. CASE GetFairPrice
  <2> PICK found \in BOOLEAN :
        IF found /\ result.priced
        THEN Explain(result) /\ UNCHANGED <<webCall, liveCall>>
        ELSE /\ pc' = "market"
             /\ result' = [result EXCEPT !.priced = FALSE]
             /\ webCall' = "out" /\ liveCall' = "out"
             /\ Say(<<Contract!Stage>>)
    BY <1>3 DEF GetFairPrice
  <2>1. pc \in Early /\ parts' = parts
    BY <1>3 DEF GetFairPrice
  <2>2. CASE found /\ result.priced
    BY <2>1, <2>2 DEF Explain, Say, Explains, TypeOK
  <2>3. CASE ~(found /\ result.priced)
    BY <1>1, <2>1, <2>3 DEF Say, Goes
  <2> QED
    BY <2>2, <2>3
<1> QED
  BY <1>2, <1>3

LEMMA ShapeOfLookups ==
  ASSUME TypeOK,
         SearchWebMarket \/ ExtractOffers \/ SearchLiveListings \/ LiveListingsRaise
  PROVE  Silent \/ Goes \/ Returns \/ Explains \/ Fails
<1> USE DEF Early, Stages
<1>1. ASSUME NEW web, NEW live, pc = "market", parts' = parts, Settle(web, live), TypeOK
      PROVE  Silent \/ Goes \/ Returns \/ Explains
  <2> DEFINE figures == [result EXCEPT !.web = web = "found", !.live = live = "found"]
  <2>1. figures \in Contract!Figures
    BY DEF TypeOK, Contract!Figures
  <2>2. \/ figures.web /\ Explain(figures)
        \/ ~figures.web /\ figures.live /\ Return(<<Contract!Stage>>, figures)
        \/ /\ ~figures.web /\ ~figures.live
           /\ pc' = "status" /\ UNCHANGED <<result, queue>>
    BY <1>1 DEF Settle
  <2> HIDE DEF figures
  <2>3. queue \o <<>> = queue
    BY DEF TypeOK
  <2>4. CASE figures.web /\ Explain(figures)
    BY <1>1, <2>1, <2>4 DEF Explain, Say, Explains
  <2>5. CASE Return(<<Contract!Stage>>, figures)
    BY <1>1, <2>1, <2>5 DEF Return, Returns
  <2>6. CASE pc' = "status" /\ UNCHANGED <<result, queue>>
    BY <1>1, <2>3, <2>6 DEF Goes, TypeOK
  <2> QED
    BY <2>2, <2>4, <2>5, <2>6
<1>2. ASSUME NEW answer, WebAnswers(answer) PROVE Silent \/ Goes \/ Returns \/ Explains
  BY <1>1, <1>2 DEF WebAnswers, Silent
<1>3. CASE SearchWebMarket \/ ExtractOffers
  BY <1>2, <1>3 DEF SearchWebMarket, ExtractOffers, Silent
<1>4. CASE SearchLiveListings
  BY <1>1, <1>4 DEF SearchLiveListings, Silent
<1>5. CASE LiveListingsRaise
  BY <1>5 DEF LiveListingsRaise, Fail, Fails
<1> QED
  BY <1>3, <1>4, <1>5

LEMMA ShapeOfEnding ==
  ASSUME TypeOK, ServiceStatus \/ CallRaises
  PROVE  Returns \/ Fails
<1> USE DEF Early, Stages
<1>1. CASE ServiceStatus
  BY <1>1 DEF ServiceStatus, Return, Returns, TypeOK
<1>2. CASE CallRaises
  BY <1>2 DEF CallRaises, Raise, Fail, Fails
<1> QED
  BY <1>1, <1>2

LEMMA SearchShape ==
  ASSUME TypeOK, SearchStep
  PROVE  \/ Silent \/ Goes \/ Returns \/ Fails \/ Explains
         \/ Chunk \/ Explained
  BY ShapeOfResolving, ShapeOfPricing, ShapeOfLookups, ShapeOfEnding DEF SearchStep

-----------------------------------------------------------------------------
LEMMA EventsType ==
  /\ Contract!Stage \in Items /\ Contract!Error \in Items /\ Sentinel \in Items
  /\ \A figures \in Contract!Figures : Contract!Partial(figures) \in Items
  /\ \A c \in Chunks : Contract!Text(c) \in Items
  /\ \A figures \in Contract!Figures : \A e \in Seq(Chunks) : Contract!Result(figures, e) \in Items
  BY DEF Items, Events, Contract!Partial, Contract!Text, Contract!Result

LEMMA StagesType ==
  ASSUME NEW stages \in Stages
  PROVE  stages \in Seq(Items) /\ \A n \in DOMAIN stages : stages[n] = Contract!Stage
<1>1. Contract!Stage \in Items
  BY EventsType
<1>2. CASE stages = <<>>
  BY <1>2
<1>3. CASE stages = <<Contract!Stage>>
  BY <1>1, <1>3
<1>4. CASE stages = <<Contract!Stage, Contract!Stage>>
  BY <1>1, <1>4
<1> QED
  BY <1>2, <1>3, <1>4 DEF Stages

\* What the shape of a step leaves of the types.
LEMMA ShapeType ==
  ASSUME TypeOK, SearchStep
  PROVE  /\ pc' \in Early \cup {"explain", "ended"}
         /\ result' \in Contract!Figures /\ parts' \in Seq(Chunks)
         /\ queue' \in Seq(Items)
         /\ pc = "ended" => pc' = "ended"
<1> USE DEF Early
<1>1. queue \in Seq(Items) /\ pc \in Early \cup {"explain", "ended"}
      /\ result \in Contract!Figures /\ parts \in Seq(Chunks)
  BY DEF TypeOK, Items
<1>2. \A stages \in Stages : stages \in Seq(Items)
  BY StagesType
<1>3. CASE Silent
  BY <1>1, <1>3 DEF Silent
<1>4. CASE Goes
  BY <1>1, <1>2, <1>4 DEF Goes
<1>5. CASE Returns
  <2>1. <<>> \in Seq(Chunks)
    OBVIOUS
  <2>2. Contract!Result(result', <<>>) \in Items /\ Sentinel \in Items
    BY <1>5, <2>1, EventsType DEF Returns
  <2>3. <<Contract!Result(result', <<>>), Sentinel>> \in Seq(Items)
    BY <2>2
  <2> QED
    BY <1>1, <1>2, <1>5, <2>3 DEF Returns
<1>6. CASE Fails
  BY <1>1, <1>6, EventsType DEF Fails
<1>7. CASE Explains
  BY <1>1, <1>7, EventsType DEF Explains
<1>8. CASE Chunk
  BY <1>1, <1>8, EventsType DEF Chunk, Say
<1>9. CASE Explained
  <2>1. Contract!Result(result, Contract!Strip(parts)) \in Items
    BY <1>1, EventsType, StripType
  <2> QED
    BY <1>1, <1>9, <2>1, EventsType DEF Explained, Say
<1> QED
  BY <1>3, <1>4, <1>5, <1>6, <1>7, <1>8, <1>9, SearchShape

LEMMA LookupsType ==
  ASSUME TypeOK, SearchStep
  PROVE  /\ candidates' \subseteq Refs
         /\ webCall' \in {"none", "found", "nothing"} \cup Looking
         /\ liveCall' \in {"none", "out", "found", "nothing"}
         /\ blame' \in {None, "find", "list", "pick", "cheapest", "fair", "live", "cancelled"}
<1>1. /\ candidates \subseteq Refs
      /\ webCall \in {"none", "found", "nothing"} \cup Looking
      /\ liveCall \in {"none", "out", "found", "nothing"}
      /\ blame \in {None, "find", "list", "pick", "cheapest", "fair", "live", "cancelled"}
  BY DEF TypeOK
<1>2. CASE Begin \/ FindReference \/ ListTrackedReferences \/ ResolveReference
  BY <1>1, <1>2, ShapeOfResolving
     DEF Begin, FindReference, ListTrackedReferences, ResolveReference
<1>3. CASE GetCheapestListing \/ GetFairPrice
  BY <1>1, <1>3 DEF GetCheapestListing, GetFairPrice, Looking
<1>4. CASE SearchWebMarket \/ ExtractOffers
  BY <1>1, <1>4 DEF SearchWebMarket, ExtractOffers, WebAnswers, Looking
<1>5. CASE SearchLiveListings \/ LiveListingsRaise
  BY <1>1, <1>5 DEF SearchLiveListings, LiveListingsRaise
<1>6. CASE ServiceStatus \/ Chunk \/ Explained \/ CallRaises
  BY <1>1, <1>6 DEF ServiceStatus, Chunk, Explained, CallRaises, Raise
<1> QED
  BY <1>2, <1>3, <1>4, <1>5, <1>6 DEF SearchStep

\* Lookups run while the search awaits them, but for the web lookup a failed live one leaves.
LookupsAwaited == pc # "market" => /\ liveCall # "out"
                                   /\ webCall \in Looking => pc = "ended" /\ blame = "live"

LEMMA LookupsStep == ASSUME TypeOK, LookupsAwaited, SearchStep PROVE LookupsAwaited'
<1>1. ASSUME pc \notin {"market", "ended"}, UNCHANGED <<webCall, liveCall>> PROVE LookupsAwaited'
  BY <1>1 DEF LookupsAwaited
<1>2. CASE Begin \/ FindReference \/ ListTrackedReferences \/ ResolveReference
  BY <1>1, <1>2 DEF Begin, FindReference, ListTrackedReferences, ResolveReference
<1>3. CASE GetCheapestListing \/ ServiceStatus \/ Chunk \/ Explained
  BY <1>1, <1>3 DEF GetCheapestListing, ServiceStatus, Chunk, Explained
<1>4. CASE CallRaises
  BY <1>1, <1>4 DEF CallRaises, Raise
<1>5. CASE GetFairPrice
  <2>1. pc = "fair" /\ (pc' = "market" \/ UNCHANGED <<webCall, liveCall>>)
    BY <1>5 DEF GetFairPrice
  <2>2. CASE pc' = "market"
    BY <2>2 DEF LookupsAwaited
  <2> QED
    BY <1>1, <2>1, <2>2
<1>6. ASSUME NEW answer \in {"nothing", "found"}, WebAnswers(answer) PROVE LookupsAwaited'
  BY <1>6 DEF WebAnswers, LookupsAwaited, Looking
<1>7. CASE SearchWebMarket \/ ExtractOffers
  <2>1. CASE webCall = "out" /\ UNCHANGED <<pc, liveCall, blame>>
    BY <2>1 DEF LookupsAwaited, Looking
  <2> QED
    BY <1>6, <1>7, <2>1 DEF SearchWebMarket, ExtractOffers
<1>8. CASE SearchLiveListings
  BY <1>8 DEF SearchLiveListings, LookupsAwaited
<1>9. CASE LiveListingsRaise
  BY <1>9 DEF LiveListingsRaise, LookupsAwaited
<1> QED
  BY <1>2, <1>3, <1>4, <1>5, <1>7, <1>8, <1>9 DEF SearchStep

\* What is being sent is an event, and the search is over when the response is.
Contained == /\ TypeOK
             /\ gen = "sending" => item # Sentinel
             /\ gen = "closed" => pc = "ended"
             /\ LookupsAwaited

LEMMA ContainedInit == Init => Contained
  BY NothingType DEF Init, Contained, LookupsAwaited, Looking, TypeOK, Events

LEMMA ContainedStep == Contained /\ [Next]_vars => Contained'
<1> SUFFICES ASSUME Contained, [Next]_vars PROVE Contained'
  OBVIOUS
<1> USE DEF Contained
<1>1. CASE Search
  BY <1>1, ShapeType, LookupsType, LookupsStep DEF Search, TypeOK, Early, Items
<1>2. CASE Get
  <2>1. Head(queue) \in Events \cup {Sentinel} /\ Tail(queue) \in Seq(Events \cup {Sentinel})
    BY <1>2 DEF Get, TypeOK
  <2> QED
    BY <1>2, <2>1 DEF Get, TypeOK, LookupsAwaited, search
<1>3. CASE Yield
  <2>1. item \in Events
    BY <1>3 DEF Yield, TypeOK
  <2> QED
    BY <1>3, <2>1 DEF Yield, TypeOK, LookupsAwaited, search
<1>4. CASE Joined \/ Disconnect \/ Abandon
  BY <1>4 DEF Joined, Disconnect, Abandon, TypeOK, LookupsAwaited, search
<1>5. CASE Cancel
  <2>1. queue \in Seq(Events \cup {Sentinel}) /\ Sentinel \in Events \cup {Sentinel}
    BY DEF TypeOK
  <2>2. Append(queue, Sentinel) \in Seq(Events \cup {Sentinel})
    BY <2>1
  <2>3. queue' \in Seq(Events \cup {Sentinel})
    BY <1>5, <2>1, <2>2 DEF Cancel, search
  <2>4. TypeOK'
    BY <1>5, <2>3 DEF Cancel, Cancelled, TypeOK, search, Looking
  <2>5. LookupsAwaited'
    BY <1>5 DEF Cancel, Cancelled, TypeOK, LookupsAwaited, search, Looking
  <2> QED
    BY <1>5, <2>4, <2>5 DEF Cancel, search
<1>6. CASE UNCHANGED vars
  BY <1>6 DEF vars, search, TypeOK, LookupsAwaited
<1> QED
  BY <1>1, <1>2, <1>3, <1>4, <1>5, <1>6 DEF Next, Generator

-----------------------------------------------------------------------------
LEMMA PutType == Contained => Put \in Seq(Items) /\ told \in Seq(Items) /\ Sending \in Seq(Items)
<1> SUFFICES ASSUME Contained PROVE Put \in Seq(Items) /\ told \in Seq(Items) /\ Sending \in Seq(Items)
  OBVIOUS
<1>1. told \in Seq(Items) /\ queue \in Seq(Items) /\ item \in Items
  BY DEF Contained, TypeOK, Items
<1>2. Sending \in Seq(Items)
  BY <1>1 DEF Sending
<1> QED
  BY <1>1, <1>2 DEF Put

\* What the search puts on the queue is put for the client.
LEMMA PutGrows ==
  ASSUME Contained, NEW events \in Seq(Items), queue' = queue \o events,
         UNCHANGED <<gen, item, told>>
  PROVE  Put' = Put \o events
<1>1. told \in Seq(Items) /\ Sending \in Seq(Items) /\ queue \in Seq(Items)
  BY PutType DEF Contained, TypeOK, Items
<1>2. told' = told /\ Sending' = Sending
  BY DEF Sending
<1>3. Put' = told \o Sending \o (queue \o events)
  BY <1>2 DEF Put
<1> HIDE DEF Sending
<1>4. told \o Sending \o (queue \o events) = told \o Sending \o queue \o events
  BY <1>1, SMTT(30)
<1> QED
  BY <1>3, <1>4 DEF Put

LEMMA ProgressStages ==
  ASSUME NEW s \in Seq(Items), Progress(s), NEW stages \in Stages
  PROVE  s \o stages \in Seq(Items) /\ Progress(s \o stages)
<1> DEFINE t == s \o stages
<1>1. stages \in Seq(Items) /\ \A n \in DOMAIN stages : stages[n] = Contract!Stage
  BY StagesType
<1>2. t \in Seq(Items) /\ DOMAIN t = 1..Len(t)
      /\ \A n \in 1..Len(t) : \/ n \in DOMAIN s /\ t[n] = s[n]
                              \/ n - Len(s) \in DOMAIN stages /\ t[n] = stages[n - Len(s)]
  BY <1>1
<1> QED
  BY <1>1, <1>2 DEF Progress

\* Progress, and then the ending.
LEMMA ProgressFinished ==
  ASSUME NEW s \in Seq(Items), Progress(s), NEW e \in Items,
         e.type \in {"result", "error"}, Contract!Follows(s, e)
  PROVE  Finished(s \o <<e, Sentinel>>)
<1>1. \A n \in DOMAIN s : s[n] # Sentinel
  BY DEF Progress, Contract!Stage, Sentinel
<1> QED
  BY <1>1, ProgressKept, Finishing

\* The search, while the response is open.
LEMMA SearchKeepsStream ==
  ASSUME Contained, StreamInv, Search, client = "on", gen \in {"reading", "sending"}
  PROVE  StreamInv'
<1> USE DEF Early
<1>1. UNCHANGED <<gen, item, client, told>> /\ SearchStep /\ TypeOK
  BY DEF Search, Contained
<1>2. /\ pc \notin {"explain", "ended"} => Progress(Put) /\ parts = <<>>
      /\ pc = "explain" => Telling(Put, result, parts)
      /\ pc = "ended" => Finished(Put)
  BY DEF StreamInv
<1>3. Put \in Seq(Items) /\ result \in Contract!Figures /\ parts \in Seq(Chunks)
  BY PutType DEF Contained, TypeOK
<1> SUFFICES /\ pc' \notin {"explain", "ended"} => Progress(Put') /\ parts' = <<>>
             /\ pc' = "explain" => Telling(Put', result', parts')
             /\ pc' = "ended" => Finished(Put')
  BY <1>1 DEF StreamInv, Put, Progress, Telling, Finished, Kept
<1>4. CASE Silent
  <2>1. Put' = Put
    BY <1>1, <1>4 DEF Put, Sending, Silent
  <2> QED
    BY <1>2, <1>4, <2>1 DEF Silent
<1>5. CASE Goes
  <2>1. PICK stages \in Stages : queue' = queue \o stages
    BY <1>5 DEF Goes
  <2>2. Progress(Put) /\ parts' = <<>> /\ pc' \in Early
    BY <1>2, <1>5 DEF Goes
  <2>3. stages \in Seq(Items)
    BY StagesType
  <2>4. Put' = Put \o stages
    BY <1>1, <2>1, <2>3, PutGrows
  <2> QED
    BY <1>3, <2>2, <2>4, ProgressStages
<1>6. CASE Returns
  <2> DEFINE e == Contract!Result(result', <<>>)
  <2>1. PICK stages \in Stages : queue' = queue \o stages \o <<e, Sentinel>>
    BY <1>6 DEF Returns
  <2>2. Progress(Put) /\ pc' = "ended" /\ result' \in Contract!Figures
    BY <1>2, <1>6 DEF Returns
  <2>3. e \in Items /\ Sentinel \in Items /\ e.type = "result"
    <3>1. <<>> \in Seq(Chunks)
      OBVIOUS
    <3> QED
      BY <2>2, <3>1, EventsType DEF Contract!Result
  <2>4. stages \in Seq(Items)
    BY StagesType
  <2> DEFINE s == Put \o stages
  <2>5. s \in Seq(Items) /\ Progress(s)
    BY <1>3, <2>2, ProgressStages
  <2>6. Contract!Follows(s, e)
    BY <2>2, <2>5, ProgressFollows
  <2> HIDE DEF e
  <2>7. Finished(s \o <<e, Sentinel>>)
    BY <2>3, <2>5, <2>6, ProgressFinished
  <2>8. <<e, Sentinel>> \in Seq(Items) /\ queue \in Seq(Items)
    BY <2>3 DEF Contained, TypeOK, Items
  <2>9. queue \o stages \o <<e, Sentinel>> = queue \o (stages \o <<e, Sentinel>>)
        /\ stages \o <<e, Sentinel>> \in Seq(Items)
    BY <2>4, <2>8
  <2>10. Put' = Put \o (stages \o <<e, Sentinel>>)
    BY <1>1, <2>1, <2>9, PutGrows
  <2>11. Put' = s \o <<e, Sentinel>>
    <3> HIDE DEF Put
    <3> QED
      BY <1>3, <2>4, <2>8, <2>10
  <2> QED
    BY <2>2, <2>7, <2>11
<1>7. CASE Fails
  <2>1. Progress(Put) /\ pc' = "ended" /\ queue' = queue \o <<Contract!Error, Sentinel>>
    BY <1>2, <1>7 DEF Fails
  <2>2. Contract!Error \in Items /\ Sentinel \in Items /\ Contract!Error.type = "error"
    BY EventsType DEF Contract!Error
  <2>3. Contract!Follows(Put, Contract!Error)
    BY <1>3, <2>1, ProgressFollows
  <2>4. Finished(Put \o <<Contract!Error, Sentinel>>)
    BY <1>3, <2>1, <2>2, <2>3, ProgressFinished
  <2>5. Put' = Put \o <<Contract!Error, Sentinel>>
    <3>1. <<Contract!Error, Sentinel>> \in Seq(Items)
      BY <2>2
    <3> QED
      BY <1>1, <2>1, <3>1, PutGrows
  <2> QED
    BY <2>1, <2>4, <2>5
<1>8. CASE Explains
  <2> DEFINE e == Contract!Partial(result')
  <2>1. Progress(Put) /\ parts' = <<>> /\ pc' = "explain" /\ result' \in Contract!Figures
        /\ queue' = queue \o <<e, Contract!Stage>>
    BY <1>2, <1>8 DEF Explains
  <2>2. e \in Items /\ Contract!Stage \in Items
    BY <2>1, EventsType
  <2>3. Telling(Append(Put, e), result', <<>>)
    BY <1>3, <1>8, <2>1, TellFigures DEF Explains
  <2> HIDE DEF e
  <2>4. Append(Put, e) \in Seq(Items)
    BY <1>3, <2>2
  <2>5. Telling(Append(Append(Put, e), Contract!Stage), result', <<>>)
    BY <2>3, <2>4, TellMore
  <2>6. Put' = Put \o <<e, Contract!Stage>>
    <3>1. <<e, Contract!Stage>> \in Seq(Items)
      BY <2>2
    <3> QED
      BY <1>1, <2>1, <3>1, PutGrows
  <2>7. Put \o <<e, Contract!Stage>> = Append(Append(Put, e), Contract!Stage)
    <3> HIDE DEF Put
    <3> QED
      BY <1>3, <2>2
  <2> QED
    BY <2>1, <2>5, <2>6, <2>7
<1>9. CASE Chunk
  <2>1. PICK c \in Chunks : parts' = Append(parts, c) /\ queue' = queue \o <<Contract!Text(c)>>
    BY <1>9 DEF Chunk, Say
  <2>2. pc' = "explain" /\ result' = result /\ Telling(Put, result, parts)
    BY <1>2, <1>9 DEF Chunk
  <2>3. Contract!Text(c) \in Items
    BY EventsType
  <2>4. Put' = Put \o <<Contract!Text(c)>>
    <3>1. <<Contract!Text(c)>> \in Seq(Items)
      BY <2>3
    <3> QED
      BY <1>1, <2>1, <3>1, PutGrows
  <2>5. Put \o <<Contract!Text(c)>> = Append(Put, Contract!Text(c))
    <3> HIDE DEF Put
    <3> QED
      BY <1>3, <2>3
  <2>6. Telling(Append(Put, Contract!Text(c)), result, Append(parts, c))
    BY <1>3, <2>2, TellMore
  <2> QED
    BY <2>1, <2>2, <2>4, <2>5, <2>6
<1>10. CASE Explained
  <2> DEFINE e == Contract!Result(result, Contract!Strip(parts))
  <2>1. pc' = "ended" /\ queue' = queue \o <<Contract!Stage, e, Sentinel>>
        /\ Telling(Put, result, parts)
    BY <1>2, <1>10 DEF Explained, Say
  <2>2. e \in Items /\ Contract!Stage \in Items /\ Sentinel \in Items /\ e.type = "result"
    BY <1>3, EventsType, StripType DEF Contract!Result
  <2> DEFINE s == Append(Put, Contract!Stage)
  <2>3. s \in Seq(Items)
    BY <1>3, <2>2
  <2>4. Telling(s, result, parts)
    BY <1>3, <2>1, TellMore
  <2> HIDE DEF s
  <2>5. Contract!Follows(s, e)
    BY <2>3, <2>4, TellMore
  <2> HIDE DEF e
  <2>6. \A n \in DOMAIN s : s[n] # Sentinel
    BY <2>4 DEF Telling, Sentinel
  <2>7. Finished(s \o <<e, Sentinel>>)
    BY <2>2, <2>3, <2>4, <2>5, <2>6, Finishing DEF Telling
  <2>8. Put' = Put \o <<Contract!Stage, e, Sentinel>>
    <3>1. <<Contract!Stage, e, Sentinel>> \in Seq(Items)
      BY <2>2
    <3> QED
      BY <1>1, <2>1, <3>1, PutGrows
  <2>9. Put' = s \o <<e, Sentinel>>
    <3> HIDE DEF Put
    <3> QED
      BY <1>3, <2>2, <2>8 DEF s
  <2> QED
    BY <2>1, <2>7, <2>9
<1> QED
  BY <1>1, <1>4, <1>5, <1>6, <1>7, <1>8, <1>9, <1>10, SearchShape

-----------------------------------------------------------------------------
\* Wherever the search is, what is put keeps the contract.
LEMMA PutKept ==
  ASSUME Contained, StreamInv, client = "on", gen \in {"reading", "sending"}
  PROVE  Kept(Put)
  BY PutType, ProgressKept DEF StreamInv, Telling, Finished

\* The sentinel reaches the generator last, behind an ending.
LEMMA SentinelLast ==
  ASSUME Contained, StreamInv, client = "on", gen = "reading", queue # <<>>,
         Head(queue) = Sentinel
  PROVE  pc = "ended" /\ Contract!Endings(told) # {}
<1>1. told \in Seq(Items) /\ queue \in Seq(Items) /\ Put = told \o queue
  BY PutType DEF Put, Sending, Contained, TypeOK, Items
<1>2. /\ Len(Put) = Len(told) + Len(queue) /\ Len(queue) >= 1
      /\ Put[Len(told) + 1] = Sentinel /\ Len(told) + 1 \in DOMAIN Put
      /\ \A n \in 1..Len(told) : Put[n] = told[n]
  BY <1>1
<1> HIDE DEF Put
<1>3. CASE pc = "ended"
  <2>1. Finished(Put)
    BY <1>3 DEF StreamInv
  <2>2. Len(told) + 1 = Len(Put) /\ Len(told) \in 1..Len(told)
    BY <1>1, <1>2, <2>1 DEF Finished
  <2>3. told[Len(told)].type \in {"result", "error"}
    BY <1>1, <1>2, <2>1, <2>2 DEF Finished
  <2> QED
    BY <1>1, <1>3, <2>2, <2>3 DEF Contract!Endings, Contract!At
<1>4. CASE pc # "ended"
  <2>1. \A n \in DOMAIN Put : Put[n] # Sentinel
    BY <1>4 DEF StreamInv, Progress, Telling, Contract!Stage, Sentinel
  <2> QED
    BY <1>2, <2>1
<1> QED
  BY <1>3, <1>4

\* The generator moves an event along; a search that ends ends the queue.
LEMMA GeneratorKeepsStream ==
  ASSUME Contained, StreamInv, Get \/ Yield \/ Joined
  PROVE  StreamInv'
<1> SUFFICES ASSUME client = "on" PROVE StreamInv'
  BY DEF StreamInv, Get, Yield, Joined
<1>1. UNCHANGED <<pc, result, parts, client>>
  BY DEF Get, Yield, Joined, search
<1>2. told \in Seq(Items) /\ queue \in Seq(Items) /\ item \in Items
  BY DEF Contained, TypeOK, Items
<1>3. ASSUME gen \in {"reading", "sending"}, gen' \in {"reading", "sending"}, Put' = Put
      PROVE  StreamInv'
  BY <1>1, <1>3 DEF StreamInv, Progress, Telling, Finished, Kept
<1>4. CASE Get /\ Head(queue) = Sentinel
  <2>1. pc = "ended" /\ Contract!Endings(told) # {}
    BY <1>4, SentinelLast DEF Get
  <2> QED
    BY <1>1, <1>4, <2>1 DEF Get, StreamInv, Contract!Endings, Contract!At
<1>5. CASE Get /\ Head(queue) # Sentinel
  <2>1. Put = told \o <<>> \o queue /\ Put' = told \o <<Head(queue)>> \o Tail(queue)
    BY <1>5 DEF Get, Put, Sending
  <2>2. queue # <<>>
    BY <1>5 DEF Get
  <2>3. told \o <<>> \o queue = told \o <<Head(queue)>> \o Tail(queue)
    BY <1>2, <2>2
  <2> QED
    BY <1>3, <1>5, <2>1, <2>3 DEF Get
<1>6. CASE Yield
  <2>1. Put = told \o <<item>> \o queue /\ Put' = Append(told, item) \o <<>> \o queue
    BY <1>6 DEF Yield, Put, Sending
  <2>2. told \o <<item>> \o queue = Append(told, item) \o <<>> \o queue
    BY <1>2
  <2> QED
    BY <1>3, <1>6, <2>1, <2>2 DEF Yield
<1>7. CASE Joined
  BY <1>1, <1>7 DEF Joined, StreamInv, Contract!Endings, Contract!At
<1> QED
  BY <1>4, <1>5, <1>6, <1>7 DEF Get

LEMMA StreamInit == Init => StreamInv
<1> SUFFICES ASSUME Init PROVE StreamInv
  OBVIOUS
<1>1. Put = <<>>
  BY DEF Init, Put, Sending
<1> QED
  BY <1>1 DEF Init, StreamInv, Progress

LEMMA StreamStep == Contained /\ StreamInv /\ [Next]_vars => StreamInv'
<1> SUFFICES ASSUME Contained, StreamInv, [Next]_vars PROVE StreamInv'
  OBVIOUS
<1>1. CASE Search /\ client = "on" /\ gen \in {"reading", "sending"}
  BY <1>1, SearchKeepsStream
<1>2. CASE Search /\ client = "on" /\ gen \notin {"reading", "sending"}
  <2>1. pc' = "ended" /\ UNCHANGED <<gen, client, told>>
    BY <1>2, ShapeType DEF Search, StreamInv, Contained
  <2> QED
    BY <1>2, <2>1 DEF StreamInv, Contract!Endings, Contract!At
<1>3. CASE Search /\ client # "on"
  BY <1>3 DEF Search, StreamInv
<1>4. CASE Get \/ Yield \/ Joined
  BY <1>4, GeneratorKeepsStream
<1>5. CASE Disconnect \/ Cancel \/ Abandon
  BY <1>5 DEF Disconnect, Cancel, Abandon, StreamInv
<1>6. CASE UNCHANGED vars
  BY <1>6 DEF vars, search, StreamInv, Put, Sending, Progress, Telling, Finished, Kept,
     Contract!Endings, Contract!At
<1> QED
  BY <1>1, <1>2, <1>3, <1>4, <1>5, <1>6 DEF Next, Generator

-----------------------------------------------------------------------------
\* A search tells of tracked references only, in events of the protocol; and when its response
\* is over neither its task nor a lookup of it runs, however the client left, but for the web
\* lookup gather leaves behind a live one that raised (search.py:165-171, main.py:230-237).
THEOREM WebSearchContained == Spec => []SearchContained
<1>1. Init => Contained
  BY ContainedInit
<1>2. Contained /\ [Next]_vars => Contained'
  BY ContainedStep
<1>3. Contained => SearchContained
  BY DEF Contained, LookupsAwaited, SearchContained, NoSearchOutlivesStream
<1> QED
  BY <1>1, <1>2, <1>3, PTL DEF Spec

\* Every step of a request is a step of the contract, or nothing the page can see.
LEMMA StepKeepsContract ==
  ASSUME Contained, StreamInv, [Next]_vars
  PROVE  [Contract!Next]_(Contract!vars)
<1> USE DEF Contract!vars
<1>1. CASE Search \/ Joined \/ Cancel \/ Abandon \/ UNCHANGED vars
  BY <1>1 DEF Search, Joined, Cancel, Abandon, vars
<1>2. CASE Get /\ (client = "gone" \/ Head(queue) # Sentinel)
  BY <1>2 DEF Get
<1>3. CASE Get /\ client = "on" /\ Head(queue) = Sentinel
  <2>1. Contract!Endings(told) # {}
    BY <1>3, SentinelLast DEF Get
  <2>2. Contract!End
    BY <1>3, <2>1 DEF Get, Contract!End
  <2> QED
    BY <2>2 DEF Contract!Next
<1>4. CASE Yield /\ client = "gone"
  BY <1>4 DEF Yield
<1>5. CASE Yield /\ client = "on"
  <2>1. told \in Seq(Items) /\ queue \in Seq(Items) /\ item \in Items /\ item # Sentinel
    BY <1>5 DEF Yield, Contained, TypeOK, Items
  <2>2. Put = told \o <<item>> \o queue /\ Kept(Put)
    BY <1>5, PutKept DEF Yield, Put, Sending
  <2>3. PICK n : n = Len(told) + 1
    OBVIOUS
  <2>4. n \in DOMAIN Put /\ Put[n] = item /\ SubSeq(Put, 1, n - 1) = told
    BY <2>1, <2>2, <2>3
  <2>5. Contract!Follows(told, item)
    <3>1. Put[n] # Sentinel => Contract!Follows(SubSeq(Put, 1, n - 1), Put[n])
      BY <2>2, <2>4 DEF Kept
    <3> QED
      BY <2>1, <2>4, <3>1
  <2>6. told' = Append(told, item) /\ gen' = "reading" /\ UNCHANGED client
    BY <1>5 DEF Yield
  <2>7. Len(told') = Len(told) + 1 /\ told = Contract!Front(told') /\ Contract!Last(told') = item
    BY <2>1, <2>6 DEF Contract!Front, Contract!Last
  <2>8. Contract!Tell
    BY <1>5, <2>5, <2>6, <2>7 DEF Contract!Tell, Yield
  <2> QED
    BY <2>8 DEF Contract!Next
<1>6. CASE Disconnect
  <2>1. Contract!Cut
    BY <1>6 DEF Disconnect, Contract!Cut
  <2> QED
    BY <2>1 DEF Contract!Next
<1>7. client \in {"on", "gone"}
  BY DEF Contained, TypeOK
<1> QED
  BY <1>1, <1>2, <1>3, <1>4, <1>5, <1>6, <1>7 DEF Next, Generator

\* The stream of a request implements the contract of the page: progress, one partial with
\* figures, prose after it, one ending that repeats both, for any number of chunks, whenever
\* a call raises and whenever the client leaves.
THEOREM WebKeepsContract == Spec => KeepsContract
<1>1. Init => Contained /\ StreamInv /\ Contract!Init
  BY ContainedInit, StreamInit DEF Init, Contract!Init
<1>2. Contained /\ StreamInv /\ [Next]_vars => (Contained /\ StreamInv)'
  BY ContainedStep, StreamStep
<1>3. Contained /\ StreamInv /\ [Next]_vars => [Contract!Next]_(Contract!vars)
  BY StepKeepsContract
<1> QED
  BY <1>1, <1>2, <1>3, PTL DEF Spec, KeepsContract, Contract!Spec

-----------------------------------------------------------------------------
\* The page.

Cards == [kind : Kinds, of : Searches \cup {NoSearch}, prose : Seq(Word),
          host : {"none", "shown", "hidden"}, settled : BOOLEAN]
Streams == {"new", "requested", "settled", "ended"} \cup Figured

\* A search that was started alone has the card and the buffer to itself until its result
\* comes: they hold what its stream has brought so far, unless the connection of a search
\* that was over failed and left its message.
OwnsPage(s) == /\ Awaiting = {s} /\ streamBuf = Explanation(s)
               /\ stream[s] = "requested" => card.kind \notin Figured
               /\ stream[s] \in Figured =>
                    /\ lastResult = Result(stream[s], s)
                    /\ \/ card.kind \notin Figured
                       \/ /\ card.kind = stream[s] /\ card.of = s /\ card.host = "shown"
                          /\ card.prose = Explanation(s)

AloneInv == ~overlapped => AnswerStands /\ \A s \in Awaiting : OwnsPage(s)

\* Prose comes after the figures and is shown with figures only, which are of a search.
WordsInv == /\ \A s \in Searches : stream[s] \in {"new", "requested"} => words[s] = 0
            /\ card.kind \in Figured => card.of \in Searches
            /\ card.kind \notin Figured => card.host = "none" /\ card.prose = <<>>
            /\ lastResult.kind \in Figured => lastResult.of \in Searches

\* Of a panel that was opened while no list was on its way, one list is under way at most,
\* its own.
PanelInv == ~late => /\ fetches = <<>> \/ fetches = <<panel.of>>
                     /\ panel.rows \in {panel.of, NoSearch}

PageInv == PageTypeOK /\ WordsInv /\ AloneInv /\ PanelInv

LEMMA ExplanationType ==
  ASSUME PageTypeOK, NEW s \in Searches
  PROVE  /\ Explanation(s) \in Seq(Word) /\ Len(Explanation(s)) = words[s]
         /\ \A i \in DOMAIN Explanation(s) : Explanation(s)[i] = <<s, i>>
         /\ words[s] = 0 => Explanation(s) = <<>>
<1>1. words[s] \in Nat /\ words[s] <= MaxWords
  BY PageBoundsAssumption DEF PageTypeOK
<1>2. \A i \in 1..words[s] : <<s, i>> \in Word
  BY <1>1, PageBoundsAssumption DEF Word
<1> QED
  BY <1>1, <1>2 DEF Explanation

LEMMA PageStarts == PageInit => PageInv
<1> SUFFICES ASSUME PageInit PROVE PageInv
  OBVIOUS
<1>1. PageTypeOK
  <2>1. 0 \in 0..MaxWords /\ "none" \in Kinds
    BY PageBoundsAssumption DEF Kinds
  <2>2. streamBuf \in Seq(Word) /\ fetches \in Seq(Searches)
    BY DEF PageInit
  <2>3. card \in Cards
    BY <2>1 DEF PageInit, Cards
  <2>4. words \in [Searches -> 0..MaxWords]
    BY <2>1 DEF PageInit
  <2> QED
    BY <2>1, <2>2, <2>3, <2>4 DEF PageInit, PageTypeOK, Cards
<1>2. WordsInv /\ PanelInv
  BY DEF PageInit, WordsInv, PanelInv, Figured
<1>3. AloneInv
  BY DEF PageInit, AloneInv, Awaiting, AnswerStands, Figured
<1> QED
  BY <1>1, <1>2, <1>3 DEF PageInv

\* Cards of a kind, without prose.
LEMMA ShowType ==
  ASSUME NEW kind \in Kinds, NEW s \in Searches
  PROVE  /\ Show(kind, s) \in Cards
         /\ Show(kind, s).kind = kind /\ Show(kind, s).of = s /\ Show(kind, s).prose = <<>>
         /\ Show(kind, s).host = IF kind \in Figured THEN "shown" ELSE "none"
BY DEF Show, Cards

\* Cards of a result.
LEMMA RenderType ==
  ASSUME PageTypeOK, NEW kind \in Kinds, NEW s \in Searches
  PROVE  /\ RenderResult(kind, s) \in Cards
         /\ RenderResult(kind, s).kind = kind /\ RenderResult(kind, s).of = s
         /\ RenderResult(kind, s).settled
         /\ RenderResult(kind, s).prose = IF kind \in Figured THEN Explanation(s) ELSE <<>>
         /\ kind \notin Figured => RenderResult(kind, s).host = "none"
<1>1. Host(kind, s) \in {"none", "shown", "hidden"} /\ (kind \notin Figured => Host(kind, s) = "none")
  BY DEF Host, Figured
<1>2. Explanation(s) \in Seq(Word) /\ <<>> \in Seq(Word)
  BY ExplanationType
<1> QED
  BY <1>1, <1>2 DEF RenderResult, Cards

LEMMA RunSearchStep == ASSUME PageInv, NEW s \in Searches, RunSearch(s) PROVE PageInv'
<1> USE DEF PageInv
<1>1. /\ stream[s] = "new" /\ words[s] = 0 /\ words' = words
      /\ stream' \in [Searches -> Streams]
      /\ stream'[s] = "requested" /\ \A t \in Searches \ {s} : stream'[t] = stream[t]
  BY DEF RunSearch, PageTypeOK, WordsInv, Streams
<1>2. "skeleton" \in Kinds /\ "skeleton" \notin Figured
  BY DEF Kinds, Figured
<1>3. /\ card' \in Cards /\ card'.kind \notin Figured /\ card'.prose = <<>> /\ card'.host = "none"
      /\ streamBuf' = <<>> /\ lastResult' = lastResult /\ UNCHANGED <<panel, fetches, opened, late>>
      /\ disabled' \in BOOLEAN /\ overlapped' = (Awaiting # {})
  BY <1>2, ShowType DEF RunSearch, Reset, panelVars
<1>4. PageTypeOK'
  BY <1>1, <1>3 DEF PageTypeOK, Cards, Streams
<1>5. WordsInv' /\ PanelInv'
  BY <1>1, <1>3 DEF WordsInv, PanelInv
<1>6. ASSUME ~overlapped' PROVE Awaiting' = {s}
  BY <1>1, <1>3, <1>6 DEF Awaiting
<1>7. Explanation(s)' = <<>>
  <2>1. words'[s] = 0
    BY <1>1
  <2> QED
    BY <2>1 DEF Explanation
<1>8. "requested" \notin Figured
  BY DEF Figured
<1>9. AloneInv'
  BY <1>1, <1>3, <1>6, <1>7, <1>8 DEF AloneInv, OwnsPage, AnswerStands
<1> QED
  BY <1>4, <1>5, <1>9

\* An event of a search that awaits its result: of those started alone it is the only one.
LEMMA EventAlone ==
  ASSUME PageInv, NEW s \in Awaiting
  PROVE  s \in Searches /\ (~overlapped => OwnsPage(s))
BY DEF PageInv, AloneInv, Awaiting

LEMMA PartialStep == ASSUME PageInv, NEW s \in Searches, OnPartial(s) PROVE PageInv'
<1> USE DEF PageInv
<1>1. PICK kind \in Figured : /\ stream' = [stream EXCEPT ![s] = kind]
                              /\ card' = Show(kind, s) /\ lastResult' = Result(kind, s)
  BY DEF OnPartial
<1>2. /\ s \in Awaiting /\ stream[s] = "requested" /\ words[s] = 0 /\ words' = words
      /\ stream' \in [Searches -> Streams]
      /\ stream'[s] = kind /\ \A t \in Searches \ {s} : stream'[t] = stream[t]
      /\ UNCHANGED <<streamBuf, disabled, overlapped, panel, fetches, opened, late>>
  BY <1>1 DEF OnPartial, PageTypeOK, WordsInv, Awaiting, Streams, panelVars
<1>3. kind \in Kinds /\ kind \notin {"new", "requested"}
  BY DEF Kinds, Figured
<1>4. /\ card' \in Cards /\ card'.kind = kind /\ card'.of = s /\ card'.prose = <<>>
      /\ card'.host = "shown"
  BY <1>1, <1>3, ShowType
<1>5. /\ lastResult' \in [of : Searches \cup {NoSearch}, kind : {"none", "plain"} \cup Figured]
      /\ lastResult'.of = s
  BY <1>1 DEF Result
<1>6. PageTypeOK'
  BY <1>2, <1>4, <1>5 DEF PageTypeOK, Cards, Streams
<1>7. WordsInv' /\ PanelInv'
  BY <1>2, <1>3, <1>4, <1>5 DEF WordsInv, PanelInv
<1>8. Awaiting' = Awaiting
  BY <1>2 DEF Awaiting
<1>9. Explanation(s)' = Explanation(s) /\ Explanation(s) = <<>>
  BY <1>2, ExplanationType DEF Explanation
<1>10. AloneInv'
  BY <1>1, <1>2, <1>3, <1>4, <1>8, <1>9, EventAlone DEF AloneInv, OwnsPage, AnswerStands
<1> QED
  BY <1>6, <1>7, <1>10

LEMMA TextStep == ASSUME PageInv, NEW s \in Searches, OnText(s) PROVE PageInv'
<1> USE DEF PageInv
<1>1. /\ s \in Awaiting /\ stream[s] \in Figured /\ words[s] < MaxWords /\ words[s] \in Nat
      /\ words' \in [Searches -> 0..MaxWords] /\ words'[s] = words[s] + 1
      /\ \A t \in Searches \ {s} : words'[t] = words[t]
      /\ stream' = stream
  BY PageBoundsAssumption, SMTT(30) DEF OnText, PageTypeOK, Awaiting
<1>2. streamBuf' = Append(streamBuf, <<s, words[s] + 1>>) /\ streamBuf' \in Seq(Word)
  <2>1. <<s, words[s] + 1>> \in Word
    BY <1>1, PageBoundsAssumption DEF Word
  <2> QED
    BY <1>1, <2>1 DEF OnText, PageTypeOK
<1>3. /\ card.host = "shown" => card' = [card EXCEPT !.prose = streamBuf']
      /\ card.host # "shown" => card' = card
      /\ UNCHANGED <<lastResult, disabled, overlapped, panel, fetches, opened, late>>
  BY DEF OnText, panelVars
<1>4. card' \in Cards /\ card'.kind = card.kind /\ card'.of = card.of /\ card'.host = card.host
  BY <1>2, <1>3 DEF PageTypeOK, Cards
<1>5. PageTypeOK'
  BY <1>1, <1>2, <1>3, <1>4 DEF PageTypeOK, Cards
<1>6. WordsInv'
  <2>1. \A t \in Searches : stream[t] \in {"new", "requested"} => words'[t] = 0
    BY <1>1 DEF WordsInv, Figured
  <2> QED
    BY <1>1, <1>3, <1>4, <2>1 DEF WordsInv
<1>7. PanelInv' /\ Awaiting' = Awaiting
  BY <1>1, <1>3 DEF PanelInv, Awaiting
<1>8. streamBuf = Explanation(s) => streamBuf' = Explanation(s)'
  BY <1>1, <1>2, SMTT(30) DEF Explanation, PageTypeOK
<1>9. AloneInv'
  <2> SUFFICES ASSUME ~overlapped PROVE OwnsPage(s)' /\ Awaiting = {s}
    BY <1>1, <1>3, <1>7 DEF AloneInv, AnswerStands
  <2>1. OwnsPage(s)
    BY <1>1, EventAlone
  <2>2. card.kind \in Figured => card'.prose = Explanation(s)'
    BY <1>1, <1>3, <1>8, <2>1 DEF OwnsPage, PageTypeOK
  <2>3. "requested" \notin Figured
    BY DEF Figured
  <2> QED
    BY <1>1, <1>3, <1>4, <1>7, <1>8, <2>1, <2>2, <2>3 DEF OwnsPage
<1> QED
  BY <1>5, <1>6, <1>7, <1>9

\* The result or an error has come: of searches started alone, no other awaits its own.
LEMMA SettledAlone ==
  ASSUME PageInv, NEW s \in Awaiting, Settled(s)
  PROVE  /\ stream' \in [Searches -> Streams]
         /\ stream'[s] = "settled" /\ \A t \in Searches \ {s} : stream'[t] = stream[t]
         /\ UNCHANGED <<words, streamBuf, disabled, overlapped, panel, fetches, opened, late>>
         /\ ~overlapped => OwnsPage(s) /\ Awaiting' = {}
<1>1. s \in Searches /\ (~overlapped => OwnsPage(s))
  BY EventAlone
<1>2. /\ stream' \in [Searches -> Streams]
      /\ stream'[s] = "settled" /\ \A t \in Searches \ {s} : stream'[t] = stream[t]
  BY <1>1 DEF Settled, PageInv, PageTypeOK, Streams
<1>3. ASSUME Awaiting = {s} PROVE Awaiting' = {}
  BY <1>1, <1>2, <1>3 DEF Awaiting, Figured
<1> QED
  BY <1>1, <1>2, <1>3 DEF Settled, panelVars, OwnsPage

\* A result with figures, on a card of its own search where that was started alone.
LEMMA FinalCardStep ==
  ASSUME PageInv, NEW s \in Awaiting, stream[s] \in Figured, Settled(s),
         lastResult' = Result(stream[s], s),
         card' \in Cards, card'.kind \in Figured, card'.of \in Searches, card'.settled,
         ~overlapped => /\ card'.kind = stream[s] /\ card'.of = s
                        /\ card'.prose = Explanation(s)
  PROVE  PageInv'
<1> USE DEF PageInv
<1>1. s \in Searches
  BY EventAlone
<1>2. /\ lastResult' \in [of : Searches \cup {NoSearch}, kind : {"none", "plain"} \cup Figured]
      /\ lastResult'.of \in Searches
  BY <1>1 DEF Result
<1>3. PageTypeOK'
  BY <1>2, SettledAlone DEF PageTypeOK, Cards, Streams
<1>4. WordsInv' /\ PanelInv'
  BY <1>2, SettledAlone DEF WordsInv, PanelInv
<1>5. Explanation(s)' = Explanation(s)
  BY SettledAlone DEF Explanation
<1>6. AloneInv'
  BY <1>5, SettledAlone DEF AloneInv, AnswerStands, Result
<1> QED
  BY <1>3, <1>4, <1>6

LEMMA FinalResultStep == ASSUME PageInv, NEW s \in Searches, OnFinalResult(s) PROVE PageInv'
<1> USE DEF PageInv
<1> DEFINE kind == stream[s]
<1>1. s \in Awaiting /\ kind \in Figured /\ kind \in Kinds /\ Settled(s)
      /\ card' = Finalize(kind, s) /\ lastResult' = Result(kind, s)
  BY DEF OnFinalResult, Awaiting, Kinds
<1>2. Explanation(s) \in Seq(Word) /\ <<>> \in Seq(Word)
  BY ExplanationType
<1>3. CASE card.host = "none"
  <2>1. card' = RenderResult(kind, s)
    BY <1>1, <1>3 DEF Finalize
  <2>2. /\ card' \in Cards /\ card'.kind = kind /\ card'.of = s /\ card'.settled
        /\ card'.prose = Explanation(s)
    BY <1>1, <2>1, RenderType
  <2> QED
    BY <1>1, <2>2, FinalCardStep
<1>4. CASE card.host # "none"
  <2>1. /\ card' \in Cards /\ card'.kind = card.kind /\ card'.of = card.of /\ card'.settled
        /\ card.host = "shown" => card'.prose = Explanation(s)
    BY <1>1, <1>2, <1>4 DEF Finalize, PageTypeOK, Cards
  <2>2. card.kind \in Figured /\ card.of \in Searches
    BY <1>4 DEF WordsInv
  <2>3. ~overlapped => card.kind = kind /\ card.of = s /\ card.host = "shown"
    BY <1>1, <2>2, EventAlone DEF OwnsPage
  <2> QED
    BY <1>1, <2>1, <2>2, <2>3, FinalCardStep
<1> QED
  BY <1>3, <1>4

\* The endings that leave no figures on the card.
LEMMA BareResultStep ==
  ASSUME PageInv, NEW s \in Searches, OnPlainResult(s) \/ OnError(s) PROVE PageInv'
<1> USE DEF PageInv
<1>1. s \in Awaiting /\ Settled(s)
  BY DEF OnPlainResult, OnError, Awaiting
<1>2. /\ card' \in Cards /\ card'.kind \notin Figured /\ card'.prose = <<>> /\ card'.host = "none"
      /\ lastResult' \in [of : Searches \cup {NoSearch}, kind : {"none", "plain"} \cup Figured]
      /\ lastResult'.kind \in Figured => lastResult'.of \in Searches
  <2>1. {"plain", "message"} \subseteq Kinds \ Figured
    BY DEF Kinds, Figured
  <2>2. CASE OnPlainResult(s)
    BY <2>1, <2>2, RenderType DEF OnPlainResult, Result
  <2>3. CASE OnError(s)
    BY <2>1, <2>3, ShowType DEF OnError, PageTypeOK, WordsInv
  <2> QED
    BY <2>2, <2>3
<1>3. PageTypeOK'
  BY <1>1, <1>2, SettledAlone DEF PageTypeOK, Cards, Streams
<1>4. WordsInv' /\ PanelInv'
  BY <1>1, <1>2, SettledAlone DEF WordsInv, PanelInv
<1>5. AloneInv'
  BY <1>1, <1>2, SettledAlone DEF AloneInv, AnswerStands
<1> QED
  BY <1>3, <1>4, <1>5

\* The stream of a search ends: the card stays or says that the connection failed.
LEMMA EndStreamStep ==
  ASSUME PageInv, NEW s \in Searches, Close(s) \/ ConnectionFails(s) PROVE PageInv'
<1> USE DEF PageInv
<1>1. /\ stream' = [stream EXCEPT ![s] = "ended"] /\ disabled' = FALSE
      /\ UNCHANGED <<words, streamBuf, lastResult, overlapped, panel, fetches, opened, late>>
  BY DEF Close, ConnectionFails, Ended, panelVars
<1>2. /\ stream' \in [Searches -> Streams]
      /\ stream'[s] = "ended" /\ \A t \in Searches \ {s} : stream'[t] = stream[t]
  BY <1>1 DEF PageTypeOK, Streams
<1>3. \/ card' = card /\ s \notin Awaiting
      \/ card' \in Cards /\ card'.kind \notin Figured /\ card'.prose = <<>> /\ card'.host = "none"
  <2>1. CASE Close(s)
    BY <2>1 DEF Close, Awaiting, Figured
  <2>2. CASE ConnectionFails(s)
    <3>1. "message" \in Kinds /\ "message" \notin Figured
      BY DEF Kinds, Figured
    <3> QED
      BY <2>2, <3>1, ShowType DEF ConnectionFails
  <2> QED
    BY <2>1, <2>2
<1>4. PageTypeOK'
  BY <1>1, <1>2, <1>3 DEF PageTypeOK, Cards, Streams
<1>5. WordsInv' /\ PanelInv'
  BY <1>1, <1>2, <1>3 DEF WordsInv, PanelInv
<1>6. Awaiting' = Awaiting \ {s}
  BY <1>2 DEF Awaiting, Figured
<1>7. \A t \in Searches : Explanation(t)' = Explanation(t)
  BY <1>1 DEF Explanation
<1>8. AloneInv'
  <2> SUFFICES ASSUME ~overlapped PROVE AnswerStands' /\ \A t \in Awaiting' : OwnsPage(t)'
    BY <1>1 DEF AloneInv
  <2>1. ASSUME NEW t \in Awaiting' PROVE OwnsPage(t)'
    <3>1. t \in Awaiting /\ t # s /\ t \in Searches /\ OwnsPage(t)
      BY <1>1, <1>6, <2>1, EventAlone
    <3>2. Awaiting' = {t} /\ stream'[t] = stream[t] /\ Explanation(t)' = Explanation(t)
      BY <1>2, <1>6, <1>7, <3>1 DEF OwnsPage
    <3> QED
      BY <1>1, <1>3, <3>1, <3>2 DEF OwnsPage
  <2>2. AnswerStands'
    <3>1. CASE card' = card /\ s \notin Awaiting
      <4>1. AnswerStands /\ Awaiting' = Awaiting
        BY <1>6, <3>1 DEF AloneInv
      <4>2. Explanation(card.of)' = Explanation(card.of)
        BY <1>1, <3>1 DEF Explanation
      <4> QED
        BY <1>1, <3>1, <4>1, <4>2 DEF AnswerStands
    <3>2. CASE card'.kind \notin Figured
      BY <3>2 DEF AnswerStands
    <3> QED
      BY <1>3, <3>1, <3>2
  <2> QED
    BY <2>1, <2>2
<1> QED
  BY <1>4, <1>5, <1>8

\* The panel leaves the card alone.
LEMMA PanelStep ==
  ASSUME PageInv, OpenModal \/ CloseModal \/ (\E i \in DOMAIN fetches : ListingsArrive(i))
  PROVE  PageInv'
<1> USE DEF PageInv
<1>1. UNCHANGED <<stream, words, card, streamBuf, lastResult, disabled, overlapped>>
  BY DEF OpenModal, CloseModal, ListingsArrive
<1>2. WordsInv' /\ AloneInv'
  BY <1>1 DEF WordsInv, AloneInv, OwnsPage, AnswerStands, Awaiting, Explanation
<1>3. CASE OpenModal
  <2>1. /\ lastResult.of \in Searches
        /\ panel' = [open |-> TRUE, of |-> lastResult.of, rows |-> NoSearch]
        /\ fetches' = Append(fetches, lastResult.of) /\ opened' \in Nat /\ late' \in BOOLEAN
    BY <1>3 DEF OpenModal, Opens, WordsInv, PageTypeOK, Figured
  <2>2. PageTypeOK'
    BY <1>1, <2>1 DEF PageTypeOK
  <2>3. PanelInv'
    <3>1. SUFFICES ASSUME ~late' PROVE fetches' = <<panel'.of>>
      BY <2>1 DEF PanelInv
    <3>2. fetches = <<>>
      BY <1>3, <3>1 DEF OpenModal
    <3> QED
      BY <2>1, <3>2
  <2> QED
    BY <1>2, <2>2, <2>3
<1>4. CASE CloseModal
  BY <1>1, <1>2, <1>4 DEF CloseModal, PageTypeOK, PanelInv
<1>5. ASSUME NEW i \in DOMAIN fetches, ListingsArrive(i) PROVE PageInv'
  <2>1. PICK rows \in {fetches[i], NoSearch} : panel' = [panel EXCEPT !.rows = rows]
    BY <1>5 DEF ListingsArrive
  <2>2. /\ fetches' = [j \in 1..(Len(fetches) - 1) |-> IF j < i THEN fetches[j] ELSE fetches[j + 1]]
        /\ UNCHANGED <<opened, late>>
    BY <1>5 DEF ListingsArrive
  <2>3. fetches' \in Seq(Searches)
    <3>1. fetches \in Seq(Searches) /\ Len(fetches) - 1 \in Nat
      BY DEF PageTypeOK
    <3>2. \A j \in 1..(Len(fetches) - 1) : fetches[j] \in Searches /\ fetches[j + 1] \in Searches
      BY <3>1
    <3> QED
      BY <2>2, <3>1, <3>2
  <2>4. rows \in Searches \cup {NoSearch}
    BY <2>1 DEF PageTypeOK
  <2>5. PageTypeOK'
    BY <1>1, <2>1, <2>2, <2>3, <2>4 DEF PageTypeOK
  <2>6. PanelInv'
    <3>1. SUFFICES ASSUME ~late PROVE fetches' = <<>> /\ panel'.rows \in {panel'.of, NoSearch}
      BY <2>2 DEF PanelInv
    <3>2. fetches = <<panel.of>> /\ i = 1
      BY <3>1 DEF PanelInv
    <3> QED
      BY <2>1, <2>2, <3>2 DEF PageTypeOK
  <2> QED
    BY <1>2, <2>5, <2>6
<1> QED
  BY <1>3, <1>4, <1>5

LEMMA PageInvariant == PageSpec => []PageInv
<1>1. PageInv /\ [PageNext]_pageVars => PageInv'
  <2> SUFFICES ASSUME PageInv, [PageNext]_pageVars PROVE PageInv'
    OBVIOUS
  <2>1. CASE UNCHANGED pageVars
    BY <2>1 DEF pageVars, PageInv, PageTypeOK, WordsInv, AloneInv, OwnsPage, AnswerStands, Awaiting,
                Explanation, PanelInv
  <2> QED
    BY <2>1, RunSearchStep, PartialStep, TextStep, FinalResultStep, BareResultStep, EndStreamStep,
       PanelStep
    DEF PageNext, Event
<1> QED
  BY <1>1, PageStarts, PTL DEF PageSpec

\* A search that was started alone has the card to itself, while it runs and afterwards,
\* whatever the searches before it wrote over each other (runSearch and appendStream of the
\* page).
THEOREM PageCardIsOwn == PageSpec => []CardIsOwn
<1>1. ASSUME PageInv PROVE CardIsOwn
  <2> USE <1>1 DEF PageInv
  <2>1. ASSUME ~overlapped, NEW i \in DOMAIN card.prose PROVE card.prose[i] = <<card.of, i>>
    <3>1. card.kind \in Figured /\ card.of \in Searches
      BY <2>1 DEF WordsInv
    <3>2. card.prose = Explanation(card.of)
      <4>1. CASE Awaiting = {}
        BY <2>1, <3>1, <4>1 DEF AloneInv, AnswerStands
      <4>2. ASSUME NEW s \in Awaiting PROVE card.prose = Explanation(card.of)
        BY <2>1, <3>1, <4>2 DEF AloneInv, OwnsPage, Awaiting
      <4> QED
        BY <4>1, <4>2
    <3> QED
      BY <2>1, <3>1, <3>2, ExplanationType
  <2> QED
    BY <2>1 DEF CardIsOwn, ProseIsOwn, AloneInv, AnswerStands
<1> QED
  BY <1>1, PageInvariant, PTL

\* The panel lists the rows of the reference at its head, unless it was opened while the list
\* of an earlier panel was on its way (openModal).
THEOREM PanelListsItsRows == PageSpec => []PanelRowsOfHead
<1>1. PageInv => PanelRowsOfHead
  BY DEF PageInv, PanelInv, PanelRowsOfHead
<1> QED
  BY <1>1, PageInvariant, PTL

-----------------------------------------------------------------------------
\* The orchestrator.

Messages == [role : {"model"}, calls : Seq(Names)] \cup [role : {"user"}, answers : Seq(Answers)]

\* The calls a message asks for, and those of a conversation.
CallsOf(m) == IF m.role = "model" THEN m.calls ELSE <<>>
AskedIn(c) == FlattenSeq([i \in 1..Len(c) |-> CallsOf(c[i])])

\* Questions and answers alternate, each answer to the question before it.
Paired(c) == \A i \in DOMAIN c :
               IF i % 2 = 1 THEN c[i].role = "model"
               ELSE c[i].role = "user" /\ NamesOf(c[i].answers) = c[i - 1].calls

\* Between turns every call has its answer; within one the calls still to be made are
\* those the model asked for last, behind those that have an answer.
Conversation ==
  /\ Paired(contents)
  /\ at # "dispatch" => Len(contents) % 2 = 0 /\ AskedIn(contents) = calls
  /\ at = "dispatch" => /\ Len(contents) % 2 = 1
                        /\ contents[Len(contents)].calls = NamesOf(results) \o requested
                        /\ AskedIn(contents) = calls \o requested

\* Each turn is one request to the model and at most MaxCalls calls.
Turns ==
  /\ at = "generate" => generations = turn /\ Len(calls) <= turn * MaxCalls
  /\ at = "dispatch" => /\ turn < MaxToolTurns /\ generations = turn + 1
                        /\ Len(calls) + Len(requested) <= turn * MaxCalls + MaxCalls
  /\ at = "done" => generations <= MaxToolTurns /\ Len(calls) <= MaxToolTurns * MaxCalls

OInv == AskTypeOK /\ Conversation /\ Turns

-----------------------------------------------------------------------------
LEMMA CallsOfType == \A m \in Messages : CallsOf(m) \in Seq(Names)
  BY DEF Messages, CallsOf

\* A message adds the calls it asks for.
LEMMA AskedAppend ==
  ASSUME NEW c \in Seq(Messages), NEW m \in Messages
  PROVE  AskedIn(Append(c, m)) = AskedIn(c) \o CallsOf(m) /\ AskedIn(c) \in Seq(Names)
<1> DEFINE d == Append(c, m)
           ss == [i \in 1..Len(c) |-> CallsOf(c[i])]
           tt == [i \in 1..Len(d) |-> CallsOf(d[i])]
<1>1. d \in Seq(Messages) /\ Len(d) = Len(c) + 1 /\ d[Len(c) + 1] = m
      /\ \A i \in 1..Len(c) : d[i] = c[i]
  OBVIOUS
<1>2. ss \in Seq(Seq(Names)) /\ CallsOf(m) \in Seq(Names)
  BY CallsOfType
<1> DEFINE uu == Append(ss, CallsOf(m))
<1>3. Len(uu) = Len(c) + 1 /\ uu[Len(c) + 1] = CallsOf(m) /\ uu \in Seq(Seq(Names))
      /\ \A i \in 1..Len(c) : uu[i] = CallsOf(c[i])
  BY <1>2
<1> HIDE DEF d, uu
<1>4. tt = uu
  <2>1. tt \in Seq(Seq(Names)) /\ Len(tt) = Len(c) + 1
    BY <1>1, CallsOfType
  <2>2. ASSUME NEW i \in 1..(Len(c) + 1) PROVE tt[i] = uu[i]
    <3>1. tt[i] = CallsOf(d[i])
      BY <1>1
    <3>2. CASE i = Len(c) + 1
      BY <1>1, <1>3, <3>1, <3>2
    <3>3. CASE i \in 1..Len(c)
      BY <1>1, <1>3, <3>1, <3>3
    <3> QED
      BY <3>2, <3>3
  <2> HIDE DEF tt
  <2> QED
    BY <1>3, <2>1, <2>2
<1> HIDE DEF ss, tt
<1>5. FlattenSeq(ss) \in Seq(Names) /\ FlattenSeq(uu) = FlattenSeq(ss) \o CallsOf(m)
  BY <1>2, FlattenAppend DEF uu
<1> QED
  BY <1>4, <1>5 DEF AskedIn, d, ss, tt

LEMMA PairedAppend ==
  ASSUME NEW c \in Seq(Messages), NEW m \in Messages, Paired(c),
         IF Len(c) % 2 = 0 THEN m.role = "model"
         ELSE m.role = "user" /\ NamesOf(m.answers) = c[Len(c)].calls
  PROVE  Paired(Append(c, m))
<1> DEFINE d == Append(c, m)
<1>1. DOMAIN d = 1..(Len(c) + 1) /\ d[Len(c) + 1] = m /\ \A i \in 1..Len(c) : d[i] = c[i]
  OBVIOUS
<1>2. Len(c) \in Nat /\ DOMAIN c = 1..Len(c)
  OBVIOUS
<1> HIDE DEF d
<1> SUFFICES ASSUME NEW i \in DOMAIN d
             PROVE  IF i % 2 = 1 THEN d[i].role = "model"
                    ELSE d[i].role = "user" /\ NamesOf(d[i].answers) = d[i - 1].calls
  BY DEF Paired, d
<1>3. CASE i \in 1..Len(c)
  <2>1. d[i] = c[i] /\ (i % 2 # 1 => i - 1 \in 1..Len(c) /\ d[i - 1] = c[i - 1])
    BY <1>1, <1>2, <1>3
  <2> QED
    BY <1>2, <1>3, <2>1 DEF Paired
<1>4. CASE i = Len(c) + 1
  <2>1. d[i] = m /\ i - 1 = Len(c)
    BY <1>1, <1>2, <1>4
  <2>2. CASE Len(c) % 2 = 0
    BY <1>2, <1>4, <2>1, <2>2
  <2>3. CASE Len(c) % 2 # 0
    <3>1. i % 2 # 1 /\ Len(c) \in 1..Len(c)
      BY <1>2, <1>4, <2>3
    <3> QED
      BY <1>1, <2>1, <2>3, <3>1
  <2> QED
    BY <2>2, <2>3
<1> QED
  BY <1>1, <1>2, <1>3, <1>4

\* The names of the answers, with one more of them.
LEMMA NamesAppend ==
  ASSUME NEW s \in Seq(Answers), NEW a \in Answers
  PROVE  NamesOf(s) \in Seq(Names) /\ NamesOf(s \o <<a>>) = NamesOf(s) \o <<a.name>>
<1>1. \A x \in Answers : x.name \in Names
  BY DEF Answers
<1>2. NamesOf(s) \in Seq(Names) /\ Len(NamesOf(s)) = Len(s)
      /\ \A i \in 1..Len(s) : NamesOf(s)[i] = s[i].name
  BY <1>1 DEF NamesOf
<1> DEFINE t == s \o <<a>>
           u == NamesOf(s) \o <<a.name>>
<1>3. t \in Seq(Answers) /\ Len(t) = Len(s) + 1 /\ t[Len(s) + 1] = a
      /\ \A i \in 1..Len(s) : t[i] = s[i]
  OBVIOUS
<1>4. u \in Seq(Names) /\ Len(u) = Len(s) + 1 /\ u[Len(s) + 1] = a.name
      /\ \A i \in 1..Len(s) : u[i] = NamesOf(s)[i]
  BY <1>1, <1>2
<1> HIDE DEF t, u
<1>5. NamesOf(t) \in Seq(Names) /\ Len(NamesOf(t)) = Len(t)
      /\ \A i \in 1..Len(t) : NamesOf(t)[i] = t[i].name
  BY <1>1, <1>3 DEF NamesOf
<1>6. NamesOf(t) = u
  BY <1>2, <1>3, <1>4, <1>5, SMTT(30)
<1> QED
  BY <1>2, <1>6 DEF t, u

-----------------------------------------------------------------------------
LEMMA OInit == AskInit => OInv
<1> SUFFICES ASSUME AskInit PROVE OInv
  OBVIOUS
<1>1. AskTypeOK
  BY TurnsAssumption DEF AskInit, AskTypeOK, Unfinished
<1>2. AskedIn(contents) = <<>>
  <2>1. [i \in 1..Len(contents) |-> CallsOf(contents[i])] = <<>>
    BY DEF AskInit
  <2> QED
    BY <2>1, FlattenEmpty DEF AskedIn
<1>3. Paired(contents) /\ Len(contents) % 2 = 0
  BY DEF AskInit, Paired
<1>4. Turns
  BY TurnsAssumption DEF AskInit, Turns
<1> QED
  BY <1>1, <1>2, <1>3, <1>4 DEF AskInit, OInv, Conversation

\* The run ends where the model fails, concludes or may not be asked again.
LEMMA EndStep ==
  ASSUME OInv, GenerationFails \/ Concludes \/ HitsLimit
  PROVE  OInv'
<1>1. /\ at = "generate" /\ at' = "done" /\ outcome' \in [text : BOOLEAN, truncated : BOOLEAN]
      /\ UNCHANGED <<turn, contents, requested, results, calls>>
      /\ \/ turn < MaxToolTurns /\ generations' = generations + 1
         \/ turn = MaxToolTurns /\ generations' = generations
  <2>1. CASE GenerationFails \/ HitsLimit
    <3>1. outcome' = [text |-> FALSE, truncated |-> TRUE]
      BY <2>1 DEF GenerationFails, HitsLimit
    <3>2. outcome' \in [text : BOOLEAN, truncated : BOOLEAN]
      BY <3>1
    <3>3. CASE GenerationFails
      BY <3>2, <3>3 DEF GenerationFails, Generate, TurnsLeft
    <3>4. CASE HitsLimit
      BY <3>2, <3>4, TurnsAssumption DEF HitsLimit, TurnsLeft, OInv, AskTypeOK
    <3> QED
      BY <2>1, <3>3, <3>4
  <2>2. CASE Concludes
    <3>1. PICK text \in BOOLEAN : outcome' = [text |-> text, truncated |-> FALSE]
      BY <2>2 DEF Concludes
    <3>2. outcome' \in [text : BOOLEAN, truncated : BOOLEAN]
      BY <3>1
    <3> QED
      BY <2>2, <3>2 DEF Concludes, Generate, TurnsLeft
  <2> QED
    BY <2>1, <2>2
<1>2. turn \in Nat /\ generations = turn /\ Len(calls) <= turn * MaxCalls /\ calls \in Seq(Names)
  BY <1>1 DEF OInv, AskTypeOK, Turns
<1>3. turn * MaxCalls <= MaxToolTurns * MaxCalls
  BY <1>1, <1>2, TurnsAssumption, ProductMonotone
<1>4. Turns'
  <2>1. turn * MaxCalls \in Nat /\ MaxToolTurns * MaxCalls \in Nat /\ Len(calls) \in Nat
    BY <1>2, TurnsAssumption
  <2>2. Len(calls) <= MaxToolTurns * MaxCalls
    BY <1>2, <1>3, <2>1
  <2>3. generations' <= MaxToolTurns
    BY <1>1, <1>2, TurnsAssumption
  <2> QED
    BY <1>1, <2>2, <2>3 DEF Turns
<1>5. AskTypeOK'
  BY <1>1, <1>2 DEF OInv, AskTypeOK
<1>6. Conversation'
  BY <1>1 DEF OInv, Conversation, Paired
<1> QED
  BY <1>4, <1>5, <1>6 DEF OInv

LEMMA AskStep ==
  ASSUME OInv, AsksForCalls
  PROVE  OInv'
<1>1. PICK asked \in BoundedSeq(Names, MaxCalls) \ {<<>>} :
        requested' = asked /\ contents' = Append(contents, [role |-> "model", calls |-> asked])
  BY DEF AsksForCalls
<1>2. asked \in Seq(Names) /\ Len(asked) <= MaxCalls
  BY TurnsAssumption DEF BoundedSeq, SeqOf
<1>3. /\ at = "generate" /\ at' = "dispatch" /\ turn < MaxToolTurns
      /\ generations' = generations + 1 /\ results' = <<>> /\ UNCHANGED <<turn, calls, outcome>>
  BY DEF AsksForCalls, Generate, TurnsLeft
<1> DEFINE m == [role |-> "model", calls |-> asked]
<1>4. m \in Messages /\ m.role = "model" /\ CallsOf(m) = asked /\ m.calls = asked
  BY <1>2 DEF Messages, CallsOf
<1>5. contents \in Seq(Messages) /\ calls \in Seq(Names) /\ turn \in Nat
  BY DEF OInv, AskTypeOK, Messages
<1> HIDE DEF m
<1>6. contents' = Append(contents, m)
  BY <1>1 DEF m
<1>7. contents' \in Seq(Messages) /\ Len(contents') = Len(contents) + 1
      /\ contents'[Len(contents')] = m
  BY <1>4, <1>5, <1>6
<1>8. Len(contents) % 2 = 0 /\ AskedIn(contents) = calls /\ Paired(contents)
  BY <1>3 DEF OInv, Conversation
<1>9. Paired(contents')
  BY <1>4, <1>5, <1>6, <1>8, PairedAppend
<1>10. AskedIn(contents') = calls \o asked
  BY <1>4, <1>5, <1>6, <1>8, AskedAppend
<1>11. NamesOf(results') \o requested' = asked
  <2>1. NamesOf(<<>>) = <<>>
    BY DEF NamesOf
  <2> QED
    BY <1>1, <1>2, <1>3, <2>1
<1>12. Len(contents') % 2 = 1
  <2>1. Len(contents) \in Nat
    BY <1>5
  <2> QED
    BY <1>7, <1>8, <2>1
<1>13. Conversation'
  BY <1>1, <1>3, <1>4, <1>7, <1>9, <1>10, <1>11, <1>12 DEF Conversation
<1>14. Turns'
  <2>1. generations = turn /\ Len(calls) <= turn * MaxCalls /\ turn * MaxCalls \in Nat
        /\ Len(calls) \in Nat /\ Len(asked) \in Nat
    BY <1>2, <1>3, <1>5, TurnsAssumption DEF OInv, Turns
  <2>2. Len(calls) + Len(asked) <= turn * MaxCalls + MaxCalls
    BY <1>2, <2>1, TurnsAssumption
  <2> QED
    BY <1>1, <1>3, <2>1, <2>2 DEF Turns
<1>15. AskTypeOK'
  BY <1>1, <1>2, <1>3, <1>7 DEF OInv, AskTypeOK, Messages
<1> QED
  BY <1>13, <1>14, <1>15 DEF OInv

LEMMA CallStep ==
  ASSUME OInv, Call
  PROVE  OInv'
<1>1. /\ at = "dispatch" /\ requested # <<>> /\ calls' = Append(calls, Head(requested))
      /\ requested' = Tail(requested)
      /\ UNCHANGED <<at, turn, contents, outcome, generations>>
  BY DEF Call, Called
<1>2. PICK answer \in Dispatch(Head(requested)) : results' = results \o answer
  BY DEF Call
<1>3. requested \in Seq(Names) /\ results \in Seq(Answers) /\ calls \in Seq(Names)
  BY DEF OInv, AskTypeOK
<1>4. Head(requested) \in Names /\ Tail(requested) \in Seq(Names)
      /\ requested = <<Head(requested)>> \o Tail(requested)
      /\ Len(Tail(requested)) = Len(requested) - 1
  BY <1>1, <1>3
<1>5. PICK a \in Answers : answer = <<a>> /\ a.name = Head(requested)
  BY <1>2, <1>4 DEF Dispatch, Answers
<1>6. PICK h \in Names, t \in Seq(Names) : h = Head(requested) /\ t = Tail(requested)
  BY <1>4
<1>7. requested = <<h>> \o t /\ requested' = t /\ calls' = Append(calls, h)
      /\ results' = results \o <<a>> /\ a.name = h
  BY <1>1, <1>2, <1>4, <1>5, <1>6
<1>8. results' \in Seq(Answers) /\ calls' \in Seq(Names) /\ requested' \in Seq(Names)
  BY <1>3, <1>7
<1>9. NamesOf(results') = NamesOf(results) \o <<h>> /\ NamesOf(results) \in Seq(Names)
  BY <1>3, <1>7, NamesAppend
<1>10. NamesOf(results') \o requested' = NamesOf(results) \o requested
  <2>1. PICK n \in Seq(Names) : n = NamesOf(results)
    BY <1>9
  <2>2. (n \o <<h>>) \o t = n \o (<<h>> \o t)
    OBVIOUS
  <2> QED
    BY <1>7, <1>9, <2>1, <2>2
<1>11. calls' \o requested' = calls \o requested
  <2>1. Append(calls, h) \o t = calls \o (<<h>> \o t)
    BY <1>3
  <2> QED
    BY <1>7, <2>1
<1>12. Conversation'
  BY <1>1, <1>10, <1>11 DEF OInv, Conversation, Paired
<1>13. Turns'
  <2>1. Len(calls') = Len(calls) + 1 /\ Len(requested') = Len(requested) - 1
        /\ Len(calls) \in Nat /\ Len(requested) \in Nat
    BY <1>1, <1>3, <1>4
  <2> QED
    BY <1>1, <2>1 DEF OInv, Turns
<1>14. AskTypeOK'
  BY <1>1, <1>8 DEF OInv, AskTypeOK
<1> QED
  BY <1>12, <1>13, <1>14 DEF OInv

LEMMA ReturnStep ==
  ASSUME OInv, Answer
  PROVE  OInv'
<1> DEFINE m == [role |-> "user", answers |-> results]
<1>1. /\ at = "dispatch" /\ requested = <<>> /\ contents' = Append(contents, m)
      /\ turn' = turn + 1 /\ at' = "generate"
      /\ UNCHANGED <<requested, results, calls, outcome, generations>>
  BY DEF Answer, NextTurn
<1>2. contents \in Seq(Messages) /\ results \in Seq(Answers) /\ calls \in Seq(Names) /\ turn \in Nat
  BY DEF OInv, AskTypeOK, Messages
<1>3. m \in Messages /\ m.role = "user" /\ m.answers = results /\ CallsOf(m) = <<>>
  BY <1>2 DEF Messages, CallsOf
<1> HIDE DEF m
<1>4. NamesOf(results) \in Seq(Names)
  <2>1. \A x \in Answers : x.name \in Names
    BY DEF Answers
  <2> QED
    BY <1>2, <2>1 DEF NamesOf
<1>5. /\ Len(contents) % 2 = 1 /\ Paired(contents)
      /\ contents[Len(contents)].calls = NamesOf(results) /\ AskedIn(contents) = calls
  BY <1>1, <1>2, <1>4 DEF OInv, Conversation
<1>6. contents' \in Seq(Messages) /\ Len(contents') = Len(contents) + 1
  BY <1>1, <1>2, <1>3
<1>7. Paired(contents')
  BY <1>1, <1>2, <1>3, <1>5, PairedAppend
<1>8. AskedIn(contents') = calls
  <2>1. calls \o <<>> = calls
    BY <1>2
  <2> QED
    BY <1>1, <1>2, <1>3, <1>5, <2>1, AskedAppend
<1>9. Len(contents') % 2 = 0
  <2>1. Len(contents) \in Nat
    BY <1>2
  <2> QED
    BY <1>5, <1>6, <2>1
<1>10. Conversation'
  BY <1>1, <1>7, <1>8, <1>9 DEF Conversation
<1>11. Turns'
  <2>1. turn < MaxToolTurns /\ generations = turn + 1
        /\ Len(calls) + 0 <= turn * MaxCalls + MaxCalls
    BY <1>1 DEF OInv, Turns
  <2>2. (turn + 1) * MaxCalls = turn * MaxCalls + MaxCalls
    BY <1>2, TurnsAssumption
  <2>3. Len(calls) <= (turn + 1) * MaxCalls
    BY <1>2, <2>1, <2>2
  <2> QED
    BY <1>1, <2>1, <2>3 DEF Turns
<1>12. turn' \in 0..MaxToolTurns
  BY <1>1, <1>2, TurnsAssumption DEF OInv, Turns
<1>13. AskTypeOK'
  BY <1>1, <1>6, <1>12 DEF OInv, AskTypeOK, Messages
<1> QED
  BY <1>10, <1>11, <1>13 DEF OInv

LEMMA OStep == OInv /\ [AskNext]_askVars => OInv'
<1> SUFFICES ASSUME OInv, [AskNext]_askVars PROVE OInv'
  OBVIOUS
<1>1. CASE UNCHANGED askVars
  BY <1>1 DEF askVars, OInv, AskTypeOK, Conversation, Paired, Turns
<1> QED
  BY <1>1, EndStep, AskStep, CallStep, ReturnStep DEF AskNext, Returned

\* Every call of the model has its answer before the model is asked again, in the order
\* asked; the reader is told of all of them; and no behaviour of the model buys it a turn
\* beyond MAX_TOOL_TURNS (orchestrator.py:205-265).
THEOREM OrchestratorCallsAccounted == AskSpec => []CallsAccounted
<1>1. OInv => CallsAccounted
  <2> SUFFICES ASSUME OInv PROVE CallsAccounted
    OBVIOUS
  <2>1. contents \in Seq(Messages) /\ calls \in Seq(Names) /\ turn \in 0..MaxToolTurns
    BY DEF OInv, AskTypeOK, Messages
  <2>2. CallsAnswered
    <3> SUFFICES ASSUME at = "generate", NEW i \in DOMAIN contents
                 PROVE  IF i % 2 = 1
                        THEN contents[i].role = "model" /\ i < Len(contents)
                        ELSE contents[i].role = "user"
                             /\ NamesOf(contents[i].answers) = contents[i - 1].calls
      BY DEF CallsAnswered
    <3>1. i \in 1..Len(contents) /\ Len(contents) \in Nat
      BY <2>1
    <3>2. Len(contents) % 2 = 0
      BY DEF OInv, Conversation
    <3>3. i % 2 = 1 => i < Len(contents)
      BY <3>1, <3>2
    <3> QED
      BY <3>3 DEF OInv, Conversation, Paired
  <2>3. CallsReported
    <3>1. Asked = AskedIn(contents)
      BY DEF Asked, AskedIn, CallsOf
    <3> QED
      BY <3>1 DEF CallsReported, OInv, Conversation
  <2>4. TurnsBounded
    <3>1. generations <= MaxToolTurns
      BY <2>1, TurnsAssumption DEF OInv, AskTypeOK, Turns
    <3>2. ASSUME NEW n \in Nat, n <= MaxToolTurns, Len(calls) <= n * MaxCalls
          PROVE  Len(calls) <= MaxToolTurns * MaxCalls
      <4>1. n * MaxCalls <= MaxToolTurns * MaxCalls
        BY <3>2, TurnsAssumption, ProductMonotone
      <4>2. n * MaxCalls \in Nat /\ MaxToolTurns * MaxCalls \in Nat /\ Len(calls) \in Nat
        BY <2>1, TurnsAssumption
      <4> QED
        BY <3>2, <4>1, <4>2
    <3>3. CASE at = "dispatch"
      <4>1. turn + 1 \in Nat /\ turn + 1 <= MaxToolTurns
        BY <2>1, <3>3, TurnsAssumption DEF OInv, Turns
      <4>2. (turn + 1) * MaxCalls = turn * MaxCalls + MaxCalls
        BY <2>1, TurnsAssumption
      <4>3. Len(calls) + Len(requested) <= turn * MaxCalls + MaxCalls
            /\ Len(calls) \in Nat /\ Len(requested) \in Nat
        BY <3>3 DEF OInv, AskTypeOK, Turns
      <4>4. Len(calls) <= (turn + 1) * MaxCalls
        <5>1. turn * MaxCalls \in Nat
          BY <2>1, TurnsAssumption
        <5> QED
          BY <4>2, <4>3, <5>1, TurnsAssumption
      <4> QED
        BY <3>1, <3>2, <4>1, <4>4 DEF TurnsBounded
    <3>4. CASE at = "generate"
      BY <2>1, <3>1, <3>2, <3>4, TurnsAssumption DEF OInv, Turns, TurnsBounded
    <3>5. CASE at = "done"
      BY <3>5 DEF OInv, Turns, TurnsBounded
    <3> QED
      BY <3>3, <3>4, <3>5 DEF OInv, AskTypeOK
  <2> QED
    BY <2>2, <2>3, <2>4 DEF OInv, CallsAccounted
<1> QED
  BY <1>1, OInit, OStep, PTL DEF AskSpec

\* A turn less is the steps of a turn less.
LEMMA TurnSplit == ASSUME NEW n \in Nat, NEW d \in Nat
                   PROVE  (n + 1) * d = n * d + d /\ n * d \in Nat
  OBVIOUS

\* However the model and its tools behave, every step brings a run nearer to its return: no
\* run takes more steps than MAX_TOOL_TURNS and the calls of a turn allow
\* (orchestrator.py:223-265).
THEOREM OrchestratorShortens == AskSpec => RunShortens
<1> DEFINE Rest(n) == n * TurnSteps
<1>1. OInv /\ [AskNext]_askVars => [ShortenStep]_askVars
  <2> SUFFICES ASSUME OInv, AskNext, askVars' # askVars PROVE ShortenStep
    OBVIOUS
  <2>1. turn \in 0..MaxToolTurns /\ MaxToolTurns \in Nat /\ MaxCalls \in Nat /\ TurnSteps \in Nat
    BY TurnsAssumption DEF OInv, AskTypeOK, TurnSteps
  <2>2. \A n \in Nat : Rest(n) \in Nat /\ Rest(n + 1) = Rest(n) + TurnSteps
    BY <2>1, TurnSplit
  <2>3. /\ at = "done" => StepsLeft = 0
        /\ at = "generate" => StepsLeft = 1 + Rest(MaxToolTurns - turn)
        /\ at = "dispatch" => StepsLeft = 1 + Rest(MaxToolTurns - turn - 1) + Len(requested) + 1
    BY DEF StepsLeft
  <2>4. /\ at' = "done" => StepsLeft' = 0
        /\ at' = "generate" => StepsLeft' = 1 + Rest(MaxToolTurns - turn')
        /\ at' = "dispatch" => StepsLeft' = 1 + Rest(MaxToolTurns - turn' - 1) + Len(requested') + 1
    BY DEF StepsLeft, TurnSteps
  <2> HIDE DEF Rest
  <2>5. CASE GenerationFails \/ Concludes \/ HitsLimit
    <3>1. at = "generate" /\ at' = "done"
      BY <2>5 DEF GenerationFails, Concludes, HitsLimit, Generate
    <3>2. MaxToolTurns - turn \in Nat
      BY <2>1
    <3> QED
      BY <2>2, <2>3, <2>4, <3>1, <3>2 DEF ShortenStep
  <2>6. CASE AsksForCalls
    <3>1. at = "generate" /\ at' = "dispatch" /\ turn < MaxToolTurns /\ turn' = turn
      BY <2>6 DEF AsksForCalls, Generate, TurnsLeft
    <3>2. requested' \in Seq(Names) /\ Len(requested') <= MaxCalls
      BY <2>6, TurnsAssumption DEF AsksForCalls, BoundedSeq, SeqOf
    <3>3. PICK n \in Nat : n = MaxToolTurns - turn - 1
      BY <2>1, <3>1
    <3>4. MaxToolTurns - turn = n + 1 /\ Rest(n + 1) = Rest(n) + TurnSteps /\ Rest(n) \in Nat
      BY <2>1, <2>2, <3>3
    <3>5. StepsLeft = 1 + Rest(n) + TurnSteps /\ StepsLeft' = 1 + Rest(n) + Len(requested') + 1
      <4>1. MaxToolTurns - turn' - 1 = n
        BY <3>1, <3>3
      <4>2. StepsLeft = 1 + Rest(n + 1) /\ StepsLeft' = 1 + Rest(n) + Len(requested') + 1
        BY <2>3, <2>4, <3>1, <3>4, <4>1
      <4> QED
        BY <2>1, <3>4, <4>2
    <3> QED
      BY <2>1, <3>2, <3>4, <3>5 DEF ShortenStep, TurnSteps
  <2>7. CASE Call
    <3>1. at = "dispatch" /\ at' = "dispatch" /\ turn' = turn /\ turn < MaxToolTurns
      BY <2>7 DEF Call, OInv, Turns
    <3>2. requested \in Seq(Names) /\ Len(requested) = Len(requested') + 1 /\ Len(requested') \in Nat
      BY <2>7 DEF Call, OInv, AskTypeOK
    <3>3. PICK n \in Nat : n = MaxToolTurns - turn - 1
      BY <2>1, <3>1
    <3>4. StepsLeft = 1 + Rest(n) + Len(requested) + 1 /\ StepsLeft' = 1 + Rest(n) + Len(requested') + 1
      BY <2>3, <2>4, <3>1, <3>3
    <3> QED
      <4>1. Rest(n) \in Nat
        BY <2>2
      <4> QED
        BY <3>2, <3>4, <4>1 DEF ShortenStep
  <2>8. CASE Answer
    <3>1. at = "dispatch" /\ at' = "generate" /\ turn' = turn + 1 /\ turn < MaxToolTurns
          /\ Len(requested) = 0
      BY <2>8 DEF Answer, NextTurn, OInv, Turns
    <3>2. PICK n \in Nat : n = MaxToolTurns - turn - 1
      BY <2>1, <3>1
    <3>3. MaxToolTurns - turn' = n
      BY <2>1, <3>1, <3>2
    <3>4. StepsLeft = 1 + Rest(n) + 1 /\ StepsLeft' = 1 + Rest(n)
      BY <2>2, <2>3, <2>4, <3>1, <3>2, <3>3
    <3>5. Rest(n) \in Nat
      BY <2>2
    <3> QED
      BY <3>4, <3>5 DEF ShortenStep
  <2> QED
    BY <2>5, <2>6, <2>7, <2>8 DEF AskNext, Returned
<1> QED
  BY <1>1, OInit, OStep, PTL DEF AskSpec, RunShortens
=============================================================================
