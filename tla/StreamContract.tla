--------------------------- MODULE StreamContract ---------------------------
(***************************************************************************)
(* What POST /api/search/stream promises the page, whatever the search     *)
(* does to keep it: progress, then at most one partial with figures in it, *)
(* prose only after the figures it is about, and exactly one ending - the  *)
(* result, which repeats the partial and the prose, or an error, though no *)
(* error once figures are on the page.                                     *)
(***************************************************************************)
EXTENDS Naturals, Sequences, SequencesExt, Subsequences

CONSTANTS Refs, Chunks, Blank, None

VARIABLES told,    \* the events the client has received
          stream   \* "open", "ended" by the server, "cut" by the client

vars == <<told, stream>>

\* str.strip(): the text without the blank chunks at its ends
Worded(text) == {i \in DOMAIN text : text[i] # Blank}
Strip(text) ==
  IF Worded(text) = {} THEN <<>>
  ELSE LET first == CHOOSE i \in Worded(text) : \A j \in Worded(text) : i <= j
           last == CHOOSE i \in Worded(text) : \A j \in Worded(text) : j <= i
       IN  SubSeq(text, first, last)

Figures == [resolved : Refs \cup {None}, choices : Seq(Refs),
            priced : BOOLEAN, web : BOOLEAN, live : BOOLEAN]

Stage == [type |-> "stage"]
Partial(f) == [type |-> "partial", figures |-> f]
Text(c) == [type |-> "text", chunk |-> c]
Result(f, e) == [type |-> "result", figures |-> f, explanation |-> e]
Error == [type |-> "error"]

\* Where the events of a type are, and the text they have streamed.
At(events, type) == {i \in DOMAIN events : events[i].type = type}
Endings(events) == At(events, "result") \cup At(events, "error")
Texts == {Text(c) : c \in Chunks}
Prose(events) == LET texts == Within(events, Texts)
                 IN  [i \in DOMAIN texts |-> texts[i].chunk]

\* What may come after the events told so far.
Follows(events, e) ==
  /\ Endings(events) = {}
  /\ e.type = "partial" => /\ At(events, "partial") = {}
                           /\ e.figures.priced \/ e.figures.web
  /\ e.type = "text" => At(events, "partial") # {}
  /\ e.type = "error" => At(events, "partial") = {}
  /\ e.type = "result" => /\ e.explanation = Strip(Prose(events))
                          /\ \A i \in At(events, "partial") : events[i].figures = e.figures

Init == told = <<>> /\ stream = "open"

Tell == /\ stream = "open"
        /\ Len(told') = Len(told) + 1 /\ told = Front(told')
        /\ Follows(told, Last(told'))
        /\ UNCHANGED stream

End == /\ stream = "open"
       /\ Endings(told) # {}
       /\ stream' = "ended"
       /\ UNCHANGED told

Cut == stream = "open" /\ stream' = "cut" /\ UNCHANGED told

Next == Tell \/ End \/ Cut

Spec == Init /\ [][Next]_vars
=============================================================================
