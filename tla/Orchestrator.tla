---------------------------- MODULE Orchestrator ----------------------------
(***************************************************************************)
(* One run of the orchestrator (POST /api/ask): the model is generated at  *)
(* most MaxToolTurns times; each turn it either concludes or asks for tool *)
(* calls, which run one after the other and whose answers, errors          *)
(* included, go back to it together.                                       *)
(***************************************************************************)
EXTENDS Integers, Sequences, FiniteSets, SequencesExt

CONSTANTS Tools,         \* the tools _dispatch knows
          Unknown,       \* a name it does not know
          MaxToolTurns,  \* MAX_TOOL_TURNS
          MaxCalls       \* bound: calls the model asks for in one turn

ASSUME TurnsAssumption == MaxToolTurns \in Nat \ {0} /\ MaxCalls \in Nat \ {0}
ASSUME UnknownAssumption == Unknown \notin Tools

VARIABLES at,          \* "generate", "dispatch" or "done"
          turn,        \* _turn
          contents,    \* the conversation after the question
          requested,   \* the calls of the model's turn
          results,     \* the answers to them so far
          calls,       \* the tools called, for the reader
          outcome,     \* the OrchestratorResult
          generations  \* history: requests to the model

askVars == <<at, turn, contents, requested, results, calls, outcome, generations>>

Names == Tools \cup {Unknown}
Answers == [name : Names, value : {"value", "error"}]
Unfinished == [text |-> FALSE, truncated |-> FALSE]

AskTypeOK == /\ at \in {"generate", "dispatch", "done"}
             /\ turn \in 0..MaxToolTurns
             /\ contents \in Seq([role : {"model"}, calls : Seq(Names)]
                                 \cup [role : {"user"}, answers : Seq(Answers)])
             /\ requested \in Seq(Names)
             /\ results \in Seq(Answers)
             /\ calls \in Seq(Names)
             /\ outcome \in [text : BOOLEAN, truncated : BOOLEAN]
             /\ generations \in Nat

AskInit == /\ at = "generate" /\ turn = 0
           /\ contents = <<>> /\ requested = <<>> /\ results = <<>> /\ calls = <<>>
           /\ outcome = Unfinished
           /\ generations = 0

-----------------------------------------------------------------------------
\* Mutant: the model is asked until it concludes.
TurnsForEver == TRUE

TurnsLeft == turn < MaxToolTurns

Generate == at = "generate" /\ TurnsLeft /\ generations' = generations + 1

\* An exception of the model ends the run with what was called.
GenerationFails == /\ Generate
                   /\ at' = "done" /\ outcome' = [text |-> FALSE, truncated |-> TRUE]
                   /\ UNCHANGED <<turn, contents, requested, results, calls>>

\* No call asked for: the prose, possibly none, is the answer.
Concludes == /\ Generate
             /\ \E text \in BOOLEAN : outcome' = [text |-> text, truncated |-> FALSE]
             /\ at' = "done"
             /\ UNCHANGED <<turn, contents, requested, results, calls>>

\* Prose the turn holds beside its calls is dropped.
AsksForCalls ==
  /\ Generate
  /\ \E asked \in BoundedSeq(Names, MaxCalls) \ {<<>>} :
        /\ requested' = asked
        /\ contents' = Append(contents, [role |-> "model", calls |-> asked])
  /\ results' = <<>>
  /\ at' = "dispatch"
  /\ UNCHANGED <<turn, calls, outcome>>

\* Mutant: a call that fails gives the model no answer.
DispatchValues(name) == IF name \in Tools THEN {<<[name |-> name, value |-> "value"]>>, <<>>}
                        ELSE {<<>>}

\* _dispatch: an exception and a name that is not known are answers as well.
Dispatch(name) == {<<[name |-> name, value |-> value]>> :
                     value \in IF name \in Tools THEN {"value", "error"} ELSE {"error"}}

\* A call is listed before it runs, whatever becomes of it.
Called(name) == Append(calls, name)

Call == /\ at = "dispatch" /\ requested # <<>>
        /\ calls' = Called(Head(requested))
        /\ \E answer \in Dispatch(Head(requested)) : results' = results \o answer
        /\ requested' = Tail(requested)
        /\ UNCHANGED <<at, turn, contents, outcome, generations>>

NextTurn == turn + 1

\* All calls of the turn have run: their answers go back in one message.
Answer == /\ at = "dispatch" /\ requested = <<>>
          /\ contents' = Append(contents, [role |-> "user", answers |-> results])
          /\ turn' = NextTurn
          /\ at' = "generate"
          /\ UNCHANGED <<requested, results, calls, outcome, generations>>

\* The loop is over without a conclusion.
HitsLimit == /\ at = "generate" /\ ~TurnsLeft
             /\ at' = "done" /\ outcome' = [text |-> FALSE, truncated |-> TRUE]
             /\ UNCHANGED <<turn, contents, requested, results, calls, generations>>

\* The run has returned: the only state without another step.
Returned == at = "done" /\ UNCHANGED askVars

AskNext == \/ GenerationFails \/ Concludes \/ AsksForCalls \/ Call \/ Answer \/ HitsLimit
           \/ Returned

AskSpec == AskInit /\ [][AskNext]_askVars

-----------------------------------------------------------------------------
NamesOf(answers) == [i \in DOMAIN answers |-> answers[i].name]

\* Whenever the model is asked again the conversation alternates and each of its
\* calls, failed and unknown ones too, has its answer, in the order asked: the
\* API refuses a turn whose calls and answers do not pair up.
CallsAnswered ==
  at = "generate" =>
    \A i \in DOMAIN contents :
       IF i % 2 = 1
       THEN contents[i].role = "model" /\ i < Len(contents)
       ELSE contents[i].role = "user"
            /\ NamesOf(contents[i].answers) = contents[i - 1].calls

\* The reader is told of every call that was made, in order, however the run ends.
Asked == FlattenSeq([i \in 1..Len(contents) |->
            IF contents[i].role = "model" THEN contents[i].calls ELSE <<>>])
CallsReported == at = "done" => calls = Asked

\* However the model behaves it is asked at most MaxToolTurns times, and failing
\* calls buy it no further turn.
TurnsBounded == generations <= MaxToolTurns /\ Len(calls) <= MaxToolTurns * MaxCalls

\* No call is lost, neither to the model nor to the reader, and none is made for ever.
CallsAccounted == AskTypeOK /\ CallsAnswered /\ CallsReported /\ TurnsBounded

\* The steps a run has before it at most: to return, and for each turn left a generation,
\* the calls and the message with their answers.
TurnSteps == MaxCalls + 2
StepsLeft == CASE at = "done"     -> 0
               [] at = "generate" -> 1 + (MaxToolTurns - turn) * TurnSteps
               [] at = "dispatch" -> 1 + (MaxToolTurns - turn - 1) * TurnSteps + Len(requested) + 1

\* A model that never concludes and calls that always fail do not keep the run going: every
\* step, whichever, brings its return nearer, from a number fixed when the run begins. (No
\* run stops before: only one that returned is without a step, as the run shows too.)
ShortenStep == 0 <= StepsLeft' /\ StepsLeft' < StepsLeft
RunShortens == [][ShortenStep]_askVars
=============================================================================
