------------------------------ MODULE AgentRun ------------------------------
(***************************************************************************)
(* One run of an agent (internal/runner/runner.go, Run): its prompts are   *)
(* turns, a turn is a loop of rounds, a round one completion of the model  *)
(* and the tool calls it asks for.  The model may answer anything, a tool  *)
(* may fail.  Calls are tool names; what their arguments decide (the key   *)
(* of a repeated call, the hide and the page) is chosen when they run.     *)
(***************************************************************************)
EXTENDS Session

CONSTANTS
  Setups,     \* the agents and the runners they are given, see SetupOK
  Plain,      \* tools whose result goes to the model as it is
  Buffered,   \* tools whose result is stored as a hide (buffer: true)
  MaxRepeats, \* max_repeats of each tool: 0 when unset, -1 for no limit
  Args,       \* arguments a plain or buffered tool is called with
  MaxPages,   \* pages of the largest hide
  MaxBatch    \* calls in one completion

VARIABLES
  setup,      \* the element of Setups this run has
  pc, turn, round, retried,
  sess,       \* the session's messages
  scope,      \* toolByName of the turn
  met,        \* requiredMet
  banked,     \* answerParts is not empty
  todo,       \* calls of the round that are still to be handled
  paged,      \* hideToolSucceeded
  hides,      \* pages of each hide in the HideBuffer
  buffer,     \* the HideBuffer exists
  shown,      \* hidePages: the furthest page the model has of each hide
  completed,  \* completedToolCalls: successful executions of each call
  acted,      \* turns in which a required tool was dispatched
  answered,   \* calls whose cached result was replayed
  routed,     \* output routes that were attempted
  outcome     \* "none", "success", "cached" or "error"

loop == <<pc, turn, round, retried>>
turnState == <<scope, met, banked>>
hideState == <<hides, buffer, shown>>
history == <<acted, answered>>
vars == <<setup, loop, sess, turnState, todo, paged, hideState, completed, history,
          routed, outcome>>

HideTools == {"hide_next", "hide_jump", "hide_search"}
Tools == Plain \cup Buffered \cup HideTools
Names == Tools \cup {"unknown"}
Batches == UNION {[1..n -> Names] : n \in 1..MaxBatch}
Keys == (Plain \cup Buffered) \X Args

\* A turn: its prompt, clear: true, whether its skills append a system
\* message, its own scope if it declares one, and require_tool.
Turns ==
  {t \in [prompt : {"prompt", "page", "advance"}, clear : BOOLEAN, skill : BOOLEAN,
          declared : BOOLEAN, tools : SUBSET (Plain \cup Buffered),
          require : SUBSET (Plain \cup Buffered)] :
     ~t.declared => t.tools = {}}

SetupOK(c) ==
  /\ c.identity \in BOOLEAN /\ c.reflect \in BOOLEAN /\ c.cached \in BOOLEAN
  /\ c.base \subseteq Plain \cup Buffered
  /\ c.preload \in 0..MaxPages           \* pages of the curing's hide, 0: none
  /\ IsFiniteSet(c.routes)
  /\ c.rounds \in Nat \ {0} /\ c.threshold \in Nat \ {0}
  /\ c.turns \in Seq(Turns) \ {<<>>}

ASSUME SetupsOK == \A c \in Setups : SetupOK(c)

\* A name stands for one tool.  (The runner takes the names of the hide tools
\* for its own; an agent's tool of such a name would never be executed.)
ASSUME ToolsOK ==
  /\ Plain \cap Buffered = {}
  /\ (Plain \cup Buffered) \cap (HideTools \cup {"unknown"}) = {}

ASSUME BoundsOK == MaxPages \in Nat /\ MaxBatch \in Nat

ASSUME RepeatsOK == MaxRepeats \in [Plain \cup Buffered -> Int]

-----------------------------------------------------------------------------
Turn == setup.turns[turn]
LastTurn == turn = Len(setup.turns)

\* Of the hides the runner is given; later ones do not change the base scope.
NeedsPaging == setup.preload > 1

\* A turn that declares a scope has no other tools than those.
TurnScope(n) ==
  IF setup.turns[n].declared THEN setup.turns[n].tools ELSE setup.base

\* Mutant: what an earlier turn has called counts for this one.
RequirementKept(n) == met \/ setup.turns[n].require = {}

\* The turn starts with its requirement met when it requires nothing.
RequirementMet(n) == setup.turns[n].require = {}

\* The round limit is 1 when the agent has no tool at all.
Rounds ==
  IF setup.base = {} /\ ~NeedsPaging
       /\ \A i \in DOMAIN setup.turns : setup.turns[i].tools = {}
  THEN 1 ELSE setup.rounds

\* A declared scope has the hide tools whenever there is a buffer, the base
\* when the run starts with a hide of several pages.  In reflection mode the
\* first and the last turn have no tools.
ScopeOf(n) ==
  LET tools == TurnScope(n)
      paging == IF setup.turns[n].declared THEN buffer \/ tools \cap Buffered # {}
                ELSE NeedsPaging
  IN  IF setup.reflect /\ n \in {1, Len(setup.turns)} THEN {}
      ELSE tools \cup (IF paging THEN HideTools ELSE {})

\* The session as the turn finds it, and what it adds to it.
Kept(n, s) == IF setup.turns[n].clear THEN Reset(s) ELSE s

Opening(n, s) ==
  LET t == setup.turns[n]
      told == IF t.skill THEN Add(s, Message("system", n, "skill"), setup.threshold)
              ELSE s
  IN  Add(told, Message("user", n, t.prompt), setup.threshold)

Say(s, role, content) == Add(s, Message(role, turn, content), setup.threshold)

\* One of n messages is not in before the session is summarized, and the model
\* may fail to.
MayBreak(s, n) == Len(s) + n >= setup.threshold

Init ==
  /\ setup \in Setups
  /\ pc = "start" /\ turn = 1 /\ round = 1 /\ retried = FALSE
  /\ sess = <<>>
  /\ scope = {} /\ met = FALSE /\ banked = FALSE
  /\ todo = <<>> /\ paged = FALSE
  /\ hides = (IF setup.preload = 0 THEN <<>> ELSE <<setup.preload>>)
  /\ buffer = (setup.preload > 0 \/ setup.base \cap Buffered # {})
  /\ shown = [h \in DOMAIN hides |-> 0]
  /\ completed = [k \in Keys |-> 0]
  /\ acted = {} /\ answered = {}
  /\ routed = {}
  /\ outcome = "none"

Fail ==
  /\ pc' = "done" /\ outcome' = "error"
  /\ todo' = <<>>
  /\ UNCHANGED <<setup, turn, round, retried, sess, turnState, paged, hideState,
                 completed, history, routed>>

\* An unknown skill or toolset, a hit in the cache, or the first turn.
Start ==
  /\ pc = "start"
  /\ \/ Fail
     \/ /\ setup.cached
        /\ pc' = "done" /\ outcome' = "cached"
        /\ UNCHANGED <<setup, turn, round, retried, sess, turnState, todo, paged,
                       hideState, completed, history, routed>>
     \/ /\ ~setup.cached
        /\ sess' = (IF setup.identity
                    THEN Add(<<>>, Message("system", 0, "identity"), setup.threshold)
                    ELSE <<>>)
        /\ pc' = "turn"
        /\ UNCHANGED <<setup, turn, round, retried, turnState, todo, paged, hideState,
                       completed, history, routed, outcome>>

\* A requirement that no tool of the scope can satisfy fails the run at once.
BeginTurn ==
  /\ pc = "turn"
  /\ \/ Turn.require # {} /\ Turn.require \cap ScopeOf(turn) = {} /\ Fail
     \/ MayBreak(Kept(turn, sess), IF Turn.skill THEN 2 ELSE 1) /\ Fail
     \/ /\ RequirementMet(turn) \/ Turn.require \cap ScopeOf(turn) # {}
        /\ sess' = Opening(turn, Kept(turn, sess))
        /\ scope' = ScopeOf(turn)
        /\ buffer' = (buffer \/ Turn.tools \cap Buffered # {})
        /\ met' = RequirementMet(turn)
        /\ banked' = FALSE
        /\ shown' = (IF Turn.prompt = "page" /\ hides # <<>>
                     THEN [shown EXCEPT ![1] = Max({@, 1})] ELSE shown)
        /\ pc' = "call" /\ round' = 1 /\ retried' = FALSE
        /\ UNCHANGED <<setup, turn, todo, paged, hides, completed, history, routed, outcome>>

LastRound == round = Rounds

\* Mutant: `continue` in a loop that has not counted the round.
SameRound == round' = round /\ retried' = FALSE

NextRound == round' = round + 1 /\ retried' = FALSE

\* The completion fails, by its own error or by the deadline of the run.
CompletionFails == pc = "call" /\ Fail

\* An empty completion is asked for once more: a truncated one when there is
\* room for a larger reserve, a stopped one unless part of an answer is banked.
RetryEmpty ==
  /\ pc = "call" /\ ~retried
  /\ \E finish \in {"length", "stop"} : finish = "stop" => ~banked
  /\ retried' = TRUE
  /\ UNCHANGED <<setup, pc, turn, round, sess, turnState, todo, paged, hideState,
                 completed, history, routed, outcome>>

\* A text is refused while the turn's required tool has not been called: the
\* model is told so and has another round.
RefuseText ==
  /\ pc = "call" /\ ~met
  /\ \/ (LastRound \/ MayBreak(sess, 2)) /\ Fail
     \/ /\ ~LastRound
        /\ sess' = Add(Say(sess, "assistant", "text"),
                       Message("user", turn, "nudge"), setup.threshold)
        /\ NextRound
        /\ UNCHANGED <<setup, pc, turn, turnState, todo, paged, hideState, completed,
                       history, routed, outcome>>

\* A reflection on a page: the session keeps the text and drops the page.
Reflects == setup.reflect /\ scope = {}

\* Output routing: each destination may fail, and the run does not.
RouteOutput == routed' \in SUBSET setup.routes

\* A text ends the turn; the text of the last turn ends the run.
AcceptText ==
  /\ pc = "call" /\ met
  /\ \/ MayBreak(sess, 1) /\ Fail
     \/ /\ \E empty \in BOOLEAN :
             LET said == Say(sess, "assistant", "text")
             IN  sess' = IF Reflects /\ ~(empty /\ ~banked)
                         THEN CompactLatestHidePage(said, setup.threshold) ELSE said
        /\ IF LastTurn
           THEN pc' = "done" /\ outcome' = "success" /\ RouteOutput /\ UNCHANGED turn
           ELSE pc' = "turn" /\ turn' = turn + 1 /\ UNCHANGED <<outcome, routed>>
        /\ UNCHANGED <<setup, round, retried, turnState, todo, paged, hideState,
                       completed, history>>

\* The model asks for tools; text beside them is banked unless it comes with
\* the navigation of a hide.
RequestTools ==
  /\ pc = "call"
  /\ \/ MayBreak(sess, 1) /\ Fail
     \/ \E batch \in Batches, text \in BOOLEAN :
          LET asked == {batch[i] : i \in DOMAIN batch}
          IN  /\ todo' = batch
              /\ banked' = (banked \/ (text /\ asked \cap scope \cap HideTools = {}))
              /\ sess' = Say(sess, "assistant", IF asked \cap HideTools # {}
                                                THEN "navigate" ELSE "calls")
              /\ pc' = "exec" /\ paged' = FALSE
              /\ UNCHANGED <<setup, turn, round, retried, scope, met, hideState,
                             completed, history, routed, outcome>>

-----------------------------------------------------------------------------
(* One call of the round.  Each way to handle it says what it changes and    *)
(* adds one message of a tool to the session.                                *)

Call == Head(todo)

\* After the last call of a round: reflection mode takes the tools away when a
\* hide was paged, and a run out of rounds fails.
EndCall(content, hidePaged, tools) ==
  LET over == Len(todo) = 1
      page == setup.reflect /\ hidePaged
  IN  /\ ~(over /\ LastRound)
      /\ sess' = Say(sess, "tool", content)
      /\ todo' = Tail(todo)
      /\ paged' = hidePaged
      /\ IF over
         THEN pc' = "call" /\ NextRound
              /\ scope' = (IF page THEN {} ELSE tools)
         ELSE scope' = tools /\ UNCHANGED <<pc, round, retried>>

\* Out of rounds, or the summary that the result makes necessary fails.
CallEndsRun ==
  /\ pc = "exec"
  /\ (Len(todo) = 1 /\ LastRound) \/ MayBreak(sess, 1)
  /\ Fail

Dispatched ==
  /\ met' = (met \/ Call \in Turn.require)
  /\ acted' = (IF Call \in Turn.require THEN acted \cup {turn} ELSE acted)

\* A tool out of scope is never run; the model is told and may go on.
RefuseCall ==
  /\ pc = "exec" /\ Call \notin scope
  /\ EndCall("result", paged, scope)
  /\ UNCHANGED <<setup, turn, met, banked, hideState, completed, history, routed, outcome>>

EffectiveMax(tool) == IF MaxRepeats[tool] = 0 THEN 1 ELSE MaxRepeats[tool]

\* Mutant of Permitted: one execution more than the limit.
PermittedOver(k) == EffectiveMax(k[1]) < 0 \/ completed[k] <= EffectiveMax(k[1])

Permitted(k) == EffectiveMax(k[1]) < 0 \/ completed[k] < EffectiveMax(k[1])

\* The identical call has succeeded before: its result is repeated, after a
\* line that makes it a plain result even where it was a page.
ReplayCall(arg) ==
  LET k == <<Call, arg>> IN
  /\ pc = "exec" /\ Call \in scope \ HideTools /\ ~Permitted(k)
  /\ Dispatched
  /\ answered' = answered \cup {k}
  /\ EndCall("result", paged, scope)
  /\ UNCHANGED <<setup, turn, banked, hideState, completed, routed, outcome>>

\* The tool runs.  A failure, or its own timeout, is a result the model sees.
ExecuteCall(arg) ==
  LET k == <<Call, arg>> IN
  /\ pc = "exec" /\ Call \in scope \cap Plain /\ Permitted(k)
  /\ Dispatched
  /\ \/ completed' = [completed EXCEPT ![k] = @ + 1]
     \/ UNCHANGED completed
  /\ EndCall("result", paged, scope)
  /\ UNCHANGED <<setup, turn, banked, hideState, answered, routed, outcome>>

\* A buffered result is stored and its first page delivered; a failure of a
\* buffered tool ends the run.
BufferCall(arg) ==
  LET k == <<Call, arg>> IN
  /\ pc = "exec" /\ Call \in scope \cap Buffered /\ Permitted(k)
  /\ \/ Fail
     \/ \E n \in 1..MaxPages :
          /\ Dispatched
          /\ completed' = [completed EXCEPT ![k] = @ + 1]
          /\ hides' = Append(hides, n)
          /\ shown' = Append(shown, 1)
          /\ EndCall("page", paged, scope \cup (IF n > 1 THEN HideTools ELSE {}))
          /\ UNCHANGED <<setup, turn, banked, buffer, answered, routed, outcome>>

\* ResolveID: an unknown ID stands for the only hide there is.
Resolved(h) == IF h \in DOMAIN hides THEN h ELSE IF Len(hides) = 1 THEN 1 ELSE 0

\* Mutant: the page the model names is taken as it is.
PageNamed(h, page) == IF Call = "hide_next" THEN page + 1 ELSE page

\* hide_next goes on from the furthest page shown, whatever page the model
\* names; hide_jump and hide_search go where they are told.
PageWanted(h, page) ==
  IF Call = "hide_next" /\ shown[h] > 0 THEN shown[h] + 1
  ELSE IF Call = "hide_next" THEN page + 1 ELSE page

\* A hide tool that fails ends the run.
NavigateCall(id, page) ==
  LET h == Resolved(id)
      p == PageWanted(h, page)
      ok == h # 0 /\ page >= 1 /\ p <= hides[h]
  IN
  /\ pc = "exec" /\ Call \in scope \cap HideTools
  /\ \/ ~ok /\ Fail
     \/ /\ ok
        /\ shown' = [shown EXCEPT ![h] = Max({@, p})]
        /\ EndCall("page", TRUE, scope)
        /\ UNCHANGED <<setup, turn, met, banked, hides, buffer, completed, history,
                       routed, outcome>>

HandleCall ==
  \/ RefuseCall
  \/ CallEndsRun
  \/ \E arg \in Args : ReplayCall(arg) \/ ExecuteCall(arg) \/ BufferCall(arg)
  \/ \E id \in 0..Len(hides), page \in 0..MaxPages : NavigateCall(id, page)

Step ==
  \/ Start
  \/ BeginTurn
  \/ CompletionFails
  \/ RetryEmpty
  \/ RefuseText
  \/ AcceptText
  \/ RequestTools
  \/ HandleCall

Ended == pc = "done" /\ UNCHANGED vars

Next == Step \/ Ended

\* The run has one goroutine; completions and tools have deadlines.
Spec == Init /\ [][Next]_vars /\ WF_vars(Step)

-----------------------------------------------------------------------------
TypeOK ==
  /\ setup \in Setups
  /\ pc \in {"start", "turn", "call", "exec", "done"}
  /\ turn \in DOMAIN setup.turns /\ round \in 1..Rounds /\ retried \in BOOLEAN
  /\ sess \in Seq(Messages(0..turn))
  /\ scope \subseteq Tools /\ met \in BOOLEAN /\ banked \in BOOLEAN
  /\ todo \in Seq(Names) /\ paged \in BOOLEAN
  /\ hides \in Seq(1..MaxPages) /\ buffer \in BOOLEAN
  /\ shown \in Seq(0..MaxPages) /\ Len(shown) = Len(hides)
  /\ \A h \in DOMAIN hides : shown[h] <= hides[h]
  /\ completed \in [Keys -> Nat]
  /\ acted \subseteq DOMAIN setup.turns /\ answered \subseteq Keys
  /\ routed \subseteq setup.routes
  /\ outcome \in {"none", "success", "cached", "error"}

\* runner.go:574-580: a run that reports success has dispatched a required
\* tool in every turn that requires one, whatever the model said, in which
\* order and with how many empty or refused texts in between.  (A run answered
\* from the cache has dispatched nothing.)
RequiredActs ==
  outcome = "success" =>
    \A i \in DOMAIN setup.turns : setup.turns[i].require # {} => i \in acted

\* runner.go:372-384: over all turns and rounds no call succeeds more often than
\* its max_repeats, and only one that has succeeded so often is answered
\* without being executed: a failed call always runs again.
WithinRepeats ==
  \A k \in Keys :
    LET max == EffectiveMax(k[1]) IN
    /\ max >= 0 => completed[k] <= max
    /\ k \in answered => max >= 0 /\ completed[k] = max

\* hide_next delivers a page the model has not had, even when it names a page
\* it left behind (runner.go:1058-1062), or the run fails.
NextPageIsNew ==
  [][pc = "exec" /\ Call = "hide_next" /\ Call \in scope /\ outcome' = "none"
       => \E h \in DOMAIN hides : shown'[h] > shown[h]]_vars

LastClear(n) == Max({i \in 1..n : setup.turns[i].clear \/ i = 1})

\* runner.go:389-394: from a turn with clear: true on, a request has nothing of
\* an earlier turn, not even in a summary, a compacted page or a late tool
\* result; and while no skill appends a system message of its own, the agent's
\* prompt comes first in every request.
ClearIsolates ==
  pc = "call" =>
    /\ \A i \in DOMAIN sess : IsSystem(sess[i]) \/ sess[i].turn >= LastClear(turn)
    /\ setup.identity /\ (\A i \in DOMAIN setup.turns : ~setup.turns[i].skill)
         => Head(sess).content = "identity"

\* While nothing has been summarized, every result of a tool in a request
\* follows the calls it answers.
ResultsFollowCalls ==
  pc = "call" /\ (\A i \in DOMAIN sess : sess[i].content # "summary") =>
    \A i \in DOMAIN sess : sess[i].role = "tool" =>
      \E j \in 1..i - 1 :
        /\ sess[j].content \in {"calls", "navigate"}
        /\ \A k \in j + 1..i : sess[k].role = "tool"

\* runner.go:358-362: a request has a message of the user, or a strict backend
\* rejects it.
UserInRequest == pc = "call" => \E i \in DOMAIN sess : sess[i].role = "user"

\* Refused texts, empty completions and failing tools use up the rounds: the
\* run ends.
RunEnds == <>(pc = "done")
=============================================================================
