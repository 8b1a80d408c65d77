----------------------------- MODULE AgentLoop -----------------------------
(***************************************************************************)
(* The agent: POST /chat of agent/service.py, the conversation loop of     *)
(* agent/loop.py and the tools of agent/tools.py it calls.                 *)
(*                                                                         *)
(* The model answers or asks for tools; the calls of one turn run          *)
(* concurrently and each waits for ctl once or twice.  The browser keeps   *)
(* the conversation and sends it back with the next prompt.  What the      *)
(* model says is arbitrary.  Texts are left out: a message is its role and *)
(* the ids of the tool calls it makes or answers.                          *)
(***************************************************************************)
EXTENDS Naturals, Sequences, FiniteSets, SequencesExt

CONSTANTS
    Calls,         \* tool calls the model may make: [tool, args]
    MaxCalls,      \* calls in one turn, at most
    MaxTurns,      \* MAX_TURNS
    MaxHistory,    \* MAX_HISTORY_MESSAGES
    MaxPrompts,    \* prompts the user sends, at most
    MaxNodes,      \* nodes that may be available
    MaxFanout      \* MAX_FANOUT

Tools == {"cluster_status", "plan_placement", "search_files", "run_command", "ask_pool"}
Args == {"good", "bad", "notjson", "notobject"}
ValidRoles == {"system", "user", "assistant", "tool"}

AgentAssumption ==
    /\ Calls \subseteq [tool : Tools \cup {"unknown"}, args : Args]
    /\ MaxCalls \in Nat \ {0} /\ MaxTurns \in Nat \ {0} /\ MaxHistory \in Nat \ {0}
    /\ MaxPrompts \in Nat /\ MaxNodes \in Nat /\ MaxFanout \in Nat \ {0}

VARIABLES
    browser,       \* the conversation the page holds
    pc,
    turn,
    conversation,
    start,         \* where the current prompt is in it
    running,       \* the tool calls of this turn
    seen,          \* questions with an answer in this ask()
    outcome,       \* how the latest /chat ended
    avail,         \* nodes ctl would dispatch to
    \* what the properties look back on
    prompts, headFailed,
    trips,         \* how often each question went to the cluster in this ask()
    earlier        \* questions of earlier turns of this ask()

ask == <<turn, conversation, start, running, seen>>
history == <<prompts, headFailed, trips, earlier>>
vars == <<browser, pc, ask, outcome, avail, history>>

Message(role, ids) == [role |-> role, ids |-> ids]
Question(c) == [tool |-> c.tool, args |-> c.args]
Stages == {"new", "nodes", "job", "read", "done"}
Results == {"", "answer", "some failed", "no nodes", "error", "refused", "not an object", "repeated"}

TypeOK ==
    /\ browser \in Seq([role : ValidRoles \cup {"junk"}, ids : Seq(Nat)])
    /\ conversation \in Seq([role : ValidRoles, ids : Seq(Nat)])
    /\ pc \in {"idle", "complete", "tools"}
    /\ turn \in 0..MaxTurns /\ start \in Nat
    /\ running \in Seq([tool : Tools \cup {"unknown"}, args : Args, id : Nat,
                        stage : Stages, fanout : Nat, result : Results])
    /\ seen \subseteq Calls /\ earlier \subseteq Calls
    /\ outcome \in {"none", "reply", "gave up", "503"}
    /\ avail \in 0..MaxNodes /\ prompts \in 0..MaxPrompts
    /\ headFailed \in BOOLEAN /\ trips \in [Calls -> Nat]

Init ==
    /\ browser = <<>> /\ conversation = <<>> /\ start = 0 /\ turn = 0
    /\ pc = "idle" /\ running = <<>> /\ seen = {} /\ outcome = "none"
    /\ avail \in 0..MaxNodes
    /\ prompts = 0 /\ headFailed = FALSE /\ trips = [q \in Calls |-> 0] /\ earlier = {}

\* Nodes come and go.
Churn ==
    /\ \E k \in 0..MaxNodes : k # avail /\ avail' = k
    /\ UNCHANGED <<browser, pc, ask, outcome, history>>

(***************************************************************************)
(* service.py                                                              *)
(***************************************************************************)

KeepTail(h) == SubSeq(h, IF Len(h) > MaxHistory THEN Len(h) - MaxHistory + 1 ELSE 1, Len(h))
\* The entries of a known role, in their order.
Known(h) == {i \in 1..Len(h) : h[i].role \in ValidRoles}
NthKnown(h, n) == CHOOSE i \in Known(h) : Cardinality({j \in Known(h) : j <= i}) = n
KeepKnown(h) == [n \in 1..Cardinality(Known(h)) |-> h[NthKnown(h, n)]]
SanitiseHistory(h) == KeepTail(KeepKnown(h))

\* chat: the page sends its conversation, possibly with an entry no one knows.
Chat ==
    /\ pc = "idle" /\ prompts < MaxPrompts
    /\ \E h \in {browser, Append(browser, Message("junk", <<>>))} :
           /\ conversation' = Append(SanitiseHistory(h), Message("user", <<>>))
           /\ start' = Len(SanitiseHistory(h)) + 1
    /\ pc' = "complete" /\ turn' = 1 /\ running' = <<>> /\ seen' = {}
    /\ prompts' = prompts + 1 /\ headFailed' = FALSE
    /\ trips' = [q \in Calls |-> 0] /\ earlier' = {}
    /\ UNCHANGED <<browser, outcome, avail>>

\* The reply carries the conversation; an error leaves the page's as it was.
Finish(how, messages) ==
    /\ pc' = "idle" /\ outcome' = how
    /\ browser' = IF how = "503" THEN browser ELSE messages
    /\ conversation' = messages

(***************************************************************************)
(* loop.py                                                                 *)
(***************************************************************************)
\* The head gives every call an id of its own.
IdsIn(messages) == UNION {{messages[k].ids[i] : i \in 1..Len(messages[k].ids)} : k \in 1..Len(messages)}
NextId == Max({0} \cup IdsIn(conversation)) + 1

Fresh(call, id) ==
    [tool |-> call.tool, args |-> call.args, id |-> id, stage |-> "new", fanout |-> 0, result |-> ""]

\* _complete: the head fails, answers, or asks for tools.
HeadFails ==
    /\ pc = "complete"
    /\ Finish("503", conversation)
    /\ headFailed' = TRUE
    /\ UNCHANGED <<turn, start, running, seen, avail, prompts, trips, earlier>>

Answer ==
    /\ pc = "complete"
    /\ Finish("reply", Append(conversation, Message("assistant", <<>>)))
    /\ UNCHANGED <<turn, start, running, seen, avail, history>>

AskForTools ==
    /\ pc = "complete"
    /\ \E k \in 1..MaxCalls : \E asked \in [1..k -> Calls] :
           /\ running' = [i \in 1..k |-> Fresh(asked[i], NextId + i - 1)]
           /\ conversation' = Append(conversation, Message("assistant", [i \in 1..k |-> NextId + i - 1]))
    /\ pc' = "tools"
    /\ UNCHANGED <<browser, turn, start, seen, outcome, avail, history>>

\* A tool's text becomes the answer of the call and of its question.
Settle(i, result, asked) ==
    /\ running' = [running EXCEPT ![i].stage = "done", ![i].result = result]
    /\ seen' = IF asked THEN seen \cup {Question(running[i])} ELSE seen
    /\ UNCHANGED <<browser, pc, turn, conversation, start, outcome, avail, prompts, headFailed, trips, earlier>>

\* mutant: an error of ctl ends the conversation.
RaiseError(i) ==
    /\ Finish("503", conversation)
    /\ UNCHANGED <<turn, start, running, seen, avail, history>>
\* call_tool: a DainError is a text like any other.
ToolError(i) == Settle(i, "error", TRUE)

\* The first wait of a tool: for the node list, for one read, or for a job.
FirstStage(tool) ==
    CASE tool \in {"search_files", "ask_pool"} -> "nodes"
      [] tool = "run_command" -> "job"
      [] OTHER -> "read"

Refused(c) == c.tool = "unknown" \/ (c.args = "bad" /\ c.tool # "cluster_status")

\* mutant: ask again.
NotSeen(c) == TRUE
Unseen(c) == Question(c) \notin seen

\* mutant: a repeated call waits for the first one's task.
AwaitFirst(i) == UNCHANGED vars
Repeat(i) == Settle(i, "repeated", FALSE)

\* _dispatch up to its first wait: the tasks of gather start in order, before
\* any answer of ctl is read.
Dispatch(i) ==
    LET c == running[i] IN
    /\ pc = "tools" /\ c.stage = "new"
    /\ \A j \in 1..(i - 1) : running[j].stage # "new"
    /\ \/ c.args \in {"notjson", "notobject"} /\ Settle(i, "not an object", FALSE)
       \/ /\ c.args \notin {"notjson", "notobject"}
          /\ \/ ~Unseen(c) /\ Repeat(i)
             \/ Unseen(c) /\ Refused(c) /\ Settle(i, "refused", TRUE)
             \/ /\ Unseen(c) /\ ~Refused(c)
                /\ running' = [running EXCEPT ![i].stage = FirstStage(c.tool)]
                /\ trips' = [trips EXCEPT ![Question(c)] = @ + 1]
                /\ UNCHANGED <<browser, pc, turn, conversation, start, seen, outcome, avail,
                               prompts, headFailed, earlier>>

Waits(i, stage) ==
    /\ pc = "tools" /\ running[i].stage = stage
    /\ \A j \in 1..Len(running) : running[j].stage # "new"

(***************************************************************************)
(* tools.py                                                                *)
(***************************************************************************)

\* search_files answers that there are none; every prompt of ask_pool does.
NoNodes(i) == Settle(i, "no nodes", TRUE)

\* available_nodes; the fan-out of a search is sized by it.
GetNodes(i) ==
    /\ Waits(i, "nodes")
    /\ \/ ToolError(i)
       \/ avail = 0 /\ NoNodes(i)
       \/ /\ avail > 0
          /\ running' = [running EXCEPT ![i].stage = "job",
                                        ![i].fanout = IF avail < MaxFanout THEN avail ELSE MaxFanout]
          /\ UNCHANGED <<browser, pc, turn, conversation, start, seen, outcome, avail, history>>

\* submit_and_wait: ctl refuses a fan-out that is too wide by now; a job ends, or
\* is still running at the deadline.  ask_pool's prompts fail one by one.
WaitForJob(i) ==
    /\ Waits(i, "job")
    /\ \/ running[i].tool # "ask_pool" /\ ToolError(i)
       \/ running[i].tool = "ask_pool" /\ Settle(i, "some failed", TRUE)
       \/ /\ running[i].tool = "search_files" => running[i].fanout <= avail
          /\ running[i].tool = "run_command" => avail > 0
          /\ \E result \in {"answer", "some failed"} : Settle(i, result, TRUE)

\* cluster_status and plan_placement
Read(i) ==
    /\ Waits(i, "read")
    /\ ToolError(i) \/ Settle(i, "answer", TRUE)

----------------------------------------------------------------------------
\* mutant: results are appended as they come in.
Reversed == Reverse(running)
\* zip(calls, results): gather keeps the order of the calls.
InCallOrder == running

\* mutant: one turn more.
OneTooMany == turn > MaxTurns
LastTurn == turn = MaxTurns

\* The results join the conversation, and the next turn begins or there is none.
Gathered ==
    /\ pc = "tools" /\ \A i \in 1..Len(running) : running[i].stage = "done"
    /\ LET messages == conversation \o [i \in 1..Len(running) |-> Message("tool", <<InCallOrder[i].id>>)]
       IN  IF LastTurn
           THEN Finish("gave up", messages) /\ UNCHANGED turn
           ELSE /\ conversation' = messages /\ turn' = turn + 1 /\ pc' = "complete"
                /\ UNCHANGED <<browser, outcome>>
    /\ earlier' = earlier \cup {Question(c) : c \in {d \in Range(running) : d.args \in {"good", "bad"}}}
    /\ running' = <<>>
    /\ UNCHANGED <<start, seen, avail, prompts, headFailed, trips>>

Step ==
    \/ HeadFails \/ Answer \/ AskForTools \/ Gathered
    \/ \E i \in 1..Len(running) : Dispatch(i) \/ GetNodes(i) \/ WaitForJob(i) \/ Read(i)

Done == pc = "idle" /\ prompts = MaxPrompts /\ UNCHANGED vars
Next == Chat \/ Churn \/ Step \/ Done

Spec == Init /\ [][Next]_vars
\* The head and ctl answer or their clients time out, and the event loop runs.
FairSpec == Spec /\ WF_vars(Step)

(***************************************************************************)
(* Properties                                                              *)
(***************************************************************************)

\* Every call of message k has its result, in the order of the calls.
Answered(k) ==
    LET ids == conversation[k].ids IN
    conversation[k].role = "assistant" =>
        \A i \in 1..Len(ids) :
            /\ k + i <= Len(conversation)
            /\ conversation[k + i] = Message("tool", <<ids[i]>>)

\* What the head is sent of this exchange: every request for tools is followed
\* by its results, one for each call and in the order of the calls, whatever
\* order they came in (ask: gather, zip).
CallsAreAnswered == pc = "complete" => \A k \in start..Len(conversation) : Answered(k)

\* A question of an earlier turn does not go to the cluster again (seen, in ask).
RepeatsStayHome ==
    [][pc # "idle" => \A q \in earlier : trips'[q] = trips[q]]_vars

\* "The one thing that must not happen is the conversation ending because a
\* machine was busy" (call_tool): /chat fails only when the head does.
OnlyTheHeadEndsIt == outcome = "503" /\ pc = "idle" => headFailed

\* While tools run, the calls are those of the last message and everything before
\* it is answered; a call that is done and every question of an earlier turn has
\* its answer.  The others rest on it.
CallsAreOfThisTurn ==
    /\ pc # "idle" => start \in 1..Len(conversation)
    /\ pc # "tools" => running = <<>>
    /\ pc = "tools" =>
           /\ conversation[Len(conversation)] =
                  Message("assistant", [i \in 1..Len(running) |-> running[i].id])
           /\ \A k \in start..(Len(conversation) - 1) : Answered(k)
    /\ earlier \subseteq seen
    /\ \A i \in 1..Len(running) :
           /\ Question(running[i]) \in Calls
           /\ running[i].stage = "done" /\ running[i].args \in {"good", "bad"} => Question(running[i]) \in seen

\* However calls finish, repeat and fail, the head gets a well-formed exchange
\* and only its own failure ends the conversation (ask, call_tool).
LoopInvariant == TypeOK /\ CallsAreAnswered /\ OnlyTheHeadEndsIt /\ CallsAreOfThisTurn

\* Every prompt gets a reply, the admission that there is none, or an error.
EveryPromptEnds == []<>(pc = "idle")
=============================================================================
