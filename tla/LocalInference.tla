--------------------------- MODULE LocalInference ---------------------------
(***************************************************************************)
(* The servers a node agent runs and the /infer jobs it answers:           *)
(* node/infer.py, with the lifespan, the rpc-server and the /infer route   *)
(* of node/dain_node.py.                                                   *)
(*                                                                         *)
(* A node forwards to an endpoint, supervises a llama-server of its own,   *)
(* or has no backend.  Requests interleave on the event loop; servers      *)
(* load, die and come back at any step.  A request is a good or a bad      *)
(* payload; prompts and texts are left out.                                *)
(*                                                                         *)
(* Time is counted per request.  A timeout of httpx bounds each phase of a *)
(* request to a server: connecting, writing, and reading an answer, which  *)
(* is taken to come in one piece.                                          *)
(***************************************************************************)
EXTENDS Naturals

CONSTANTS
    Modes,            \* configurations: "endpoint", "model", "neither"
    Requests,         \* requests a node serves at a time
    ReadyTimeout,     \* READY_TIMEOUT_S
    Pause,            \* READY_POLL_S
    HealthTimeout,    \* HEALTH_TIMEOUT_S
    RequestTimeout,   \* REQUEST_TIMEOUT_S
    Margin,           \* TIMEOUT_MARGIN_S
    Times,            \* what requests to a server take, where a timeout allows it
    MaxFaults,        \* deaths and restarts of servers, at most
    MaxJobs,          \* requests, at most
    MaxStarts         \* starts of the agent, at most

Phases == 3
\* The times of a number of phases.
Within(phases, timeout) == {time \in Times : time <= phases * timeout}
\* How long after its deadline await_ready may still return.
Overshoot == Phases * HealthTimeout

InferenceAssumption ==
    /\ Modes \subseteq {"endpoint", "model", "neither"}
    /\ ReadyTimeout \in Nat \ {0} /\ RequestTimeout \in Nat /\ HealthTimeout \in Nat
    /\ Pause \in Nat \ {0} /\ Margin \in Nat /\ Overshoot + Pause <= Margin
    /\ Times \subseteq Nat
    /\ MaxFaults \in Nat /\ MaxJobs \in Nat /\ MaxStarts \in Nat

VARIABLES
    mode,         \* what the environment names
    installed,    \* whether binary and model file are there
    agent,        \* "down", "up" or "stopping"
    rpc, proc,    \* the children: "none", "up", "dead"; a llama-server also "loading"
    remote,       \* the server behind the endpoint
    ready,        \* _ready
    req,          \* every request: where it is, its payload, its time, whether a server was
                  \* slow to accept the POST, whether it was dead when the request came
    answer,       \* the status of its answer
    faults, jobs, starts

vars == <<mode, installed, agent, rpc, proc, remote, ready, req, answer, faults, jobs, starts>>

Idle == [pc |-> "idle", good |-> TRUE, spent |-> 0, slow |-> FALSE, dead |-> FALSE]

\* mutant: the two timeouts of the node and nothing more.
NoMargin == ReadyTimeout + RequestTimeout
DispatchTimeout == ReadyTimeout + RequestTimeout + Margin

TypeOK ==
    /\ mode \in Modes /\ installed \in [{"rpc", "server"} -> BOOLEAN]
    /\ agent \in {"down", "up", "stopping"}
    /\ rpc \in {"none", "up", "dead"} /\ proc \in {"none", "loading", "up", "dead"}
    /\ remote \in {"down", "loading", "up"} /\ ready \in BOOLEAN
    /\ req \in [Requests -> [pc : {"idle", "wait", "health", "post", "sent"}, good : BOOLEAN,
                             spent : Nat, slow : BOOLEAN, dead : BOOLEAN]]
    /\ answer \in [Requests -> {"none", "200", "422", "500", "503"}]
    /\ (mode # "model" => proc = "none") /\ (mode = "neither" => ~ready)
    /\ faults \in 0..MaxFaults /\ jobs \in 0..MaxJobs /\ starts \in 0..MaxStarts

Init ==
    /\ mode \in Modes /\ installed \in [{"rpc", "server"} -> BOOLEAN]
    /\ agent = "down" /\ rpc = "none" /\ proc = "none"
    /\ remote \in (IF mode = "endpoint" THEN {"down", "loading", "up"} ELSE {"down"})
    /\ ready = FALSE
    /\ req = [r \in Requests |-> Idle] /\ answer = [r \in Requests |-> "none"]
    /\ faults = 0 /\ jobs = 0 /\ starts = 0

Supervises == mode = "model"
Configured == mode # "neither"
Running == IF Supervises THEN proc \in {"loading", "up"} ELSE Configured

\* What answers at base_url.
Server ==
    CASE mode = "endpoint" -> remote
      [] mode = "model" /\ proc # "none" -> proc
      [] OTHER -> "down"

(***************************************************************************)
(* The agent's life                                                        *)
(***************************************************************************)

\* start_rpc_server: without a build the node joins and serves no layers.
StartRpcServer == rpc' = IF installed["rpc"] THEN "up" ELSE "none"
StopRpcServer == rpc' = "none"

\* server_command succeeds: model file and binary are there.
ServerCommand == installed["server"]

\* LocalInference.start: not waited for.
StartServer ==
    IF Supervises /\ ~Running /\ ServerCommand
    THEN proc' = "loading" /\ ready' = FALSE
    ELSE UNCHANGED <<proc, ready>>

\* lifespan up to its yield; the agent is a new process.
Startup ==
    /\ agent = "down" /\ starts < MaxStarts /\ starts' = starts + 1
    /\ agent' = "up" /\ StartRpcServer /\ StartServer
    /\ UNCHANGED <<mode, installed, remote, req, answer, faults, jobs>>

\* uvicorn takes a signal: no new requests, those in progress are finished.
Signal ==
    /\ agent = "up" /\ agent' = "stopping"
    /\ UNCHANGED <<mode, installed, rpc, proc, remote, ready, req, answer, faults, jobs, starts>>

\* mutant: a server that never became ready is not stopped.
StopWhenReady == proc' = (IF ready THEN "none" ELSE proc) /\ ready' = FALSE
\* mutant: a server that exited by itself cannot be terminated.
StopRaises == proc # "dead" /\ proc' = "none" /\ ready' = FALSE
\* LocalInference.stop: terminated, or killed when it does not end.
StopServer == proc' = "none" /\ ready' = FALSE

\* lifespan after its yield.
StopChildren ==
    /\ agent = "stopping" /\ \A r \in Requests : req[r].pc = "idle"
    /\ agent' = "down" /\ StopRpcServer /\ StopServer
    /\ UNCHANGED <<mode, installed, remote, req, answer, faults, jobs, starts>>

\* A server is ready with its model.
Load ==
    /\ \/ proc = "loading" /\ proc' = "up" /\ UNCHANGED remote
       \/ remote = "loading" /\ remote' = "up" /\ UNCHANGED proc
    /\ UNCHANGED <<mode, installed, agent, rpc, ready, req, answer, faults, jobs, starts>>

\* A server dies; the one behind the endpoint may be started again.
Fault ==
    /\ faults < MaxFaults /\ faults' = faults + 1
    /\ \/ proc \in {"loading", "up"} /\ proc' = "dead" /\ UNCHANGED <<rpc, remote>>
       \/ rpc = "up" /\ rpc' = "dead" /\ UNCHANGED <<proc, remote>>
       \/ remote \in {"loading", "up"} /\ remote' = "down" /\ UNCHANGED <<rpc, proc>>
       \/ mode = "endpoint" /\ remote = "down" /\ remote' = "loading" /\ UNCHANGED <<rpc, proc>>
    /\ UNCHANGED <<mode, installed, agent, ready, req, answer, jobs, starts>>

(***************************************************************************)
(* One request                                                             *)
(***************************************************************************)
Reply(r, status) ==
    /\ req' = [req EXCEPT ![r].pc = "idle"] /\ answer' = [answer EXCEPT ![r] = status]

Goto(r, pc) == req' = [req EXCEPT ![r].pc = pc] /\ UNCHANGED answer

\* The checks of complete, before anything is asked of a server.
Infer(r) ==
    /\ agent = "up" /\ req[r].pc = "idle" /\ jobs < MaxJobs /\ jobs' = jobs + 1
    /\ \E good \in BOOLEAN :
        LET begun(pc) ==
            [req EXCEPT ![r] = [pc |-> pc, good |-> good, spent |-> 0, slow |-> FALSE,
                                dead |-> Server = "dead"]] IN
        \/ /\ ~good /\ req' = begun("idle") /\ answer' = [answer EXCEPT ![r] = "422"]
        \/ /\ good /\ ~Configured
           /\ req' = begun("idle") /\ answer' = [answer EXCEPT ![r] = "503"]
        \/ /\ good /\ Configured
           /\ req' = begun(IF ready THEN "post" ELSE "wait")
           /\ answer' = [answer EXCEPT ![r] = "none"]
    /\ UNCHANGED <<mode, installed, agent, rpc, proc, remote, ready, faults, starts>>

\* mutant: every round has the whole time.
DeadlinePerRound(r) == FALSE
OutOfTime(r) == req[r].spent >= ReadyTimeout

\* mutant: the child is not looked at.
NeverExited == FALSE
Exited == Supervises /\ proc = "dead"

\* The head of await_ready's loop.
Poll(r) ==
    /\ req[r].pc = "wait"
    /\ IF OutOfTime(r) \/ Exited THEN Reply(r, "503") ELSE Goto(r, "health")
    /\ UNCHANGED <<mode, installed, agent, rpc, proc, remote, ready, faults, jobs, starts>>

\* GET /health, which may begin just before the deadline: 200, or, also when a
\* server that is up is slow, a pause and another round.
Health(r) ==
    /\ req[r].pc = "health"
    /\ \E time \in Within(Phases, HealthTimeout) :
           \/ /\ Server = "up" /\ ready' = TRUE
              /\ req' = [req EXCEPT ![r].pc = "post", ![r].spent = @ + time]
           \/ /\ req' = [req EXCEPT ![r].pc = "wait", ![r].spent = @ + time + Pause]
              /\ UNCHANGED ready
    /\ UNCHANGED <<mode, installed, agent, rpc, proc, remote, answer, faults, jobs, starts>>

\* mutant: a body that is no JSON is the caller's mistake.
BlameCaller(reply) ==
    CASE reply = "result" -> "200" [] reply = "failure" -> "503"
      [] reply = "no JSON" -> "422" [] reply = "no object" -> "500"
\* What complete and the route make of the server's reply.
StatusOf(reply) ==
    CASE reply = "result" -> "200" [] reply \in {"failure", "no JSON"} -> "503"
      [] reply = "no object" -> "500"

\* Whether something listens there, and what to reach it takes if not: a supervised
\* server is on loopback, where the connection is refused at once.
Listening == Server \in {"loading", "up"}
ConnectTime == IF Supervises /\ ~Listening THEN {0} ELSE Within(2, RequestTimeout)

\* More than the readiness poll leaves of the margin.
Slow(time) == time > Margin - Overshoot

\* POST /v1/chat/completions until its body is written.
Post(r) ==
    /\ req[r].pc = "post"
    /\ \E time \in ConnectTime :
           LET on(pc) == [req EXCEPT ![r].pc = pc, ![r].spent = @ + time, ![r].slow = Slow(time)] IN
           \/ Listening /\ req' = on("sent") /\ UNCHANGED answer
           \/ req' = on("idle") /\ answer' = [answer EXCEPT ![r] = StatusOf("failure")]
    /\ UNCHANGED <<mode, installed, agent, rpc, proc, remote, ready, faults, jobs, starts>>

\* The generation and its end.
Response(r) ==
    /\ req[r].pc = "sent"
    /\ \E reply \in {"failure"} \cup (IF Server = "up" THEN {"result", "no JSON", "no object"} ELSE {}),
          time \in Within(1, RequestTimeout) :
           /\ req' = [req EXCEPT ![r].pc = "idle", ![r].spent = @ + time]
           /\ answer' = [answer EXCEPT ![r] = StatusOf(reply)]
    /\ UNCHANGED <<mode, installed, agent, rpc, proc, remote, ready, faults, jobs, starts>>

----------------------------------------------------------------------------
Step(r) == Poll(r) \/ Health(r) \/ Post(r) \/ Response(r)

Next ==
    \/ Startup \/ Signal \/ StopChildren \/ Load \/ Fault
    \/ \E r \in Requests : Infer(r) \/ Step(r)

Spec == Init /\ [][Next]_vars

\* Every request to a server has a timeout and every sleep ends, so each request
\* goes on; uvicorn shuts down once they are finished.
FairSpec == Spec /\ WF_vars(StopChildren) /\ \A r \in Requests : WF_vars(Step(r))

(***************************************************************************)
(* Properties                                                              *)
(***************************************************************************)

\* No child outlives the agent, whatever the children did and whether or not
\* they were ever ready (lifespan, LocalInference.stop).
ChildrenStopWithAgent ==
    agent = "down" => rpc # "up" /\ proc \notin {"loading", "up"}

\* The node answers before the controller gives up on it: waiting for the model,
\* a last poll that outlasts the deadline, and the generation together stay under
\* the dispatch timeout the queue derives from two of the node's constants.  So it
\* is when the server accepts the POST within what the poll leaves of the margin;
\* connecting and writing alone have a REQUEST_TIMEOUT_S each, which the dispatch
\* timeout leaves no room for.
NodeAnswersFirst ==
    \A r \in Requests : ~req[r].slow => req[r].spent < DispatchTimeout

\* 422, which the queue does not retry, is for bad payloads and for them only,
\* whatever a broken server sends and whenever it dies.
OnlyTheCallerGets422 ==
    \A r \in Requests : answer[r] # "none" => (answer[r] = "422" <=> ~req[r].good)

\* A request that comes after the supervised server has exited is never kept
\* waiting for it, whether the server was seen ready before or not.
DeadIsReportedAtOnce ==
    \A r \in Requests : req[r].dead => req[r].spent = 0

\* What makes it so: how much time a request has used at each point of it, and that
\* a supervised server that was dead when it came stays so until it is answered.
RequestsMatch ==
    \A r \in Requests :
        /\ req[r].pc # "idle" => req[r].good /\ agent # "down"
        /\ req[r].pc = "wait" => req[r].spent < ReadyTimeout + Overshoot + Pause
        /\ req[r].pc = "health" => req[r].spent < ReadyTimeout
        /\ req[r].pc = "post" => req[r].spent < ReadyTimeout + Overshoot
        /\ req[r].pc = "sent" /\ ~req[r].slow => req[r].spent < ReadyTimeout + Margin
        /\ req[r].dead /\ req[r].pc # "idle" =>
               mode = "model" /\ proc = "dead" /\ req[r].pc \notin {"health", "sent"}

\* Whenever servers die, are restarted or stopped: no child is left behind,
\* errors are blamed on the right side, and the dead are not waited for.
InferenceInvariant ==
    TypeOK /\ RequestsMatch /\ ChildrenStopWithAgent /\ OnlyTheCallerGets422 /\ DeadIsReportedAtOnce

\* Every request is answered and every shutdown completes: from wherever it is, each
\* gets back to where nothing is in progress.
EverythingEnds ==
    /\ \A r \in Requests : []<>(req[r].pc = "idle")
    /\ []<>(agent # "stopping")
=============================================================================
