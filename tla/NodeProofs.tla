----------------------------- MODULE NodeProofs -----------------------------
(***************************************************************************)
(* Proofs about a node, for every value of its constants: what inference,  *)
(* the document index and the sandbox promise, how the node comes into the *)
(* pool (NodeStart), and what the launcher of the head promises on the     *)
(* node that serves the model (HeadWatch).                                 *)
(***************************************************************************)
EXTENDS MCNode, MCNodeStart, MCHeadWatch, InductionFacts, SequenceTheorems

-----------------------------------------------------------------------------
(* LocalInference *)

LEMMA InferenceConstants ==
    /\ ReadyTimeout \in Nat /\ ReadyTimeout > 0 /\ RequestTimeout \in Nat /\ Inference!Overshoot \in Nat
    /\ Pause \in Nat /\ Pause > 0 /\ Margin \in Nat /\ Inference!Overshoot + Pause <= Margin
    /\ MaxFaults \in Nat /\ MaxJobs \in Nat /\ MaxStarts \in Nat
  BY NodeConstants DEF Inference!InferenceAssumption, Inference!Overshoot, Inference!Phases

\* What a request to a server takes is bounded by the timeouts of its phases.
LEMMA TimesAreBounded ==
    /\ \A time \in Inference!Within(Inference!Phases, HealthTimeout) :
           time \in Nat /\ time <= Inference!Overshoot
    /\ \A time \in Inference!Within(1, RequestTimeout) : time \in Nat /\ time <= RequestTimeout
    /\ \A time \in Inference!ConnectTime : time \in Nat
  BY NodeConstants
     DEF Inference!InferenceAssumption, Inference!Overshoot, Inference!Within, Inference!ConnectTime

InferenceSafe == Inference!InferenceInvariant /\ Inference!NodeAnswersFirst
RequestState ==
    [pc : {"idle", "wait", "health", "post", "sent"}, good : BOOLEAN, spent : Nat,
     slow : BOOLEAN, dead : BOOLEAN]

\* What the invariant says of one request, x its record and a its answer.
RequestIsFine(x, a) ==
    /\ x \in RequestState /\ a \in {"none", "200", "422", "500", "503"}
    /\ x.pc # "idle" => x.good
    /\ x.pc = "wait" => x.spent < ReadyTimeout + Inference!Overshoot + Pause
    /\ x.pc = "health" => x.spent < ReadyTimeout
    /\ x.pc = "post" => x.spent < ReadyTimeout + Inference!Overshoot
    /\ x.pc = "sent" /\ ~x.slow => x.spent < ReadyTimeout + Margin
    /\ a # "none" => (a = "422" <=> ~x.good)
    /\ x.dead => x.spent = 0
    /\ ~x.slow => x.spent < ReadyTimeout + RequestTimeout + Margin
\* And of it together with the agent and the server.
RequestIsServed(x, up, owned, server) ==
    /\ x.pc # "idle" => up # "down"
    /\ x.dead /\ x.pc # "idle" =>
           owned = "model" /\ server = "dead" /\ x.pc \notin {"health", "sent"}
ServersAreFine ==
    /\ mode \in Modes /\ installed \in [{"rpc", "server"} -> BOOLEAN]
    /\ agent \in {"down", "up", "stopping"}
    /\ rpc \in {"none", "up", "dead"} /\ proc \in {"none", "loading", "up", "dead"}
    /\ remote \in {"down", "loading", "up"} /\ ready \in BOOLEAN
    /\ (mode # "model" => proc = "none") /\ (mode = "neither" => ~ready)
    /\ faults \in 0..MaxFaults /\ jobs \in 0..MaxJobs /\ starts \in 0..MaxStarts
    /\ Inference!ChildrenStopWithAgent

LEMMA InferenceByRequest ==
    InferenceSafe <=>
        /\ ServersAreFine
        /\ req \in [Requests -> RequestState]
        /\ answer \in [Requests -> {"none", "200", "422", "500", "503"}]
        /\ \A q \in Requests : RequestIsFine(req[q], answer[q]) /\ RequestIsServed(req[q], agent, mode, proc)
  BY DEF InferenceSafe, Inference!InferenceInvariant, Inference!TypeOK,
     Inference!RequestsMatch, Inference!OnlyTheCallerGets422, Inference!DeadIsReportedAtOnce,
     Inference!NodeAnswersFirst, Inference!DispatchTimeout, RequestState, RequestIsFine, RequestIsServed, ServersAreFine

LEMMA InferenceByRequestNext ==
    (InferenceSafe <=>
        /\ ServersAreFine
        /\ req \in [Requests -> RequestState]
        /\ answer \in [Requests -> {"none", "200", "422", "500", "503"}]
        /\ \A q \in Requests : RequestIsFine(req[q], answer[q]) /\ RequestIsServed(req[q], agent, mode, proc))'
  BY InferenceByRequest, PTL

LEMMA InferenceInit == Inference!Init => InferenceSafe
<1> SUFFICES ASSUME Inference!Init PROVE InferenceSafe
  OBVIOUS
<1>1. ServersAreFine
  <2>1. remote \in {"down", "loading", "up"}
    BY DEF Inference!Init
  <2>2. faults \in 0..MaxFaults /\ jobs \in 0..MaxJobs /\ starts \in 0..MaxStarts
    BY InferenceConstants DEF Inference!Init
  <2> QED BY <2>1, <2>2 DEF Inference!Init, ServersAreFine, Inference!ChildrenStopWithAgent
<1>2. Inference!Idle \in RequestState /\ RequestIsFine(Inference!Idle, "none")
  BY InferenceConstants DEF Inference!Idle, RequestState, RequestIsFine
<1>3. \A r \in Requests : req[r] = Inference!Idle /\ answer[r] = "none"
  BY DEF Inference!Init
<1>4. req \in [Requests -> RequestState] /\ answer \in [Requests -> {"none", "200", "422", "500", "503"}]
  BY <1>2 DEF Inference!Init
<1>5. RequestIsServed(Inference!Idle, agent, mode, proc)
  BY DEF Inference!Idle, RequestIsServed
<1> QED BY <1>1, <1>2, <1>3, <1>4, <1>5, InferenceByRequest

\* A step of the agent or its servers that no request takes part in.
LEMMA ServersStep ==
    ASSUME InferenceSafe, ServersAreFine', UNCHANGED <<req, answer>>,
           \A r \in Requests : RequestIsServed(req[r], agent', mode', proc')
    PROVE  InferenceSafe'
<1>1. /\ req' \in [Requests -> RequestState]
      /\ answer' \in [Requests -> {"none", "200", "422", "500", "503"}]
      /\ \A q \in Requests : RequestIsFine(req'[q], answer'[q]) /\ RequestIsServed(req'[q], agent', mode', proc')
  BY InferenceByRequest
<1> QED BY <1>1, InferenceByRequestNext

\* A step of request r, which becomes x with answer a.
LEMMA RequestStep ==
    ASSUME InferenceSafe, NEW r \in Requests, NEW x, NEW a,
           req' = [req EXCEPT ![r] = x], answer' = [answer EXCEPT ![r] = a],
           RequestIsFine(x, a), RequestIsServed(x, agent, mode, proc),
           UNCHANGED <<mode, installed, agent, rpc, proc, remote, faults, starts>>,
           ready' \in BOOLEAN, mode = "neither" => ~ready', jobs' \in 0..MaxJobs
    PROVE  InferenceSafe'
<1>1. ServersAreFine'
  BY InferenceByRequest DEF ServersAreFine, Inference!ChildrenStopWithAgent
<1>2. x \in RequestState /\ a \in {"none", "200", "422", "500", "503"}
  BY DEF RequestIsFine
<1>3. /\ req' \in [Requests -> RequestState]
      /\ answer' \in [Requests -> {"none", "200", "422", "500", "503"}]
  BY <1>2, InferenceByRequest
<1>4. ASSUME NEW q \in Requests
      PROVE  RequestIsFine(req'[q], answer'[q]) /\ RequestIsServed(req'[q], agent', mode', proc')
  <2>1. CASE q = r
    <3>1. req'[q] = x /\ answer'[q] = a
      BY <2>1, InferenceByRequest
    <3> QED BY <3>1
  <2>2. CASE q # r
    <3>1. req'[q] = req[q] /\ answer'[q] = answer[q]
      BY <2>2, InferenceByRequest
    <3> QED BY <3>1, InferenceByRequest
  <2> QED BY <2>1, <2>2
<1> QED BY <1>1, <1>3, <1>4, InferenceByRequestNext

LEMMA StartupKeeps == InferenceSafe /\ Inference!Startup => InferenceSafe'
<1> SUFFICES ASSUME InferenceSafe, Inference!Startup PROVE InferenceSafe'
  OBVIOUS
<1>1. ServersAreFine /\ agent = "down"
  BY InferenceByRequest DEF Inference!Startup
<1>2. ServersAreFine'
  <2>1. starts' \in 0..MaxStarts
    BY <1>1, InferenceConstants DEF Inference!Startup, ServersAreFine
  <2>2. rpc' \in {"none", "up", "dead"}
    BY DEF Inference!Startup, Inference!StartRpcServer
  <2>3. /\ proc' \in {"none", "loading", "up", "dead"} /\ ready' \in BOOLEAN
        /\ mode # "model" => proc' = "none" /\ ready' = ready
    BY <1>1 DEF Inference!Startup, Inference!StartServer, Inference!Supervises, ServersAreFine
  <2> QED BY <1>1, <2>1, <2>2, <2>3
          DEF Inference!Startup, ServersAreFine, Inference!ChildrenStopWithAgent
<1>3. \A r \in Requests : RequestIsServed(req[r], agent', mode', proc')
  BY <1>1, InferenceByRequest DEF RequestIsServed
<1> QED BY <1>2, <1>3, ServersStep DEF Inference!Startup

LEMMA SignalKeeps == InferenceSafe /\ Inference!Signal => InferenceSafe'
<1> SUFFICES ASSUME InferenceSafe, Inference!Signal PROVE InferenceSafe'
  OBVIOUS
<1>1. ServersAreFine'
  BY InferenceByRequest DEF Inference!Signal, ServersAreFine, Inference!ChildrenStopWithAgent
<1>2. \A r \in Requests : RequestIsServed(req[r], agent', mode', proc')
  BY InferenceByRequest DEF RequestIsServed, Inference!Signal
<1> QED BY <1>1, <1>2, ServersStep DEF Inference!Signal

LEMMA StopChildrenKeeps == InferenceSafe /\ Inference!StopChildren => InferenceSafe'
<1> SUFFICES ASSUME InferenceSafe, Inference!StopChildren PROVE InferenceSafe'
  OBVIOUS
<1>1. ServersAreFine'
  BY InferenceByRequest
     DEF Inference!StopChildren, Inference!StopRpcServer, Inference!StopServer, ServersAreFine, Inference!ChildrenStopWithAgent
<1>2. \A r \in Requests : RequestIsServed(req[r], agent', mode', proc')
  BY DEF RequestIsServed, Inference!StopChildren
<1> QED BY <1>1, <1>2, ServersStep DEF Inference!StopChildren

LEMMA LoadKeeps == InferenceSafe /\ Inference!Load => InferenceSafe'
<1> SUFFICES ASSUME InferenceSafe, Inference!Load PROVE InferenceSafe'
  OBVIOUS
<1>1. ServersAreFine'
  BY InferenceByRequest DEF Inference!Load, ServersAreFine, Inference!ChildrenStopWithAgent
<1>2. \A r \in Requests : RequestIsServed(req[r], agent', mode', proc')
  BY InferenceByRequest DEF RequestIsServed, Inference!Load
<1> QED BY <1>1, <1>2, ServersStep DEF Inference!Load

LEMMA FaultKeeps == InferenceSafe /\ Inference!Fault => InferenceSafe'
<1> SUFFICES ASSUME InferenceSafe, Inference!Fault PROVE InferenceSafe'
  OBVIOUS
<1>1. ServersAreFine'
  <2>1. faults' \in 0..MaxFaults
    BY InferenceByRequest, InferenceConstants DEF Inference!Fault, ServersAreFine
  <2> QED BY <2>1, InferenceByRequest DEF Inference!Fault, ServersAreFine, Inference!ChildrenStopWithAgent
<1>2. \A r \in Requests : RequestIsServed(req[r], agent', mode', proc')
  BY InferenceByRequest DEF RequestIsServed, Inference!Fault
<1> QED BY <1>1, <1>2, ServersStep DEF Inference!Fault

LEMMA InferKeeps == ASSUME InferenceSafe, NEW r \in Requests, Inference!Infer(r) PROVE InferenceSafe'
<1>1. ServersAreFine /\ agent = "up"
  BY InferenceByRequest DEF Inference!Infer
<1>2. jobs' \in 0..MaxJobs
  BY <1>1, InferenceConstants DEF Inference!Infer, ServersAreFine
<1>3. PICK good \in BOOLEAN, pc \in {"idle", "wait", "post"}, a \in {"none", "422", "503"} :
         /\ req' = [req EXCEPT ![r] = [pc |-> pc, good |-> good, spent |-> 0, slow |-> FALSE,
                                        dead |-> Inference!Server = "dead"]]
         /\ answer' = [answer EXCEPT ![r] = a]
         /\ IF good THEN a # "422" ELSE pc = "idle" /\ a = "422"
  BY DEF Inference!Infer
<1>4. Inference!Server = "dead" => mode = "model" /\ proc = "dead"
  BY <1>1 DEF Inference!Server, ServersAreFine
<1> DEFINE x == [pc |-> pc, good |-> good, spent |-> 0, slow |-> FALSE, dead |-> Inference!Server = "dead"]
<1>5. RequestIsFine(x, a)
  BY <1>3, <1>4, InferenceConstants DEF RequestIsFine, RequestState
<1>6. RequestIsServed(x, agent, mode, proc)
  BY <1>1, <1>4 DEF RequestIsServed
<1> HIDE DEF x
<1>7. req' = [req EXCEPT ![r] = x]
  BY <1>3 DEF x
<1> QED BY <1>1, <1>2, <1>3, <1>5, <1>6, <1>7, RequestStep DEF Inference!Infer, ServersAreFine

LEMMA PollKeeps == ASSUME InferenceSafe, NEW r \in Requests, Inference!Poll(r) PROVE InferenceSafe'
<1>1. ServersAreFine /\ RequestIsFine(req[r], answer[r]) /\ RequestIsServed(req[r], agent, mode, proc)
  BY InferenceByRequest
<1>2. req[r].pc = "wait" /\ req[r] \in RequestState
  BY <1>1 DEF Inference!Poll, RequestIsFine
<1>3. CASE Inference!OutOfTime(r) \/ Inference!Exited
  <2> DEFINE x == [req[r] EXCEPT !.pc = "idle"]
  <2>1. RequestIsFine(x, "503") /\ RequestIsServed(x, agent, mode, proc)
    BY <1>1, <1>2, InferenceConstants DEF RequestIsFine, RequestIsServed, RequestState
  <2>2. req' = [req EXCEPT ![r] = x] /\ answer' = [answer EXCEPT ![r] = "503"]
    BY <1>3 DEF Inference!Poll, Inference!Reply
  <2> HIDE DEF x
  <2> QED BY <1>1, <2>1, <2>2, RequestStep DEF Inference!Poll, ServersAreFine
<1>4. CASE ~(Inference!OutOfTime(r) \/ Inference!Exited)
  <2> DEFINE x == [req[r] EXCEPT !.pc = "health"]
  <2>1. RequestIsFine(x, answer[r]) /\ RequestIsServed(x, agent, mode, proc)
    BY <1>1, <1>2, <1>4, InferenceConstants
       DEF RequestIsFine, RequestIsServed, RequestState, Inference!OutOfTime, Inference!Exited, Inference!Supervises
  <2>2. req' = [req EXCEPT ![r] = x] /\ answer' = [answer EXCEPT ![r] = answer[r]]
    BY <1>4, InferenceByRequest DEF Inference!Poll, Inference!Goto
  <2> HIDE DEF x
  <2> QED BY <1>1, <2>1, <2>2, RequestStep DEF Inference!Poll, ServersAreFine
<1> QED BY <1>3, <1>4

LEMMA HealthKeeps == ASSUME InferenceSafe, NEW r \in Requests, Inference!Health(r) PROVE InferenceSafe'
<1>1. ServersAreFine /\ RequestIsFine(req[r], answer[r]) /\ RequestIsServed(req[r], agent, mode, proc)
  BY InferenceByRequest
<1>2. req[r].pc = "health" /\ req[r] \in RequestState /\ ~req[r].dead
  BY <1>1 DEF Inference!Health, RequestIsFine, RequestIsServed, RequestState
<1>3. answer' = [answer EXCEPT ![r] = answer[r]]
  BY InferenceByRequest DEF Inference!Health
<1>4. PICK time \in Inference!Within(Inference!Phases, HealthTimeout) :
         \/ /\ Inference!Server = "up" /\ ready' = TRUE
            /\ req' = [req EXCEPT ![r].pc = "post", ![r].spent = @ + time]
         \/ /\ req' = [req EXCEPT ![r].pc = "wait", ![r].spent = @ + time + Pause]
            /\ UNCHANGED ready
  BY DEF Inference!Health
<1>5. /\ req[r].spent \in Nat /\ req[r].spent < ReadyTimeout
      /\ time \in Nat /\ time <= Inference!Overshoot
  BY <1>1, <1>2, TimesAreBounded DEF RequestIsFine, RequestState
<1>6. CASE /\ Inference!Server = "up" /\ ready' = TRUE
           /\ req' = [req EXCEPT ![r].pc = "post", ![r].spent = @ + time]
  <2>0. PICK k \in Nat : k = req[r].spent + time
    BY <1>5
  <2>1. PICK x : x = [req[r] EXCEPT !.pc = "post", !.spent = k]
    OBVIOUS
  <2>2. /\ x.pc = "post" /\ x.good = req[r].good /\ x.spent = k /\ x.dead = req[r].dead
        /\ x \in RequestState
    BY <1>2, <2>1 DEF RequestState
  <2>3. /\ x.spent < ReadyTimeout + Inference!Overshoot
        /\ x.spent < ReadyTimeout + RequestTimeout + Margin
    BY <1>5, <2>0, <2>2, InferenceConstants
  <2>4. RequestIsFine(x, answer[r]) /\ RequestIsServed(x, agent, mode, proc)
    BY <1>1, <1>2, <2>2, <2>3 DEF RequestIsFine, RequestIsServed
  <2>5. req' = [req EXCEPT ![r] = x]
    BY <1>6, <2>0, <2>1, InferenceByRequest
  <2>6. ready' \in BOOLEAN /\ mode # "neither"
    BY <1>1, <1>6 DEF Inference!Server, ServersAreFine
  <2> QED BY <1>1, <1>3, <2>4, <2>5, <2>6, RequestStep DEF Inference!Health, ServersAreFine
<1>7. CASE req' = [req EXCEPT ![r].pc = "wait", ![r].spent = @ + time + Pause] /\ UNCHANGED ready
  <2>0. PICK k \in Nat : k = req[r].spent + time + Pause
    BY <1>5, InferenceConstants
  <2>1. PICK x : x = [req[r] EXCEPT !.pc = "wait", !.spent = k]
    OBVIOUS
  <2>2. /\ x.pc = "wait" /\ x.good = req[r].good /\ x.spent = k /\ x.dead = req[r].dead
        /\ x \in RequestState
    BY <1>2, <2>1 DEF RequestState
  <2>3. /\ x.spent < ReadyTimeout + Inference!Overshoot + Pause
        /\ x.spent < ReadyTimeout + RequestTimeout + Margin
    BY <1>5, <2>0, <2>2, InferenceConstants
  <2>4. RequestIsFine(x, answer[r]) /\ RequestIsServed(x, agent, mode, proc)
    BY <1>1, <1>2, <2>2, <2>3 DEF RequestIsFine, RequestIsServed
  <2>5. req' = [req EXCEPT ![r] = x]
    BY <1>7, <2>0, <2>1, InferenceByRequest
  <2> QED BY <1>1, <1>3, <1>7, <2>4, <2>5, RequestStep DEF Inference!Health, ServersAreFine
<1> QED BY <1>4, <1>6, <1>7

\* A dead server of the node's own refuses the connection at once.
LEMMA PostKeeps == ASSUME InferenceSafe, NEW r \in Requests, Inference!Post(r) PROVE InferenceSafe'
<1>1. ServersAreFine /\ RequestIsFine(req[r], answer[r]) /\ RequestIsServed(req[r], agent, mode, proc)
  BY InferenceByRequest
<1>2. req[r].pc = "post" /\ req[r] \in RequestState
  BY <1>1 DEF Inference!Post, RequestIsFine
<1> DEFINE on(pc, time) ==
              [req EXCEPT ![r].pc = pc, ![r].spent = @ + time, ![r].slow = Inference!Slow(time)]
<1>a. PICK time \in Inference!ConnectTime :
         \/ Inference!Listening /\ req' = on("sent", time) /\ UNCHANGED answer
         \/ req' = on("idle", time) /\ answer' = [answer EXCEPT ![r] = "503"]
  BY DEF Inference!Post, Inference!StatusOf
<1>b. UNCHANGED answer => answer' = [answer EXCEPT ![r] = answer[r]]
  BY InferenceByRequest
<1> HIDE DEF on
<1>3. PICK pc \in {"idle", "sent"}, a \in {answer[r], "503"} :
         /\ req' = on(pc, time) /\ answer' = [answer EXCEPT ![r] = a]
         /\ pc = "sent" => Inference!Listening
  BY <1>a, <1>b
<1>4. req[r].spent \in Nat /\ req[r].spent < ReadyTimeout + Inference!Overshoot /\ time \in Nat
  BY <1>1, <1>2, TimesAreBounded DEF RequestIsFine, RequestState
<1>5. PICK k \in Nat : k = req[r].spent + time
  BY <1>4
<1>6. PICK slow \in BOOLEAN : slow = Inference!Slow(time)
  <2>1. Inference!Slow(time) \in BOOLEAN
    BY DEF Inference!Slow
  <2> QED BY <2>1
<1>7. PICK x : x = [req[r] EXCEPT !.pc = pc, !.spent = k, !.slow = slow]
  OBVIOUS
<1>8. /\ x.pc = pc /\ x.good = req[r].good /\ x.dead = req[r].dead /\ x.slow = slow
      /\ x.spent = k /\ x \in RequestState
  BY <1>2, <1>7 DEF RequestState
<1>9. req' = [req EXCEPT ![r] = x]
  BY <1>3, <1>5, <1>6, <1>7, InferenceByRequest DEF on
<1>10. ~slow => k < ReadyTimeout + Margin /\ k < ReadyTimeout + RequestTimeout + Margin
  <2> SUFFICES ASSUME ~slow
               PROVE  k < ReadyTimeout + Margin /\ k < ReadyTimeout + RequestTimeout + Margin
    OBVIOUS
  <2>1. ~Inference!Slow(time)
    BY <1>6
  <2> QED BY <1>4, <1>5, <2>1, InferenceConstants DEF Inference!Slow
<1>11. x.dead => pc = "idle" /\ x.spent = 0
  <2>1. x.dead => mode = "model" /\ proc = "dead" /\ req[r].spent = 0
    BY <1>1, <1>2, <1>8 DEF RequestIsFine, RequestIsServed
  <2>2. x.dead => ~Inference!Listening /\ time = 0
    BY <2>1 DEF Inference!Listening, Inference!Server, Inference!ConnectTime, Inference!Supervises
  <2> QED BY <1>3, <1>5, <1>8, <2>1, <2>2
<1>12. a \in {"none", "200", "422", "500", "503"} /\ (a # "none" => (a = "422" <=> ~x.good))
  BY <1>1, <1>2, <1>3, <1>8 DEF RequestIsFine
<1>13. RequestIsFine(x, a)
  BY <1>1, <1>2, <1>8, <1>10, <1>11, <1>12 DEF RequestIsFine
<1>14. RequestIsServed(x, agent, mode, proc)
  BY <1>1, <1>2, <1>8, <1>11 DEF RequestIsServed
<1> QED BY <1>1, <1>3, <1>9, <1>13, <1>14, RequestStep DEF Inference!Post, ServersAreFine

LEMMA ResponseKeeps == ASSUME InferenceSafe, NEW r \in Requests, Inference!Response(r) PROVE InferenceSafe'
<1>1. ServersAreFine /\ RequestIsFine(req[r], answer[r]) /\ RequestIsServed(req[r], agent, mode, proc)
  BY InferenceByRequest
<1>2. req[r].pc = "sent" /\ req[r] \in RequestState /\ ~req[r].dead
  BY <1>1 DEF Inference!Response, RequestIsFine, RequestIsServed, RequestState
<1>3. PICK a \in {"200", "500", "503"}, time \in Inference!Within(1, RequestTimeout) :
         /\ req' = [req EXCEPT ![r].pc = "idle", ![r].spent = @ + time]
         /\ answer' = [answer EXCEPT ![r] = a]
  BY DEF Inference!Response, Inference!StatusOf
<1>4. /\ req[r].spent \in Nat /\ (~req[r].slow => req[r].spent < ReadyTimeout + Margin)
      /\ time \in Nat /\ time <= RequestTimeout
  BY <1>1, <1>2, TimesAreBounded DEF RequestIsFine, RequestState
<1>5. PICK k \in Nat : k = req[r].spent + time
  BY <1>4
<1>6. PICK x : x = [req[r] EXCEPT !.pc = "idle", !.spent = k]
  OBVIOUS
<1>7. /\ x.pc = "idle" /\ x.good = req[r].good /\ x.dead = req[r].dead /\ x.slow = req[r].slow
      /\ x.spent = k /\ x \in RequestState
  BY <1>2, <1>6 DEF RequestState
<1>8. req' = [req EXCEPT ![r] = x]
  BY <1>3, <1>5, <1>6, InferenceByRequest
<1>9. ~x.slow => x.spent < ReadyTimeout + RequestTimeout + Margin
  BY <1>4, <1>5, <1>7, InferenceConstants
<1>10. RequestIsFine(x, a) /\ RequestIsServed(x, agent, mode, proc)
  BY <1>1, <1>2, <1>7, <1>9 DEF RequestIsFine, RequestIsServed
<1> QED BY <1>1, <1>3, <1>8, <1>10, RequestStep DEF Inference!Response, ServersAreFine

LEMMA InferenceNext == InferenceSafe /\ [Inference!Next]_inferenceVars => InferenceSafe'
<1> SUFFICES ASSUME InferenceSafe, [Inference!Next]_inferenceVars PROVE InferenceSafe'
  OBVIOUS
<1>1. CASE UNCHANGED inferenceVars
  <2>1. ServersAreFine'
    BY <1>1, InferenceByRequest DEF inferenceVars, ServersAreFine, Inference!ChildrenStopWithAgent
  <2> QED BY <1>1, <2>1, InferenceByRequest, ServersStep DEF inferenceVars
<1>2. CASE \E r \in Requests : Inference!Infer(r) \/ Inference!Step(r)
  BY <1>2, InferKeeps, PollKeeps, HealthKeeps, PostKeeps, ResponseKeeps DEF Inference!Step
<1> QED BY <1>1, <1>2, StartupKeeps, SignalKeeps, StopChildrenKeeps, LoadKeeps, FaultKeeps DEF Inference!Next

-----------------------------------------------------------------------------
(* FileIndex *)

LEMMA IndexConstants ==
    /\ NumFiles \in Nat /\ Sizes \subseteq Nat /\ Index!NoFile \notin Sizes /\ Dimensions \subseteq Nat
    /\ MaxFiles \in Nat \ {0} /\ MaxBytes \in Nat \ {0} /\ MaxCalls \in Nat /\ MaxWrites \in Nat
    /\ Index!Nobody \notin Refreshers
  BY NodeConstants DEF Index!IndexAssumption, Index!NoFile

LEMMA PathsAreNumbers == \A d \in Index!Document : d.path \in Nat
  BY IndexConstants DEF Index!Document, Index!Files

\* What the invariant says of one walk w at stage st, given what is published and
\* what is on disk.
WalkIsFine(w, st, docs, files) ==
    /\ w \in Index!Walk
    /\ st \notin Index!Walking => w = Index!NewWalk
    /\ st = "stat" => /\ w.path <= NumFiles /\ Len(w.docs) < MaxFiles
                      /\ Index!Current(docs, files, w.path, w.version)
    /\ Len(w.docs) <= MaxFiles /\ Index!PathsDiffer(w.docs)
    /\ \A j \in 1..Len(w.docs) :
           w.docs[j].path < w.path /\ Index!Current(docs, files, w.docs[j].path, w.docs[j].version)
    /\ st = "publish" => Index!OneLength(w.docs)
    /\ w.bytes = Index!Total(w.docs) /\ w.bytes <= MaxBytes
\* Of the call of refresh by t that it belongs to.
CallIsFine(t, st, seen, ans, lock, gen) ==
    /\ st \in {"idle", "called", "walk", "stat", "embed", "publish"} /\ seen \in Nat
    /\ ans \in {"none", "stats", "503", "500"}
    /\ st \in Index!Walking => lock = t
    /\ seen <= gen /\ (ans = "stats" => seen < gen)
\* Of a search with documents docs.
SearchIsFine(st, docs, what) ==
    /\ st \in {"idle", "ranking"} /\ docs \in Seq(Index!Document)
    /\ what \in {"none", "hits", "empty", "409", "503"}
    /\ Index!OneLength(docs) /\ (st = "ranking" => docs # <<>>)
\* Of the published index and of the files.
PublishedIsFine ==
    /\ documents \in Seq(Index!Document) /\ indexedBytes \in Nat
    /\ indexReady \in BOOLEAN /\ generation \in Nat
    /\ Len(documents) <= MaxFiles /\ indexedBytes = Index!Total(documents) /\ indexedBytes <= MaxBytes
    /\ Index!OneLength(documents) /\ Index!PathsDiffer(documents)
FilesAreFine ==
    /\ disk \in [Index!Files -> [size : Sizes \cup {Index!NoFile}, version : 0..MaxWrites]]
    /\ calls \in 0..MaxCalls /\ writes \in 0..MaxWrites
    /\ \A f \in Index!Files :
           disk[f].version <= writes /\ Index!Current(documents, disk, f, disk[f].version)
RefreshTypes ==
    /\ refreshLock \in Refreshers \cup {Index!Nobody}
    /\ stage \in [Refreshers -> {"idle", "called", "walk", "stat", "embed", "publish"}]
    /\ observed \in [Refreshers -> Nat] /\ walk \in [Refreshers -> Index!Walk]
    /\ indexAnswer \in [Refreshers -> {"none", "stats", "503", "500"}]
SearchTypes ==
    /\ spc \in [Searchers -> {"idle", "ranking"}] /\ snapshot \in [Searchers -> Seq(Index!Document)]
    /\ found \in [Searchers -> {"none", "hits", "empty", "409", "503", "422"}]

IndexParts ==
    /\ PublishedIsFine /\ FilesAreFine /\ RefreshTypes /\ SearchTypes
    /\ \A t \in Refreshers :
           /\ WalkIsFine(walk[t], stage[t], documents, disk)
           /\ CallIsFine(t, stage[t], observed[t], indexAnswer[t], refreshLock, generation)
    /\ \A s \in Searchers : SearchIsFine(spc[s], snapshot[s], found[s])

LEMMA IndexByParts == IndexParts => Index!IndexInvariant
<1> SUFFICES ASSUME IndexParts PROVE Index!IndexInvariant
  OBVIOUS
<1>1. Index!TypeOK
  BY DEF IndexParts, PublishedIsFine, FilesAreFine, RefreshTypes, SearchTypes, Index!TypeOK
<1>2. Index!WalksMatch
  BY DEF IndexParts, PublishedIsFine, FilesAreFine, WalkIsFine, CallIsFine, SearchIsFine, Index!WalksMatch
<1>3. Index!WithinCaps
  BY DEF IndexParts, PublishedIsFine, WalkIsFine, Index!WithinCaps
<1>4. Index!NeverTheCallersFault
  BY DEF IndexParts, SearchIsFine, Index!NeverTheCallersFault
<1>5. Index!StatsAreNew
  BY DEF IndexParts, CallIsFine, PublishedIsFine, Index!StatsAreNew
<1> QED BY <1>1, <1>2, <1>3, <1>4, <1>5 DEF Index!IndexInvariant

\* The sums of FileIndex are those that InductionFacts is about.
LEMMA TotalIsSum ==
    ASSUME NEW docs
    PROVE  Index!Total(docs) = SumFunctionOnSet([i \in 1..Len(docs) |-> docs[i].size], 1..Len(docs))
<1>1. ASSUME NEW f, NEW S PROVE Index!SumFunctionOnSet(f, S) = SumFunctionOnSet(f, S)
  BY DEF Index!SumFunctionOnSet, Index!FoldFunctionOnSet, Index!MapThenFoldSet,
         SumFunctionOnSet, FoldFunctionOnSet, MapThenFoldSet
<1> QED BY <1>1 DEF Index!Total

LEMMA TotalOfNone == Index!Total(<<>>) = 0
<1>1. 1..Len(<<>>) = {}
  OBVIOUS
<1>2. PICK f : f = [i \in 1..Len(<<>>) |-> <<>>[i].size]
  OBVIOUS
<1>3. Index!Total(<<>>) = SumFunctionOnSet(f, 1..Len(<<>>))
  BY <1>2, TotalIsSum, Zenon
<1> QED BY <1>1, <1>3, SumOfNothing

LEMMA TotalGrows ==
    ASSUME NEW docs \in Seq(Index!Document), NEW d \in Index!Document
    PROVE  Index!Total(Append(docs, d)) = Index!Total(docs) + d.size /\ Index!Total(docs) \in Nat
<1> DEFINE f == [i \in 1..Len(docs) |-> docs[i].size]
           g == [i \in 1..(Len(docs) + 1) |-> Append(docs, d)[i].size]
<1>1. Len(docs) \in Nat /\ Len(Append(docs, d)) = Len(docs) + 1
  OBVIOUS
<1>2. \A e \in Index!Document : e.size \in Nat
  BY IndexConstants DEF Index!Document
<1>3. \A i \in 1..Len(docs) : f[i] \in Nat /\ g[i] = f[i]
  <2>1. ASSUME NEW i \in 1..Len(docs) PROVE docs[i] \in Index!Document /\ Append(docs, d)[i] = docs[i] /\ i \in 1..(Len(docs) + 1)
    BY <1>1
  <2> QED BY <1>2, <2>1
<1>4. Len(docs) + 1 \notin 1..Len(docs) /\ (1..Len(docs)) \cup {Len(docs) + 1} = 1..(Len(docs) + 1)
  BY <1>1
<1>5. g[Len(docs) + 1] = d.size /\ d.size \in Nat
  <2>1. Append(docs, d)[Len(docs) + 1] = d /\ Len(docs) + 1 \in 1..(Len(docs) + 1)
    BY <1>1
  <2> QED BY <1>2, <2>1
<1>6. IsFiniteSet(1..Len(docs))
  BY <1>1, FS_Interval
<1> HIDE DEF f, g
<1>7. SumFunctionOnSet(f, 1..Len(docs)) \in Nat
  BY <1>3, <1>6, SumIsNatural
<1>8. SumFunctionOnSet(g, 1..Len(docs)) = SumFunctionOnSet(f, 1..Len(docs))
  <2>1. \A i \in 1..Len(docs) : f[i] \in Int /\ g[i] = f[i]
    BY <1>3
  <2> QED BY <1>6, <2>1, SumSame
<1>9. SumFunctionOnSet(g, (1..Len(docs)) \cup {Len(docs) + 1}) = g[Len(docs) + 1] + SumFunctionOnSet(g, 1..Len(docs))
  <2>1. g[Len(docs) + 1] \in Int /\ \A i \in 1..Len(docs) : g[i] \in Int
    BY <1>3, <1>5
  <2> QED BY <1>4, <1>6, <2>1, SumAdds
<1>10. /\ Index!Total(docs) = SumFunctionOnSet(f, 1..Len(docs))
       /\ Index!Total(Append(docs, d)) = SumFunctionOnSet(g, 1..(Len(docs) + 1))
  <2>1. /\ f = [i \in 1..Len(docs) |-> docs[i].size]
        /\ g = [i \in 1..Len(Append(docs, d)) |-> Append(docs, d)[i].size]
    BY <1>1 DEF f, g
  <2>2. /\ Index!Total(docs) = SumFunctionOnSet(f, 1..Len(docs))
        /\ Index!Total(Append(docs, d)) = SumFunctionOnSet(g, 1..Len(Append(docs, d)))
    BY <2>1, TotalIsSum, Zenon
  <2> QED BY <1>1, <2>2
<1>11. SumFunctionOnSet(g, 1..(Len(docs) + 1)) = g[Len(docs) + 1] + SumFunctionOnSet(g, 1..Len(docs))
  BY <1>4, <1>9
<1> QED BY <1>5, <1>7, <1>8, <1>10, <1>11

LEMMA TotalIsTheSizes ==
    ASSUME NEW docs \in Seq(Index!Document), NEW more \in Seq(Index!Document), Len(more) = Len(docs),
           \A i \in 1..Len(docs) : more[i].size = docs[i].size
    PROVE  Index!Total(more) = Index!Total(docs)
<1>1. [i \in 1..Len(more) |-> more[i].size] = [i \in 1..Len(docs) |-> docs[i].size]
  OBVIOUS
<1> QED BY <1>1, TotalIsSum

LEMMA NewWalkIsFine ==
    ASSUME NEW st \in {"idle", "called", "walk"}, NEW docs, NEW files
    PROVE  WalkIsFine(Index!NewWalk, st, docs, files)
<1>1. Index!NewWalk \in Index!Walk
  <2>1. <<>> \in Seq(Index!Document) /\ 1 \in 1..(NumFiles + 1) /\ 0 \in 0..MaxWrites
    BY IndexConstants
  <2> QED BY <2>1 DEF Index!NewWalk, Index!Walk
<1>2. Index!NewWalk.docs = <<>> /\ Index!NewWalk.bytes = 0 /\ Len(<<>>) = 0 /\ 1..0 = {}
  BY DEF Index!NewWalk
<1> QED BY <1>1, <1>2, TotalOfNone, IndexConstants DEF WalkIsFine, Index!PathsDiffer

LEMMA IndexInit == Index!Init => IndexParts
<1> SUFFICES ASSUME Index!Init PROVE IndexParts
  OBVIOUS
<1>1. <<>> \in Seq(Index!Document) /\ Len(<<>>) = 0 /\ 1..0 = {}
  OBVIOUS
<1>2. PublishedIsFine
  <2>1. documents = <<>> /\ indexedBytes = 0 /\ indexReady = FALSE /\ generation = 0
    BY DEF Index!Init
  <2>2. Index!OneLength(<<>>) /\ Index!PathsDiffer(<<>>)
    BY <1>1 DEF Index!OneLength, Index!PathsDiffer
  <2>3. 0 <= MaxFiles /\ 0 <= MaxBytes
    BY IndexConstants
  <2> QED BY <1>1, <2>1, <2>2, <2>3, TotalOfNone DEF PublishedIsFine
<1>3. FilesAreFine
  <2>1. 0 \in 0..MaxWrites /\ 0 \in 0..MaxCalls
    BY IndexConstants
  <2>2. disk \in [Index!Files -> [size : Sizes \cup {Index!NoFile}, version : 0..MaxWrites]]
    BY <2>1 DEF Index!Init
  <2>3. ASSUME NEW f \in Index!Files PROVE disk[f].version = 0 /\ Index!Current(documents, disk, f, disk[f].version)
    BY <1>1 DEF Index!Init, Index!Current
  <2> QED BY <2>1, <2>2, <2>3 DEF Index!Init, FilesAreFine
<1>4. Index!NewWalk \in Index!Walk
  BY NewWalkIsFine DEF WalkIsFine
<1>5. RefreshTypes /\ SearchTypes
  BY <1>1, <1>4 DEF Index!Init, RefreshTypes, SearchTypes
<1>6. ASSUME NEW t \in Refreshers
      PROVE  /\ WalkIsFine(walk[t], stage[t], documents, disk)
             /\ CallIsFine(t, stage[t], observed[t], indexAnswer[t], refreshLock, generation)
  <2>1. walk[t] = Index!NewWalk /\ stage[t] = "idle" /\ observed[t] = 0 /\ indexAnswer[t] = "none" /\ generation = 0
    BY DEF Index!Init
  <2> QED BY <2>1, NewWalkIsFine DEF CallIsFine, Index!Walking
<1>7. ASSUME NEW s \in Searchers PROVE SearchIsFine(spc[s], snapshot[s], found[s])
  <2>1. spc[s] = "idle" /\ snapshot[s] = <<>> /\ found[s] = "none"
    BY DEF Index!Init
  <2> QED BY <1>1, <2>1 DEF SearchIsFine, Index!OneLength
<1> QED BY <1>2, <1>3, <1>5, <1>6, <1>7 DEF IndexParts

\* Nobody else walks while the lock is free or held by t.
LEMMA OneWalks ==
    ASSUME IndexParts, NEW t, refreshLock \in {t, Index!Nobody}, NEW q \in Refreshers, q # t
    PROVE  stage[q] \notin Index!Walking
<1>1. stage[q] \in Index!Walking => refreshLock = q
  BY DEF IndexParts, CallIsFine
<1> QED BY <1>1, IndexConstants

\* A step of refresher t alone, which leaves the published index, the files and
\* the searches as they are.
LEMMA RefresherStep ==
    ASSUME IndexParts, NEW t \in Refreshers, NEW st, NEW w, NEW seen, NEW ans,
           stage' = [stage EXCEPT ![t] = st], walk' = [walk EXCEPT ![t] = w],
           observed' = [observed EXCEPT ![t] = seen], indexAnswer' = [indexAnswer EXCEPT ![t] = ans],
           WalkIsFine(w, st, documents, disk), CallIsFine(t, st, seen, ans, refreshLock', generation),
           refreshLock' \in Refreshers \cup {Index!Nobody},
           refreshLock' # refreshLock => refreshLock \in {t, Index!Nobody},
           calls' \in 0..MaxCalls,
           UNCHANGED <<disk, documents, indexedBytes, indexReady, generation, spc, snapshot, found, writes>>
    PROVE  IndexParts'
<1>1. PublishedIsFine' /\ FilesAreFine' /\ SearchTypes'
  BY DEF IndexParts, PublishedIsFine, FilesAreFine, SearchTypes
<1>2. RefreshTypes'
  BY DEF IndexParts, RefreshTypes, WalkIsFine, CallIsFine
<1>3. ASSUME NEW q \in Refreshers
      PROVE  /\ WalkIsFine(walk[q], stage[q], documents, disk)'
             /\ CallIsFine(q, stage[q], observed[q], indexAnswer[q], refreshLock, generation)'
  <2>1. CASE q = t
    <3>1. walk'[q] = w /\ stage'[q] = st /\ observed'[q] = seen /\ indexAnswer'[q] = ans
      BY <2>1 DEF IndexParts, RefreshTypes
    <3> QED BY <2>1, <3>1
  <2>2. CASE q # t
    <3>1. walk'[q] = walk[q] /\ stage'[q] = stage[q] /\ observed'[q] = observed[q] /\ indexAnswer'[q] = indexAnswer[q]
      BY <2>2 DEF IndexParts, RefreshTypes
    <3>2. WalkIsFine(walk[q], stage[q], documents, disk)
      BY DEF IndexParts
    <3>3. CallIsFine(q, stage[q], observed[q], indexAnswer[q], refreshLock', generation)
      <4>1. CallIsFine(q, stage[q], observed[q], indexAnswer[q], refreshLock, generation)
        BY DEF IndexParts
      <4>2. refreshLock' # refreshLock => stage[q] \notin Index!Walking
        BY <2>2, OneWalks
      <4> QED BY <4>1, <4>2 DEF CallIsFine
    <3> QED BY <3>1, <3>2, <3>3
  <2> QED BY <2>1, <2>2
<1>4. ASSUME NEW s \in Searchers PROVE SearchIsFine(spc[s], snapshot[s], found[s])'
  BY DEF IndexParts
<1> QED BY <1>1, <1>2, <1>3, <1>4 DEF IndexParts

LEMMA RefreshKeeps == ASSUME IndexParts, NEW t \in Refreshers, Index!Refresh(t) PROVE IndexParts'
<1>1. stage[t] = "idle" /\ generation \in Nat /\ calls' \in 0..MaxCalls
  BY IndexConstants DEF Index!Refresh, IndexParts, PublishedIsFine, FilesAreFine
<1>2. walk[t] = Index!NewWalk /\ walk' = [walk EXCEPT ![t] = Index!NewWalk]
  BY <1>1 DEF IndexParts, WalkIsFine, RefreshTypes, Index!Walking, Index!Refresh
<1>3. WalkIsFine(Index!NewWalk, "called", documents, disk)
  BY NewWalkIsFine
<1>4. CallIsFine(t, "called", generation, "none", refreshLock', generation)
  BY <1>1 DEF CallIsFine, Index!Walking
<1>5. refreshLock' = refreshLock /\ refreshLock \in Refreshers \cup {Index!Nobody}
  BY DEF Index!Refresh, IndexParts, RefreshTypes
<1> QED BY <1>1, <1>2, <1>3, <1>4, <1>5, RefresherStep DEF Index!Refresh, Index!index, Index!search

LEMMA EnterKeeps == ASSUME IndexParts, NEW t \in Refreshers, Index!Enter(t) PROVE IndexParts'
<1>1. /\ stage[t] = "called" /\ refreshLock = Index!Nobody /\ calls \in 0..MaxCalls
      /\ observed' = [observed EXCEPT ![t] = observed[t]] /\ generation \in Nat
  BY DEF Index!Enter, Index!LockFree, IndexParts, PublishedIsFine, FilesAreFine, RefreshTypes
<1>2. walk[t] = Index!NewWalk
  BY <1>1 DEF IndexParts, WalkIsFine, Index!Walking
<1>3. CallIsFine(t, stage[t], observed[t], indexAnswer[t], refreshLock, generation)
  BY DEF IndexParts
<1>4. CASE Index!Overtaken(t)
  <2>1. /\ walk' = [walk EXCEPT ![t] = Index!NewWalk] /\ refreshLock' = refreshLock
        /\ stage' = [stage EXCEPT ![t] = "idle"] /\ indexAnswer' = [indexAnswer EXCEPT ![t] = "stats"]
    BY <1>2, <1>4 DEF Index!Enter, IndexParts, RefreshTypes
  <2>2. CallIsFine(t, "idle", observed[t], "stats", refreshLock', generation)
    BY <1>1, <1>3, <1>4 DEF CallIsFine, Index!Overtaken, Index!Walking
  <2>3. WalkIsFine(Index!NewWalk, "idle", documents, disk)
    BY NewWalkIsFine
  <2> QED BY <1>1, <2>1, <2>2, <2>3, RefresherStep DEF Index!Enter, Index!index, Index!search
<1>5. CASE ~Index!Overtaken(t)
  <2>1. /\ walk' = [walk EXCEPT ![t] = Index!NewWalk] /\ refreshLock' = t
        /\ stage' = [stage EXCEPT ![t] = "walk"] /\ indexAnswer' = [indexAnswer EXCEPT ![t] = indexAnswer[t]]
    BY <1>5 DEF Index!Enter, IndexParts, RefreshTypes
  <2>2. CallIsFine(t, "walk", observed[t], indexAnswer[t], refreshLock', generation)
    BY <1>3, <2>1 DEF CallIsFine
  <2>3. WalkIsFine(Index!NewWalk, "walk", documents, disk)
    BY NewWalkIsFine
  <2> QED BY <1>1, <2>1, <2>2, <2>3, RefresherStep DEF Index!Enter, Index!index, Index!search
<1> QED BY <1>4, <1>5

\* refresh_lock is released by whoever has it.
LEMMA ReturnKeeps ==
    ASSUME IndexParts, NEW t \in Refreshers, stage[t] \in Index!Walking, NEW how \in {"503", "500"},
           Index!Return(t, how),
           UNCHANGED <<disk, documents, indexedBytes, indexReady, generation, observed, spc, snapshot, found, calls, writes>>
    PROVE  IndexParts'
<1>1. /\ refreshLock = t /\ observed' = [observed EXCEPT ![t] = observed[t]] /\ calls' \in 0..MaxCalls
      /\ CallIsFine(t, stage[t], observed[t], indexAnswer[t], refreshLock, generation)
  BY DEF IndexParts, CallIsFine, FilesAreFine, RefreshTypes
<1>2. CallIsFine(t, "idle", observed[t], how, refreshLock', generation)
  BY <1>1 DEF CallIsFine, Index!Walking
<1>3. WalkIsFine(Index!NewWalk, "idle", documents, disk)
  BY NewWalkIsFine
<1> QED BY <1>1, <1>2, <1>3, RefresherStep DEF Index!Return

LEMMA VisitKeeps == ASSUME IndexParts, NEW t \in Refreshers, Index!Visit(t) PROVE IndexParts'
<1> DEFINE Kept ==
             /\ observed' = [observed EXCEPT ![t] = observed[t]]
             /\ indexAnswer' = [indexAnswer EXCEPT ![t] = indexAnswer[t]]
             /\ refreshLock' = refreshLock /\ refreshLock \in Refreshers \cup {Index!Nobody} /\ calls' \in 0..MaxCalls
             /\ UNCHANGED <<disk, documents, indexedBytes, indexReady, generation, spc, snapshot, found, writes>>
<1>1. Kept
  BY DEF Index!Visit, IndexParts, RefreshTypes, FilesAreFine, Index!index, Index!search
<1>2. PICK w : w = walk[t]
  OBVIOUS
<1>3. WalkIsFine(w, "walk", documents, disk) /\ stage[t] = "walk"
  BY <1>2 DEF IndexParts, Index!Visit
<1>4. ASSUME NEW st \in Index!Walking PROVE CallIsFine(t, st, observed[t], indexAnswer[t], refreshLock', generation)
  BY <1>1, <1>3, <1>4 DEF IndexParts, CallIsFine, Index!Walking
<1>5. w \in Index!Walk /\ w.path \in 1..(NumFiles + 1) /\ w.docs \in Seq(Index!Document)
  BY <1>3 DEF WalkIsFine, Index!Walk
<1>6. CASE Index!WalkOver(w)
  <2>1. stage' = [stage EXCEPT ![t] = "embed"] /\ walk' = [walk EXCEPT ![t] = w]
    BY <1>2, <1>6 DEF Index!Visit, IndexParts, RefreshTypes
  <2>2. WalkIsFine(w, "embed", documents, disk) /\ "embed" \in Index!Walking
    BY <1>3 DEF WalkIsFine, Index!Walking
  <2> QED BY <1>1, <1>4, <2>1, <2>2, RefresherStep
<1>7. ASSUME ~Index!WalkOver(w), walk' = [walk EXCEPT ![t].path = @ + 1], UNCHANGED stage PROVE IndexParts'
  <2>1. w.path \in 1..NumFiles
    BY <1>5, <1>7, IndexConstants DEF Index!WalkOver
  <2>2. PICK k \in 1..(NumFiles + 1) : k = w.path + 1
    BY <2>1, IndexConstants
  <2>3. PICK x : x = [w EXCEPT !.path = k]
    OBVIOUS
  <2>4. x \in Index!Walk /\ x.path = k /\ x.docs = w.docs /\ x.bytes = w.bytes
    BY <1>5, <2>3 DEF Index!Walk
  <2>5. \A j \in 1..Len(w.docs) : w.docs[j].path < k
    <3>1. ASSUME NEW j \in 1..Len(w.docs) PROVE w.docs[j].path < k
      <4>1. w.docs[j].path < w.path /\ w.docs[j] \in Index!Document
        BY <1>3, <1>5 DEF WalkIsFine
      <4>2. w.docs[j].path \in Nat
        BY <4>1, PathsAreNumbers
      <4> QED BY <2>1, <2>2, <4>1, <4>2, IndexConstants
    <3> QED BY <3>1
  <2>6. WalkIsFine(x, "walk", documents, disk) /\ "walk" \in Index!Walking
    BY <1>3, <2>4, <2>5 DEF WalkIsFine, Index!Walking
  <2>7. walk' = [walk EXCEPT ![t] = x] /\ stage' = [stage EXCEPT ![t] = "walk"]
    BY <1>2, <1>3, <1>7, <2>2, <2>3 DEF IndexParts, RefreshTypes
  <2> QED BY <1>1, <1>4, <2>6, <2>7, RefresherStep
<1>8. ASSUME ~Index!WalkOver(w), walk' = [walk EXCEPT ![t].version = disk[w.path].version],
             stage' = [stage EXCEPT ![t] = "stat"]
      PROVE  IndexParts'
  <2>1. w.path \in 1..NumFiles /\ Len(w.docs) < MaxFiles
    BY <1>5, <1>7, <1>8, IndexConstants DEF Index!WalkOver
  <2>2. /\ disk[w.path].version \in 0..MaxWrites
        /\ Index!Current(documents, disk, w.path, disk[w.path].version)
    BY <2>1 DEF IndexParts, FilesAreFine, Index!Files
  <2>3. PICK x : x = [w EXCEPT !.version = disk[w.path].version]
    OBVIOUS
  <2>4. /\ x \in Index!Walk /\ x.path = w.path /\ x.docs = w.docs /\ x.bytes = w.bytes
        /\ x.version = disk[w.path].version
    BY <1>5, <2>2, <2>3 DEF Index!Walk
  <2>5. WalkIsFine(x, "stat", documents, disk) /\ "stat" \in Index!Walking
    BY <1>3, <2>1, <2>2, <2>4 DEF WalkIsFine, Index!Walking
  <2>6. walk' = [walk EXCEPT ![t] = x]
    BY <1>2, <1>8, <2>3 DEF IndexParts, RefreshTypes
  <2> QED BY <1>1, <1>4, <1>8, <2>5, <2>6, RefresherStep
<1> QED BY <1>2, <1>6, <1>7, <1>8 DEF Index!Visit

LEMMA StatKeeps == ASSUME IndexParts, NEW t \in Refreshers, Index!Stat(t) PROVE IndexParts'
<1>1. PICK w : w = walk[t]
  OBVIOUS
<1>2. /\ stage[t] = "stat" /\ WalkIsFine(w, "stat", documents, disk)
      /\ CallIsFine(t, "stat", observed[t], indexAnswer[t], refreshLock, generation)
  BY <1>1 DEF IndexParts, Index!Stat
<1>3. w \in Index!Walk /\ w.path \in 1..NumFiles /\ w.docs \in Seq(Index!Document) /\ w.bytes \in Nat
  BY <1>2, IndexConstants DEF WalkIsFine, Index!Walk
<1>4. PICK size : size = disk[w.path].size
  OBVIOUS
<1>5. size \in Sizes \cup {Index!NoFile}
  BY <1>3, <1>4 DEF IndexParts, FilesAreFine, Index!Files
<1>6. /\ observed' = [observed EXCEPT ![t] = observed[t]] /\ calls' \in 0..MaxCalls
      /\ refreshLock \in Refreshers \cup {Index!Nobody}
      /\ UNCHANGED <<disk, documents, indexedBytes, indexReady, generation, spc, snapshot, found, writes>>
  BY DEF Index!Stat, IndexParts, RefreshTypes, FilesAreFine, Index!index, Index!search
<1>7. CASE size = Index!NoFile
  <2>1. Index!Return(t, "500") /\ stage[t] \in Index!Walking
    BY <1>1, <1>2, <1>4, <1>7 DEF Index!Stat, Index!Walking
  <2>2. UNCHANGED <<observed, calls>>
    BY DEF Index!Stat
  <2> QED BY <1>6, <2>1, <2>2, ReturnKeeps
<1>8. CASE size # Index!NoFile /\ Index!OverTotal(w, size)
  <2>1. /\ stage' = [stage EXCEPT ![t] = "embed"] /\ walk' = [walk EXCEPT ![t] = w]
        /\ indexAnswer' = [indexAnswer EXCEPT ![t] = indexAnswer[t]] /\ refreshLock' = refreshLock
    BY <1>1, <1>4, <1>8 DEF Index!Stat, IndexParts, RefreshTypes
  <2>2. WalkIsFine(w, "embed", documents, disk)
    BY <1>2 DEF WalkIsFine, Index!Walking
  <2>3. CallIsFine(t, "embed", observed[t], indexAnswer[t], refreshLock', generation)
    BY <1>2, <2>1 DEF CallIsFine, Index!Walking
  <2> QED BY <1>6, <2>1, <2>2, <2>3, RefresherStep
<1>9. CASE size # Index!NoFile /\ ~Index!OverTotal(w, size)
  <2>1. size \in Sizes /\ size \in Nat
    BY <1>5, <1>9, IndexConstants
  <2>2. PICK d \in Index!Document : d = [path |-> w.path, version |-> w.version, size |-> size, dims |-> 0]
    BY <1>3, <2>1 DEF Index!Document, Index!Walk, Index!Files
  <2>3. PICK k \in 1..(NumFiles + 1) : k = w.path + 1
    BY <1>3, IndexConstants
  <2>4. PICK b \in Nat : b = w.bytes + size
    BY <1>3, <2>1
  <2>5. PICK more \in Seq(Index!Document) : more = Append(w.docs, d)
    BY <1>3, AppendProperties
  <2>6. PICK x : x = [w EXCEPT !.path = k, !.bytes = b, !.docs = more]
    OBVIOUS
  <2>7. x \in Index!Walk /\ x.path = k /\ x.bytes = b /\ x.docs = more
    BY <1>3, <2>6 DEF Index!Walk
  <2>8. /\ walk' = [walk EXCEPT ![t] = x] /\ stage' = [stage EXCEPT ![t] = "walk"]
        /\ indexAnswer' = [indexAnswer EXCEPT ![t] = indexAnswer[t]] /\ refreshLock' = refreshLock
    <3>1. /\ walk' = [walk EXCEPT ![t] = [w EXCEPT !.path = w.path + 1, !.bytes = w.bytes + size,
                           !.docs = Append(w.docs, [path |-> w.path, version |-> w.version,
                                                    size |-> size, dims |-> 0])]]
          /\ stage' = [stage EXCEPT ![t] = "walk"] /\ indexAnswer' = indexAnswer
          /\ refreshLock' = refreshLock
      BY <1>1, <1>4, <1>9 DEF Index!Stat, IndexParts, RefreshTypes
    <3>2. indexAnswer' = [indexAnswer EXCEPT ![t] = indexAnswer[t]]
      BY <1>4, <3>1 DEF IndexParts, RefreshTypes
    <3> QED BY <2>2, <2>3, <2>4, <2>5, <2>6, <3>1, <3>2
  <2>9. CallIsFine(t, "walk", observed[t], indexAnswer[t], refreshLock', generation)
    BY <1>2, <2>8 DEF CallIsFine, Index!Walking
  <2>10. WalkIsFine(x, "walk", documents, disk)
    <3>1. b = Index!Total(more) /\ b <= MaxBytes
      <4>1. w.bytes = Index!Total(w.docs) /\ d.size = size
        BY <1>2, <2>2 DEF WalkIsFine
      <4>2. Index!Total(more) = Index!Total(w.docs) + d.size
        BY <1>3, <2>5, TotalGrows
      <4>3. ~(w.bytes + size > MaxBytes)
        BY <1>9 DEF Index!OverTotal
      <4> QED BY <1>3, <2>1, <2>4, <4>1, <4>2, <4>3, IndexConstants
    <3>2. Len(more) = Len(w.docs) + 1 /\ Len(w.docs) \in Nat /\ Len(w.docs) < MaxFiles
      BY <1>2, <1>3, <2>5 DEF WalkIsFine
    <3>3. ASSUME NEW j \in 1..Len(more), j # Len(w.docs) + 1
          PROVE  /\ j \in 1..Len(w.docs) /\ more[j] = w.docs[j] /\ more[j].path \in Nat /\ more[j].path < w.path
                 /\ Index!Current(documents, disk, more[j].path, more[j].version)
      <4>1. j \in 1..Len(w.docs) /\ more[j] = w.docs[j]
        BY <1>3, <2>5, <3>2, <3>3
      <4>2. w.docs[j] \in Index!Document
        BY <1>3, <4>1
      <4>3. w.docs[j].path \in Nat
        BY <4>2, PathsAreNumbers
      <4> QED BY <1>2, <4>1, <4>3 DEF WalkIsFine
    <3>4. /\ more[Len(w.docs) + 1] = d /\ d.path = w.path /\ d.version = w.version
          /\ Index!Current(documents, disk, w.path, w.version)
      BY <1>2, <1>3, <2>2, <2>5 DEF WalkIsFine
    <3>5. ASSUME NEW j \in 1..Len(more)
          PROVE  more[j].path < k /\ Index!Current(documents, disk, more[j].path, more[j].version)
      <4>1. CASE j = Len(w.docs) + 1
        BY <1>3, <2>3, <3>4, <4>1, IndexConstants
      <4>2. CASE j # Len(w.docs) + 1
        BY <1>3, <2>3, <3>3, <4>2, IndexConstants
      <4> QED BY <4>1, <4>2
    <3>6. Index!PathsDiffer(more)
      <4> SUFFICES ASSUME NEW i \in 1..Len(more), NEW j \in 1..Len(more), more[i].path = more[j].path PROVE i = j
        BY DEF Index!PathsDiffer
      <4>1. CASE i = Len(w.docs) + 1 /\ j # Len(w.docs) + 1
        BY <1>3, <3>3, <3>4, <4>1, IndexConstants
      <4>2. CASE i # Len(w.docs) + 1 /\ j = Len(w.docs) + 1
        BY <1>3, <3>3, <3>4, <4>2, IndexConstants
      <4>3. CASE i # Len(w.docs) + 1 /\ j # Len(w.docs) + 1
        BY <1>2, <3>3, <4>3 DEF WalkIsFine, Index!PathsDiffer
      <4> QED BY <4>1, <4>2, <4>3
    <3>7. Len(more) <= MaxFiles
      BY <3>2, IndexConstants
    <3> QED BY <2>7, <3>1, <3>5, <3>6, <3>7 DEF WalkIsFine, Index!Walking
  <2> QED BY <1>6, <2>8, <2>9, <2>10, RefresherStep
<1> QED BY <1>7, <1>8, <1>9

LEMMA EmbedKeeps == ASSUME IndexParts, NEW t \in Refreshers, Index!Embed(t) PROVE IndexParts'
<1>1. PICK w : w = walk[t]
  OBVIOUS
<1>2. /\ stage[t] = "embed" /\ WalkIsFine(w, "embed", documents, disk)
      /\ CallIsFine(t, "embed", observed[t], indexAnswer[t], refreshLock, generation)
  BY <1>1 DEF IndexParts, Index!Embed
<1>3. /\ w \in Index!Walk /\ w.docs \in Seq(Index!Document) /\ Len(w.docs) \in Nat
      /\ \A i \in 1..Len(w.docs) : w.docs[i] \in Index!Document
  BY <1>2 DEF WalkIsFine, Index!Walk
<1>4. /\ observed' = [observed EXCEPT ![t] = observed[t]] /\ calls' \in 0..MaxCalls
      /\ refreshLock \in Refreshers \cup {Index!Nobody} /\ UNCHANGED <<observed, calls>>
      /\ UNCHANGED <<disk, documents, indexedBytes, indexReady, generation, spc, snapshot, found, writes>>
  BY DEF Index!Embed, IndexParts, RefreshTypes, FilesAreFine, Index!index, Index!search
<1>5. CASE Index!Return(t, "503")
  <2>1. stage[t] \in Index!Walking
    BY <1>2 DEF Index!Walking
  <2> QED BY <1>4, <1>5, <2>1, ReturnKeeps
<1>6. ASSUME NEW vectors \in [1..Len(w.docs) -> {0} \cup Dimensions],
             Len(w.docs) > 0 => Index!SameLength(vectors),
             walk' = [walk EXCEPT ![t].docs =
                        [i \in 1..Len(w.docs) |-> [w.docs[i] EXCEPT !.dims = vectors[i]]]],
             stage' = [stage EXCEPT ![t] = "publish"], UNCHANGED <<indexAnswer, refreshLock>>
      PROVE  IndexParts'
  <2>1. PICK more : more = [i \in 1..Len(w.docs) |-> [w.docs[i] EXCEPT !.dims = vectors[i]]]
    OBVIOUS
  <2>2. ASSUME NEW i \in 1..Len(w.docs)
        PROVE  /\ more[i] \in Index!Document /\ more[i].dims = vectors[i] /\ more[i].path = w.docs[i].path
               /\ more[i].version = w.docs[i].version /\ more[i].size = w.docs[i].size
    <3>1. w.docs[i] \in Index!Document /\ vectors[i] \in {0} \cup Dimensions
      BY <1>3, <1>6
    <3>2. more[i] = [w.docs[i] EXCEPT !.dims = vectors[i]]
      BY <2>1
    <3> QED BY <3>1, <3>2 DEF Index!Document
  <2>3. more \in Seq(Index!Document) /\ Len(more) = Len(w.docs)
    <3>1. PICK n \in Nat : n = Len(w.docs)
      BY <1>3
    <3>2. DOMAIN more = 1..n /\ more = [i \in 1..n |-> more[i]] /\ \A i \in 1..n : more[i] \in Index!Document
      BY <2>1, <2>2, <3>1
    <3>3. more \in [1..n -> Index!Document]
      BY <3>2
    <3> QED BY <3>1, <3>3
  <2>4. Index!Total(more) = Index!Total(w.docs)
    BY <1>3, <2>2, <2>3, TotalIsTheSizes
  <2>5. Index!OneLength(more)
    <3> SUFFICES ASSUME NEW i \in 1..Len(more), NEW j \in 1..Len(more) PROVE more[i].dims = more[j].dims
      BY DEF Index!OneLength
    <3>1. Index!SameLength(vectors) /\ Len(vectors) = Len(w.docs)
      BY <1>3, <1>6, <2>3
    <3>2. vectors[i] = vectors[1] /\ vectors[j] = vectors[1]
      BY <2>3, <3>1 DEF Index!SameLength
    <3> QED BY <2>2, <2>3, <3>2
  <2>6. PICK x : x = [w EXCEPT !.docs = more]
    OBVIOUS
  <2>7. x \in Index!Walk /\ x.path = w.path /\ x.bytes = w.bytes /\ x.docs = more
    BY <1>3, <2>3, <2>6 DEF Index!Walk
  <2>8. /\ walk' = [walk EXCEPT ![t] = x] /\ indexAnswer' = [indexAnswer EXCEPT ![t] = indexAnswer[t]]
    BY <1>1, <1>6, <2>1, <2>6 DEF IndexParts, RefreshTypes
  <2>9. Index!PathsDiffer(more)
    BY <1>2, <2>2, <2>3 DEF Index!PathsDiffer, WalkIsFine
  <2>10. \A j \in 1..Len(more) :
            more[j].path < w.path /\ Index!Current(documents, disk, more[j].path, more[j].version)
    BY <1>2, <2>2, <2>3 DEF WalkIsFine
  <2>11. w.bytes = Index!Total(more) /\ w.bytes <= MaxBytes /\ Len(more) <= MaxFiles
    BY <1>2, <2>3, <2>4 DEF WalkIsFine
  <2>12. WalkIsFine(x, "publish", documents, disk)
    BY <2>5, <2>7, <2>9, <2>10, <2>11 DEF WalkIsFine, Index!Walking
  <2>13. CallIsFine(t, "publish", observed[t], indexAnswer[t], refreshLock', generation)
    BY <1>2, <1>6 DEF CallIsFine, Index!Walking
  <2>14. refreshLock' = refreshLock /\ stage' = [stage EXCEPT ![t] = "publish"]
    BY <1>6
  <2> QED BY <1>4, <2>8, <2>12, <2>13, <2>14, RefresherStep
<1> QED BY <1>1, <1>5, <1>6 DEF Index!Embed

LEMMA PublishKeeps == ASSUME IndexParts, NEW t \in Refreshers, Index!Publish(t) PROVE IndexParts'
<1>1. PICK w : w = walk[t]
  OBVIOUS
<1>2. /\ stage[t] = "publish" /\ WalkIsFine(w, "publish", documents, disk) /\ refreshLock = t
      /\ CallIsFine(t, "publish", observed[t], indexAnswer[t], refreshLock, generation)
  BY <1>1 DEF IndexParts, Index!Publish, CallIsFine, Index!Walking
<1>3. /\ documents' = w.docs /\ indexedBytes' = w.bytes /\ indexReady' = TRUE /\ generation' = generation + 1
      /\ generation \in Nat /\ w \in Index!Walk /\ refreshLock' = Index!Nobody
      /\ UNCHANGED <<disk, observed, spc, snapshot, found, calls, writes>>
  BY <1>1, <1>2 DEF Index!Publish, IndexParts, PublishedIsFine, WalkIsFine, Index!Return, Index!search
<1>4. PublishedIsFine'
  BY <1>2, <1>3 DEF PublishedIsFine, WalkIsFine, Index!Walk
<1>5. FilesAreFine'
  <2>1. ASSUME NEW f \in Index!Files PROVE Index!Current(w.docs, disk, f, disk[f].version)
    <3>1. disk[f].version \in 0..MaxWrites
      BY DEF IndexParts, FilesAreFine
    <3>2. \A i \in 1..Len(w.docs) : w.docs[i].version <= disk[w.docs[i].path].version
      BY <1>2 DEF WalkIsFine, Index!Current
    <3> QED BY <3>1, <3>2, IndexConstants DEF Index!Current
  <2> QED BY <1>3, <2>1 DEF IndexParts, FilesAreFine
<1>6. Index!NewWalk \in Index!Walk
  BY NewWalkIsFine DEF WalkIsFine
<1>7. RefreshTypes' /\ SearchTypes'
  BY <1>3, <1>6 DEF IndexParts, RefreshTypes, SearchTypes, Index!Publish, Index!Return
<1>8. ASSUME NEW q \in Refreshers
      PROVE  /\ WalkIsFine(walk[q], stage[q], documents, disk)'
             /\ CallIsFine(q, stage[q], observed[q], indexAnswer[q], refreshLock, generation)'
  <2>1. CASE q = t
    <3>1. walk'[q] = Index!NewWalk /\ stage'[q] = "idle" /\ observed'[q] = observed[t] /\ indexAnswer'[q] = "stats"
      BY <1>3, <2>1 DEF IndexParts, RefreshTypes, Index!Publish, Index!Return
    <3>2. CallIsFine(q, "idle", observed[t], "stats", refreshLock', generation')
      BY <1>2, <1>3 DEF CallIsFine, Index!Walking
    <3> QED BY <3>1, <3>2, NewWalkIsFine
  <2>2. CASE q # t
    <3>1. walk'[q] = walk[q] /\ stage'[q] = stage[q] /\ observed'[q] = observed[q] /\ indexAnswer'[q] = indexAnswer[q]
      BY <1>3, <2>2 DEF IndexParts, RefreshTypes, Index!Publish, Index!Return
    <3>2. stage[q] \notin Index!Walking
      BY <1>2, <2>2, OneWalks
    <3>3. stage[q] \in {"idle", "called"} /\ walk[q] = Index!NewWalk
      BY <3>2 DEF IndexParts, RefreshTypes, WalkIsFine, Index!Walking
    <3>4. CallIsFine(q, stage[q], observed[q], indexAnswer[q], refreshLock, generation)
      BY DEF IndexParts
    <3>5. CallIsFine(q, stage[q], observed[q], indexAnswer[q], refreshLock', generation')
      BY <1>3, <3>2, <3>4 DEF CallIsFine
    <3> QED BY <3>1, <3>3, <3>5, NewWalkIsFine
  <2> QED BY <2>1, <2>2
<1>9. ASSUME NEW s \in Searchers PROVE SearchIsFine(spc[s], snapshot[s], found[s])'
  BY <1>3 DEF IndexParts
<1> QED BY <1>4, <1>5, <1>7, <1>8, <1>9 DEF IndexParts

\* Files only get newer.
LEMMA WriteKeeps == ASSUME IndexParts, NEW f \in Index!Files, Index!Write(f) PROVE IndexParts'
<1>1. PICK size \in Sizes \cup {Index!NoFile} :
         disk' = [disk EXCEPT ![f] = [size |-> size, version |-> disk[f].version + 1]]
  BY DEF Index!Write, IndexParts, FilesAreFine
<1>2. /\ writes' = writes + 1 /\ writes' \in 0..MaxWrites /\ writes \in Nat
      /\ UNCHANGED <<documents, indexedBytes, indexReady, generation, refreshLock, stage, observed, walk,
                     indexAnswer, spc, snapshot, found, calls>>
  BY IndexConstants DEF Index!Write, IndexParts, FilesAreFine, Index!index, Index!refresh, Index!search
<1>3. ASSUME NEW g \in Index!Files
      PROVE  /\ disk[g].version \in Nat /\ disk'[g].version \in Nat
             /\ disk[g].version <= disk'[g].version /\ disk'[g].version <= writes'
             /\ disk'[g].size \in Sizes \cup {Index!NoFile}
  <2>1. disk[g].version \in 0..MaxWrites /\ disk[g].size \in Sizes \cup {Index!NoFile} /\ disk[g].version <= writes
    BY DEF IndexParts, FilesAreFine
  <2>2. CASE g = f
    <3>1. disk'[g] = [size |-> size, version |-> disk[g].version + 1]
      BY <1>1, <2>2 DEF IndexParts, FilesAreFine
    <3> QED BY <1>2, <2>1, <3>1, IndexConstants
  <2>3. CASE g # f
    <3>1. disk'[g] = disk[g]
      BY <1>1, <2>3 DEF IndexParts, FilesAreFine
    <3> QED BY <1>2, <2>1, <3>1, IndexConstants
  <2> QED BY <2>2, <2>3
<1>4. ASSUME NEW path \in Index!Files, NEW version \in Nat, Index!Current(documents, disk, path, version)
      PROVE  Index!Current(documents, disk', path, version)
  BY <1>3, <1>4 DEF Index!Current
<1>5. FilesAreFine'
  <2>1. disk' \in [Index!Files -> [size : Sizes \cup {Index!NoFile}, version : 0..MaxWrites]]
    <3>1. disk[f].version + 1 \in 0..MaxWrites
      <4>1. disk'[f].version = disk[f].version + 1
        BY <1>1 DEF IndexParts, FilesAreFine
      <4> QED BY <1>2, <1>3, <4>1, IndexConstants
    <3> QED BY <1>1, <3>1 DEF IndexParts, FilesAreFine
  <2>2. ASSUME NEW g \in Index!Files PROVE Index!Current(documents, disk', g, disk'[g].version)
    <3>1. Index!Current(documents, disk, g, disk[g].version)
      BY DEF IndexParts, FilesAreFine
    <3>2. \A i \in 1..Len(documents) : documents[i].path = g => documents[i].version \in Nat
      <4>1. \A i \in 1..Len(documents) : documents[i] \in Index!Document
        BY DEF IndexParts, PublishedIsFine
      <4> QED BY <4>1, IndexConstants DEF Index!Document
    <3> QED BY <1>3, <3>1, <3>2 DEF Index!Current
  <2> QED BY <1>2, <1>3, <2>1, <2>2 DEF IndexParts, FilesAreFine
<1>6. PublishedIsFine' /\ RefreshTypes' /\ SearchTypes'
  BY <1>2 DEF IndexParts, PublishedIsFine, RefreshTypes, SearchTypes
<1>7. ASSUME NEW t \in Refreshers
      PROVE  /\ WalkIsFine(walk[t], stage[t], documents, disk)'
             /\ CallIsFine(t, stage[t], observed[t], indexAnswer[t], refreshLock, generation)'
  <2>1. WalkIsFine(walk[t], stage[t], documents, disk)
    BY DEF IndexParts
  <2>2. /\ walk[t].docs \in Seq(Index!Document) /\ walk[t].version \in Nat
        /\ walk[t].path \in 1..(NumFiles + 1)
    BY <2>1, IndexConstants DEF WalkIsFine, Index!Walk
  <2>3. ASSUME NEW j \in 1..Len(walk[t].docs) PROVE Index!Current(documents, disk', walk[t].docs[j].path, walk[t].docs[j].version)
    <3>1. walk[t].docs[j] \in Index!Document
      BY <2>2
    <3>2. walk[t].docs[j].path \in Index!Files /\ walk[t].docs[j].version \in Nat
      BY <3>1, IndexConstants DEF Index!Document
    <3> QED BY <1>4, <2>1, <3>2 DEF WalkIsFine
  <2>4. stage[t] = "stat" => Index!Current(documents, disk', walk[t].path, walk[t].version)
    <3>1. stage[t] = "stat" => walk[t].path \in Index!Files
      BY <2>1, <2>2, IndexConstants DEF WalkIsFine, Index!Files
    <3> QED BY <1>4, <2>1, <2>2, <3>1 DEF WalkIsFine
  <2>5. WalkIsFine(walk[t], stage[t], documents, disk')
    BY <2>1, <2>3, <2>4 DEF WalkIsFine
  <2> QED BY <1>2, <2>5 DEF IndexParts
<1>8. ASSUME NEW s \in Searchers PROVE SearchIsFine(spc[s], snapshot[s], found[s])'
  BY <1>2 DEF IndexParts
<1> QED BY <1>5, <1>6, <1>7, <1>8 DEF IndexParts

\* A step of searcher s alone.
LEMMA SearcherStep ==
    ASSUME IndexParts, NEW s \in Searchers, NEW st, NEW docs, NEW what,
           spc' = [spc EXCEPT ![s] = st], snapshot' = [snapshot EXCEPT ![s] = docs],
           found' = [found EXCEPT ![s] = what], SearchIsFine(st, docs, what),
           UNCHANGED <<disk, documents, indexedBytes, indexReady, generation, refreshLock, stage, observed, walk,
                       indexAnswer, calls, writes>>
    PROVE  IndexParts'
<1>1. PublishedIsFine' /\ FilesAreFine' /\ RefreshTypes'
  BY DEF IndexParts, PublishedIsFine, FilesAreFine, RefreshTypes
<1>2. SearchTypes'
  BY DEF IndexParts, SearchTypes, SearchIsFine
<1>3. ASSUME NEW q \in Searchers PROVE SearchIsFine(spc[q], snapshot[q], found[q])'
  <2>1. CASE q = s
    <3>1. spc'[q] = st /\ snapshot'[q] = docs /\ found'[q] = what
      BY <2>1 DEF IndexParts, SearchTypes
    <3> QED BY <3>1
  <2>2. CASE q # s
    <3>1. spc'[q] = spc[q] /\ snapshot'[q] = snapshot[q] /\ found'[q] = found[q]
      BY <2>2 DEF IndexParts, SearchTypes
    <3> QED BY <3>1 DEF IndexParts
  <2> QED BY <2>1, <2>2
<1> QED BY <1>1, <1>2, <1>3 DEF IndexParts

LEMMA FoundIsFine ==
    ASSUME NEW what \in {"none", "hits", "empty", "409", "503"} PROVE SearchIsFine("idle", <<>>, what)
<1>1. <<>> \in Seq(Index!Document) /\ Len(<<>>) = 0 /\ 1..0 = {}
  OBVIOUS
<1> QED BY <1>1 DEF SearchIsFine, Index!OneLength

LEMMA SearchKeeps == ASSUME IndexParts, NEW s \in Searchers, Index!Search(s) PROVE IndexParts'
<1>1. UNCHANGED <<disk, documents, indexedBytes, indexReady, generation, refreshLock, stage, observed, walk,
                  indexAnswer, calls, writes>>
  BY DEF Index!Search, Index!index, Index!refresh
<1>2. ASSUME NEW what \in {"409", "empty"}, Index!Found(s, what) PROVE IndexParts'
  BY <1>1, <1>2, FoundIsFine, SearcherStep DEF Index!Found
<1>3. CASE indexReady /\ documents # <<>>
  <2>1. SearchIsFine("ranking", documents, "none")
    BY <1>3 DEF IndexParts, PublishedIsFine, SearchIsFine
  <2>2. /\ spc' = [spc EXCEPT ![s] = "ranking"] /\ snapshot' = [snapshot EXCEPT ![s] = documents]
        /\ found' = [found EXCEPT ![s] = "none"]
    BY <1>3 DEF Index!Search
  <2> QED BY <1>1, <2>1, <2>2, SearcherStep
<1> QED BY <1>2, <1>3 DEF Index!Search

LEMMA RankKeeps == ASSUME IndexParts, NEW s \in Searchers, Index!Rank(s) PROVE IndexParts'
<1>1. UNCHANGED <<disk, documents, indexedBytes, indexReady, generation, refreshLock, stage, observed, walk,
                  indexAnswer, calls, writes>>
  BY DEF Index!Rank, Index!index, Index!refresh
<1>2. PICK docs \in Seq(Index!Document) : docs = snapshot[s] /\ Index!OneLength(docs) /\ docs # <<>>
  BY DEF IndexParts, SearchIsFine, Index!Rank
<1>3. 1 \in 1..Len(docs)
  BY <1>2
<1>4. PICK what \in {"503", "hits"} : Index!Found(s, what)
  <2>1. ASSUME NEW dims, dims = docs[1].dims PROVE ~\E i \in 1..Len(docs) : docs[i].dims # dims
    BY <1>2, <1>3, <2>1 DEF Index!OneLength
  <2> QED BY <1>2, <2>1 DEF Index!Rank
<1> QED BY <1>1, <1>4, FoundIsFine, SearcherStep DEF Index!Found

LEMMA IndexNext == IndexParts /\ [Index!Next]_indexVars => IndexParts'
<1> SUFFICES ASSUME IndexParts, [Index!Next]_indexVars PROVE IndexParts'
  OBVIOUS
<1>1. CASE UNCHANGED indexVars
  <2>1. PublishedIsFine' /\ FilesAreFine' /\ RefreshTypes' /\ SearchTypes'
    BY <1>1 DEF indexVars, IndexParts, PublishedIsFine, FilesAreFine, RefreshTypes, SearchTypes
  <2> QED BY <1>1, <2>1 DEF indexVars, IndexParts
<1>2. CASE \E f \in Index!Files : Index!Write(f)
  BY <1>2, WriteKeeps
<1>3. CASE \E t \in Refreshers : Index!Refresh(t) \/ Index!Working(t)
  BY <1>3, RefreshKeeps, EnterKeeps, VisitKeeps, StatKeeps, EmbedKeeps, PublishKeeps DEF Index!Working
<1>4. CASE \E s \in Searchers : Index!Search(s) \/ Index!Rank(s)
  BY <1>4, SearchKeeps, RankKeeps
<1> QED BY <1>1, <1>2, <1>3, <1>4 DEF Index!Next

\* Only Publish changes the index, to what its walk has read since the lock was
\* taken.
LEMMA IndexGoesForward ==
    ASSUME IndexParts, [Index!Next]_indexVars,
           NEW i \in 1..Len(documents), NEW j \in 1..Len(documents'), documents[i].path = documents'[j].path
    PROVE  documents[i].version <= documents'[j].version
<1>1. CASE UNCHANGED documents
  <2>1. i = j
    BY <1>1 DEF IndexParts, PublishedIsFine, Index!PathsDiffer
  <2>2. documents[i] \in Index!Document
    BY DEF IndexParts, PublishedIsFine
  <2>3. documents[i].version \in Nat
    BY <2>2, IndexConstants DEF Index!Document
  <2> QED BY <1>1, <2>1, <2>3
<1>2. ASSUME NEW t \in Refreshers, Index!Publish(t) PROVE documents[i].version <= documents'[j].version
  <2>1. documents' = walk[t].docs
    BY <1>2 DEF Index!Publish
  <2>2. Index!Current(documents, disk, walk[t].docs[j].path, walk[t].docs[j].version)
    BY <2>1 DEF IndexParts, WalkIsFine
  <2> QED BY <2>1, <2>2 DEF Index!Current
<1> QED BY <1>1, <1>2 DEF indexVars, Index!Next, Index!Working, Index!Write, Index!Refresh, Index!Enter,
           Index!Visit, Index!Stat, Index!Embed, Index!Search, Index!Rank, Index!index

-----------------------------------------------------------------------------
(* Sandbox *)

LEMMA SandboxConstants ==
    /\ Timeouts \subseteq Nat /\ Caps \subseteq Nat /\ MaxOutput \in Nat
    /\ PipeSize \in Nat \ {0} /\ ChunkSize \in Nat \ {0}
  BY NodeConstants DEF Exec!SandboxAssumption

\* What the invariant says of one stream: w bytes are written, k is kept, g is with
\* the reader and p in the pipe.
StreamIsFine(k, g, p, w) ==
    /\ k \in Seq(Exec!Bytes) /\ g \in Seq(Exec!Bytes) /\ p \in Seq(Exec!Bytes) /\ w \in 0..MaxOutput
    /\ Len(g) <= ChunkSize /\ Len(p) <= PipeSize
    /\ Len(k) + Len(g) + Len(p) <= w
    /\ \A i \in 1..Len(p) : p[i] + Len(p) = w + i
    /\ \A i \in 1..Len(g) : g[i] + Len(g) + Len(p) = w + i
    /\ \A i \in 1..Len(k) : k[i] = i
Lost(k, g, p, w) == w - (Len(k) + Len(g) + Len(p))

\* The arithmetic of the steps below.
LEMMA Positions ==
    ASSUME NEW b \in Nat, NEW l \in Nat, NEW m \in Nat, NEW w \in Nat, NEW i \in Nat, NEW a \in Nat,
           w = a + l + m, b + l + m = w + (i - a)
    PROVE  b = i
  OBVIOUS

LEMMA StreamBytes ==
    ASSUME NEW k, NEW g, NEW p, NEW w, StreamIsFine(k, g, p, w)
    PROVE  /\ Len(k) \in Nat /\ Len(g) \in Nat /\ Len(p) \in Nat /\ w \in Nat
           /\ Len(k) + Len(g) + Len(p) <= w
           /\ \A i \in 1..Len(p) : p[i] \in Nat /\ p[i] + Len(p) = w + i
           /\ \A i \in 1..Len(g) : g[i] \in Nat /\ g[i] + Len(g) + Len(p) = w + i
<1>1. \A s \in Seq(Exec!Bytes) : Len(s) \in Nat /\ \A i \in 1..Len(s) : s[i] \in Exec!Bytes
  OBVIOUS
<1>2. Exec!Bytes \subseteq Nat /\ 0..MaxOutput \subseteq Nat
  BY SandboxConstants DEF Exec!Bytes
<1> QED BY <1>1, <1>2 DEF StreamIsFine

LEMMA StreamWrites ==
    ASSUME NEW k, NEW g, NEW p, NEW w, StreamIsFine(k, g, p, w), w < MaxOutput, Len(p) < PipeSize
    PROVE  /\ StreamIsFine(k, g, Append(p, w + 1), w + 1)
           /\ Lost(k, g, Append(p, w + 1), w + 1) = Lost(k, g, p, w)
<1>1. /\ k \in Seq(Exec!Bytes) /\ g \in Seq(Exec!Bytes) /\ p \in Seq(Exec!Bytes) /\ w \in Nat
      /\ Len(k) \in Nat /\ Len(g) \in Nat /\ Len(p) \in Nat /\ w + 1 \in 0..MaxOutput
  BY SandboxConstants DEF StreamIsFine
<1>2. w + 1 \in Exec!Bytes
  BY <1>1, SandboxConstants DEF Exec!Bytes
<1>3. /\ Append(p, w + 1) \in Seq(Exec!Bytes) /\ Len(Append(p, w + 1)) = Len(p) + 1
      /\ Append(p, w + 1)[Len(p) + 1] = w + 1
      /\ \A i \in 1..Len(p) : Append(p, w + 1)[i] = p[i]
  BY <1>1, <1>2, AppendProperties
<1>4. ASSUME NEW i \in 1..(Len(p) + 1) PROVE Append(p, w + 1)[i] + (Len(p) + 1) = (w + 1) + i
  <2>1. CASE i = Len(p) + 1
    BY <1>1, <1>3, <2>1
  <2>2. CASE i \in 1..Len(p)
    <3>1. PICK b \in Nat, l \in Nat : b = p[i] /\ l = Len(p) /\ b + l = w + i
      BY <2>2, StreamBytes
    <3>2. Append(p, w + 1)[i] = b
      BY <1>3, <2>2, <3>1
    <3>3. w \in Nat /\ i \in Nat
      BY <1>1
    <3>4. b + (l + 1) = (w + 1) + i
      BY <3>1, <3>3
    <3> QED BY <3>1, <3>2, <3>4
  <2> QED BY <1>1, <2>1, <2>2
<1>5. ASSUME NEW i \in 1..Len(g) PROVE g[i] + Len(g) + (Len(p) + 1) = (w + 1) + i
  <2>1. PICK b \in Nat, l \in Nat, m \in Nat : b = g[i] /\ l = Len(g) /\ m = Len(p) /\ b + l + m = w + i
    BY StreamBytes
  <2>2. w \in Nat /\ i \in Nat
    BY <1>1
  <2>3. b + l + (m + 1) = (w + 1) + i
    BY <2>1, <2>2
  <2> QED BY <2>1, <2>3
<1>6. Len(k) + Len(g) + (Len(p) + 1) <= w + 1 /\ Len(p) + 1 <= PipeSize
  BY <1>1, SandboxConstants DEF StreamIsFine
<1>7. Lost(k, g, Append(p, w + 1), w + 1) = Lost(k, g, p, w)
  BY <1>1, <1>3 DEF Lost
<1> QED BY <1>1, <1>3, <1>4, <1>5, <1>6, <1>7 DEF StreamIsFine

LEMMA StreamGathers ==
    ASSUME NEW k, NEW g, NEW p, NEW w, StreamIsFine(k, g, p, w), p # <<>>, Len(g) < ChunkSize
    PROVE  /\ StreamIsFine(k, Append(g, Head(p)), Tail(p), w)
           /\ Lost(k, Append(g, Head(p)), Tail(p), w) = Lost(k, g, p, w)
<1>1. /\ k \in Seq(Exec!Bytes) /\ g \in Seq(Exec!Bytes) /\ p \in Seq(Exec!Bytes) /\ w \in Nat
      /\ Len(k) \in Nat /\ Len(g) \in Nat /\ Len(p) \in Nat /\ w \in 0..MaxOutput
  BY SandboxConstants DEF StreamIsFine
<1>2. PICK h \in Exec!Bytes : h = Head(p) /\ h = p[1]
  BY <1>1
<1>3. /\ Tail(p) \in Seq(Exec!Bytes) /\ Len(Tail(p)) = Len(p) - 1 /\ Len(p) >= 1
      /\ \A i \in 1..(Len(p) - 1) : Tail(p)[i] = p[i + 1]
  BY <1>1
<1>4. /\ Append(g, h) \in Seq(Exec!Bytes) /\ Len(Append(g, h)) = Len(g) + 1
      /\ Append(g, h)[Len(g) + 1] = h /\ \A i \in 1..Len(g) : Append(g, h)[i] = g[i]
  BY <1>1, <1>2, AppendProperties
<1>5. h \in Nat /\ h + Len(p) = w + 1
  BY <1>1, <1>2, <1>3, SandboxConstants DEF StreamIsFine, Exec!Bytes
<1>6. ASSUME NEW i \in 1..(Len(p) - 1) PROVE Tail(p)[i] + (Len(p) - 1) = w + i
  <2>1. i + 1 \in 1..Len(p)
    BY <1>1
  <2>2. p[i + 1] \in Nat /\ p[i + 1] + Len(p) = w + (i + 1)
    BY <1>1, <2>1, SandboxConstants DEF StreamIsFine, Exec!Bytes
  <2> QED BY <1>1, <1>3, <2>2
<1>7. ASSUME NEW i \in 1..(Len(g) + 1) PROVE Append(g, h)[i] + (Len(g) + 1) + (Len(p) - 1) = w + i
  <2>a. PICK l \in Nat, m \in Nat : l = Len(g) /\ m = Len(p)
    BY <1>1
  <2>b. w \in Nat /\ i \in Nat
    BY <1>1
  <2>1. CASE i = Len(g) + 1
    <3>1. h + (l + 1) + (m - 1) = w + (l + 1)
      BY <1>5, <2>a, <2>b
    <3> QED BY <1>4, <2>1, <2>a, <3>1
  <2>2. CASE i \in 1..Len(g)
    <3>0. g[i] \in Nat /\ g[i] + Len(g) + Len(p) = w + i
      BY <2>2, StreamBytes
    <3>1. PICK b \in Nat : b = g[i] /\ b + l + m = w + i
      BY <2>a, <3>0
    <3>2. Append(g, h)[i] = b
      BY <1>4, <2>2, <3>1
    <3>3. b + (l + 1) + (m - 1) = w + i
      <4>1. PICK v \in Nat, x \in Nat : v = w /\ x = i
        BY <2>b
      <4>2. b + l + m = v + x
        BY <3>1, <4>1
      <4>3. b + (l + 1) + (m - 1) = v + x
        BY <4>2
      <4> QED BY <4>1, <4>3
    <3> QED BY <2>a, <3>2, <3>3
  <2> QED BY <1>1, <2>1, <2>2
<1>8. /\ Len(k) + (Len(g) + 1) + (Len(p) - 1) <= w /\ Len(g) + 1 <= ChunkSize /\ Len(p) - 1 <= PipeSize
  BY <1>1, SandboxConstants DEF StreamIsFine
<1>9. Lost(k, Append(g, h), Tail(p), w) = Lost(k, g, p, w)
  BY <1>1, <1>3, <1>4 DEF Lost
<1>10. StreamIsFine(k, Append(g, h), Tail(p), w)
  BY <1>1, <1>3, <1>4, <1>6, <1>7, <1>8 DEF StreamIsFine
<1> QED BY <1>2, <1>9, <1>10

\* How much of a chunk fits, and what is kept with it.
Fitting(g, room) == IF Len(g) <= room THEN Len(g) ELSE room
Taken(k, g, room) == k \o Exec!CutChunk(g, room)

\* Bytes are taken while none are lost, or there is no room.
LEMMA StreamCollects ==
    ASSUME NEW k, NEW g, NEW p, NEW w, StreamIsFine(k, g, p, w),
           NEW room \in Nat, room = 0 \/ Lost(k, g, p, w) = 0,
           NEW n \in Nat, n = Fitting(g, room), NEW more, more = Taken(k, g, room)
    PROVE  /\ StreamIsFine(more, <<>>, p, w) /\ Len(more) = Len(k) + n
           /\ Lost(more, <<>>, p, w) = Lost(k, g, p, w) + (Len(g) - n)
           /\ Lost(k, g, p, w) \in Nat
<1>1. /\ k \in Seq(Exec!Bytes) /\ g \in Seq(Exec!Bytes) /\ p \in Seq(Exec!Bytes) /\ w \in Nat
      /\ Len(k) \in Nat /\ Len(g) \in Nat /\ Len(p) \in Nat /\ w \in 0..MaxOutput
      /\ n <= Len(g) /\ n <= room
  BY SandboxConstants DEF StreamIsFine, Fitting
<1>2. PICK cut : cut = SubSeq(g, 1, n)
  OBVIOUS
<1>3. Exec!CutChunk(g, room) = cut
  BY <1>2 DEF Exec!CutChunk, Fitting
<1>4. cut \in Seq(Exec!Bytes) /\ Len(cut) = n /\ \A i \in 1..n : cut[i] = g[i]
  <2>1. \A i \in 1..n : i \in 1..Len(g) /\ g[i] \in Exec!Bytes
    BY <1>1
  <2>2. n < 1 \/ n \in 1..Len(g)
    BY <1>1
  <2> QED BY <1>1, <1>2, <2>1, <2>2, SubSeqProperties
<1>5. /\ more \in Seq(Exec!Bytes) /\ Len(more) = Len(k) + n
      /\ \A i \in 1..(Len(k) + n) : more[i] = IF i <= Len(k) THEN k[i] ELSE cut[i - Len(k)]
  <2>1. /\ k \o cut \in Seq(Exec!Bytes) /\ Len(k \o cut) = Len(k) + Len(cut)
        /\ \A i \in 1..(Len(k) + Len(cut)) : (k \o cut)[i] = IF i <= Len(k) THEN k[i] ELSE cut[i - Len(k)]
    BY <1>1, <1>4, ConcatProperties
  <2>2. more = k \o cut
    BY <1>3 DEF Taken
  <2> QED BY <1>4, <2>1, <2>2
<1>6. ASSUME NEW i \in 1..(Len(k) + n) PROVE more[i] = i
  <2>1. CASE i <= Len(k)
    <3>1. i \in 1..Len(k)
      BY <1>1, <2>1
    <3> QED BY <1>5, <2>1, <3>1 DEF StreamIsFine
  <2>2. CASE ~(i <= Len(k))
    <3>0. PICK a \in Nat, l \in Nat, m \in Nat : a = Len(k) /\ l = Len(g) /\ m = Len(p)
      BY <1>1
    <3>a. i \in Nat /\ i <= a + n /\ a < i
      BY <1>1, <2>2, <3>0
    <3>1. PICK j \in 1..n : j = i - a
      <4>1. i - a \in 1..n
        BY <3>a
      <4> QED BY <4>1
    <3>2. j \in 1..Len(g) /\ more[i] = g[j]
      <4>1. j \in 1..l
        BY <1>1, <3>0, <3>1
      <4>2. more[i] = cut[j]
        BY <1>5, <2>2, <3>0, <3>1
      <4> QED BY <1>4, <3>0, <3>1, <4>1, <4>2
    <3>b. g[j] \in Nat /\ g[j] + Len(g) + Len(p) = w + j
      BY <3>2, StreamBytes
    <3>3. PICK b \in Nat : b = g[j] /\ b + l + m = w + j
      BY <3>0, <3>b
    <3>4. w = a + l + m
      <4>1. room # 0
        BY <1>1, <3>1
      <4>2. w - (a + l + m) = 0
        BY <3>0, <4>1 DEF Lost
      <4> QED BY <1>1, <3>0, <4>2
    <3>5. b = i
      <4>1. w \in Nat /\ b + l + m = w + (i - a)
        BY <1>1, <3>1, <3>3
      <4> QED BY <3>a, <3>4, <4>1, Positions
    <3> QED BY <3>2, <3>3, <3>5
  <2> QED BY <2>1, <2>2
<1>7. <<>> \in Seq(Exec!Bytes) /\ Len(<<>>) = 0 /\ 1..0 = {} /\ 0 <= ChunkSize
  BY SandboxConstants
<1>8. /\ Len(k) + Len(g) + Len(p) <= w /\ Len(p) <= PipeSize /\ \A i \in 1..Len(p) : p[i] + Len(p) = w + i
  BY DEF StreamIsFine
<1>9. (Len(k) + n) + 0 + Len(p) <= w
  BY <1>1, <1>8
<1>10. StreamIsFine(more, <<>>, p, w)
  BY <1>1, <1>5, <1>6, <1>7, <1>8, <1>9 DEF StreamIsFine
<1>11. /\ Lost(more, <<>>, p, w) = Lost(k, g, p, w) + (Len(g) - n) /\ Lost(k, g, p, w) \in Nat
  <2>1. PICK a \in Nat, l \in Nat, m \in Nat : a = Len(k) /\ l = Len(g) /\ m = Len(p) /\ a + l + m <= w
    BY <1>1, <1>8
  <2>2. Lost(k, g, p, w) = w - (a + l + m) /\ Lost(more, <<>>, p, w) = w - ((a + n) + 0 + m)
    BY <1>5, <1>7, <2>1 DEF Lost
  <2>3. /\ w - ((a + n) + 0 + m) = (w - (a + l + m)) + (l - n) /\ w - (a + l + m) \in Nat
    <3>1. w \in Nat /\ a + l + m <= w
      BY <1>1, <2>1
    <3> QED BY <3>1
  <2> QED BY <2>1, <2>2, <2>3
<1> QED BY <1>5, <1>10, <1>11

ExecTypes ==
    /\ execution \in {"idle", "waits", "kills", "joins", "done"} /\ request \in Exec!Request
    /\ child \in {"none", "runs", "exited"}
    /\ plan \in [amount : [Exec!Streams -> 0..MaxOutput], ends : BOOLEAN]
    /\ reader \in [Exec!Streams -> {"none", "reads", "done"}]
    /\ truncated \in BOOLEAN /\ timedOut \in BOOLEAN
    /\ execAnswer \in {"none", "ok", "not ok", "422", "503"}
    /\ audit \in Seq({"refused", "failed", "timed_out", "completed"})
StreamTypes ==
    /\ written \in [Exec!Streams -> 0..MaxOutput]
    /\ pipe \in [Exec!Streams -> Seq(Exec!Bytes)] /\ gathered \in [Exec!Streams -> Seq(Exec!Bytes)]
    /\ kept \in [Exec!Streams -> Seq(Exec!Bytes)]
LostOf(s) == Lost(kept[s], gathered[s], pipe[s], written[s])
StreamsAreFine ==
    /\ StreamTypes
    /\ \A s \in Exec!Streams : StreamIsFine(kept[s], gathered[s], pipe[s], written[s])
KeptInAll == Len(kept["stdout"]) + Len(kept["stderr"])
CapIsKept ==
    /\ KeptInAll <= request.cap
    /\ IF truncated THEN KeptInAll = request.cap /\ \E s \in Exec!Streams : LostOf(s) > 0
       ELSE \A s \in Exec!Streams : LostOf(s) = 0

SandboxParts ==
    /\ ExecTypes /\ StreamsAreFine /\ CapIsKept
    /\ Exec!StepsAgree /\ Exec!AnsweredIsOver

LEMMA CapIsNumber == ExecTypes => request.cap \in Nat
  BY SandboxConstants DEF ExecTypes, Exec!Request

LEMMA KeptIsNumber ==
    ASSUME StreamsAreFine
    PROVE  /\ "stdout" \in Exec!Streams /\ "stderr" \in Exec!Streams
           /\ Len(kept["stdout"]) \in Nat /\ Len(kept["stderr"]) \in Nat
           /\ \A s \in Exec!Streams : /\ Len(kept[s]) \in Nat /\ Len(gathered[s]) \in Nat
                                      /\ Len(pipe[s]) \in Nat /\ written[s] \in Nat
<1>1. "stdout" \in Exec!Streams /\ "stderr" \in Exec!Streams
  BY DEF Exec!Streams
<1>2. \A s \in Exec!Streams : /\ Len(kept[s]) \in Nat /\ Len(gathered[s]) \in Nat
                              /\ Len(pipe[s]) \in Nat /\ written[s] \in Nat
  BY StreamBytes DEF StreamsAreFine
<1> QED BY <1>1, <1>2

LEMMA SandboxByParts == SandboxParts => Exec!SandboxInvariant
<1> SUFFICES ASSUME SandboxParts PROVE Exec!SandboxInvariant
  OBVIOUS
<1>1. /\ ExecTypes /\ StreamTypes /\ CapIsKept /\ Exec!StepsAgree /\ Exec!AnsweredIsOver
      /\ \A s \in Exec!Streams : StreamIsFine(kept[s], gathered[s], pipe[s], written[s])
  BY DEF SandboxParts, StreamsAreFine
<1>2. /\ "stdout" \in Exec!Streams /\ Len(kept["stdout"]) \in Nat /\ Len(kept["stderr"]) \in Nat
      /\ \A s \in Exec!Streams : /\ Len(kept[s]) \in Nat /\ Len(gathered[s]) \in Nat
                                 /\ Len(pipe[s]) \in Nat /\ written[s] \in Nat
  BY KeptIsNumber DEF SandboxParts
<1>3. request.cap \in Nat
  BY <1>1, CapIsNumber
<1>4. Exec!TypeOK
  <2>1. \A s \in Exec!Streams : Len(pipe[s]) <= PipeSize /\ Len(gathered[s]) <= ChunkSize
    BY <1>1 DEF StreamIsFine
  <2> QED BY <1>1, <2>1 DEF ExecTypes, StreamTypes, CapIsKept, KeptInAll, Exec!TypeOK
<1>5. ASSUME NEW s \in Exec!Streams
      PROVE  /\ Len(kept[s]) + Exec!InTransit(s) <= written[s]
             /\ LostOf(s) = 0 <=> Len(kept[s]) + Exec!InTransit(s) = written[s]
             /\ LostOf(s) > 0 <=> Len(kept[s]) + Exec!InTransit(s) < written[s]
  <2>1. PICK a \in Nat, l \in Nat, m \in Nat, w \in Nat :
           a = Len(kept[s]) /\ l = Len(gathered[s]) /\ m = Len(pipe[s]) /\ w = written[s]
    BY <1>2
  <2>2. a + l + m <= w
    BY <1>1, <2>1 DEF StreamIsFine
  <2>3. LostOf(s) = w - (a + l + m) /\ Exec!InTransit(s) = l + m
    BY <2>1 DEF LostOf, Lost, Exec!InTransit
  <2>4. /\ a + (l + m) <= w
        /\ w - (a + l + m) = 0 <=> a + (l + m) = w
        /\ w - (a + l + m) > 0 <=> a + (l + m) < w
    BY <2>2
  <2> QED BY <2>1, <2>3, <2>4
<1>6. Exec!BytesStayInOrder
  <2>1. ASSUME NEW s \in Exec!Streams
        PROVE  /\ \A i \in 1..Len(pipe[s]) : pipe[s][i] + Len(pipe[s]) = written[s] + i
               /\ \A i \in 1..Len(gathered[s]) : gathered[s][i] + Exec!InTransit(s) = written[s] + i
    <3>1. StreamIsFine(kept[s], gathered[s], pipe[s], written[s])
      BY <1>1
    <3>2. \A i \in 1..Len(gathered[s]) :
             gathered[s][i] \in Nat /\ gathered[s][i] + Len(gathered[s]) + Len(pipe[s]) = written[s] + i
      BY <3>1, StreamBytes
    <3>3. ASSUME NEW i \in 1..Len(gathered[s]) PROVE gathered[s][i] + Exec!InTransit(s) = written[s] + i
      <4>1. PICK b \in Nat, l \in Nat, m \in Nat : b = gathered[s][i] /\ l = Len(gathered[s]) /\ m = Len(pipe[s])
        BY <1>2, <3>2
      <4>2. b + l + m = b + (l + m)
        OBVIOUS
      <4>3. Exec!InTransit(s) = l + m /\ b + l + m = written[s] + i
        BY <3>2, <4>1 DEF Exec!InTransit
      <4> QED BY <4>1, <4>2, <4>3
    <3>4. \A i \in 1..Len(pipe[s]) : pipe[s][i] + Len(pipe[s]) = written[s] + i
      BY <3>1, StreamBytes
    <3> QED BY <3>3, <3>4
  <2>2. truncated => Exec!Remaining("stdout") = 0
    <3>1. PICK x \in Nat, y \in Nat, z \in Nat :
             x = Len(kept["stdout"]) /\ y = Len(kept["stderr"]) /\ z = request.cap
      BY <1>2, <1>3
    <3>2. truncated => x + y = z
      BY <1>1, <3>1 DEF CapIsKept, KeptInAll
    <3>3. Exec!Remaining("stdout") = z - (x + y)
      BY <3>1 DEF Exec!Remaining
    <3> QED BY <3>2, <3>3
  <2> QED BY <1>1, <1>5, <2>1, <2>2 DEF Exec!BytesStayInOrder, CapIsKept
<1>7. Exec!KeepsTheBeginning
  <2>1. ASSUME NEW s \in Exec!Streams PROVE kept[s] = [i \in 1..Len(kept[s]) |-> i]
    <3>1. kept[s] \in Seq(Exec!Bytes) /\ \A i \in 1..Len(kept[s]) : kept[s][i] = i
      BY <1>1 DEF StreamIsFine
    <3> QED BY <3>1
  <2> QED BY <2>1 DEF Exec!KeepsTheBeginning
<1>8. Exec!TruncatedIsTrue
  <2> SUFFICES ASSUME execution = "done", child # "none"
               PROVE  truncated <=> \E s \in Exec!Streams : Len(kept[s]) < written[s]
    BY DEF Exec!TruncatedIsTrue
  <2>1. ASSUME NEW s \in Exec!Streams PROVE Len(kept[s]) + Exec!InTransit(s) = Len(kept[s])
    <3>1. pipe[s] = <<>> /\ gathered[s] = <<>>
      BY <1>1 DEF Exec!StepsAgree, Exec!EndOfFile
    <3>2. Exec!InTransit(s) = 0
      BY <3>1 DEF Exec!InTransit
    <3> QED BY <1>2, <3>2
  <2>2. \A s \in Exec!Streams : LostOf(s) > 0 <=> Len(kept[s]) < written[s]
    BY <1>5, <2>1
  <2>3. \A s \in Exec!Streams : LostOf(s) = 0 => ~(Len(kept[s]) < written[s])
    BY <1>2, <1>5, <2>1
  <2> QED BY <1>1, <2>2, <2>3 DEF CapIsKept, ExecTypes
<1> QED BY <1>1, <1>4, <1>6, <1>7, <1>8 DEF Exec!SandboxInvariant

LEMMA SandboxInit == Exec!Init => SandboxParts
<1> SUFFICES ASSUME Exec!Init PROVE SandboxParts
  OBVIOUS
<1>1. <<>> \in Seq(Exec!Bytes) /\ Len(<<>>) = 0 /\ 1..0 = {} /\ 0 \in 0..MaxOutput
  BY SandboxConstants
<1>2. ExecTypes
  <2>1. <<>> \in Seq({"refused", "failed", "timed_out", "completed"})
    OBVIOUS
  <2> QED BY <2>1 DEF Exec!Init, ExecTypes
<1>3. StreamTypes
  BY <1>1 DEF Exec!Init, StreamTypes
<1>4. ASSUME NEW s \in Exec!Streams
      PROVE  kept[s] = <<>> /\ gathered[s] = <<>> /\ pipe[s] = <<>> /\ written[s] = 0
  BY DEF Exec!Init
<1>5. StreamIsFine(<<>>, <<>>, <<>>, 0) /\ Lost(<<>>, <<>>, <<>>, 0) = 0
  <2>1. PICK e : e = <<>>
    OBVIOUS
  <2>2. e \in Seq(Exec!Bytes) /\ Len(e) = 0 /\ 1..Len(e) = {} /\ 0 <= ChunkSize /\ 0 <= PipeSize
    BY <1>1, <2>1, SandboxConstants
  <2>3. StreamIsFine(e, e, e, 0) /\ Lost(e, e, e, 0) = 0
    BY <1>1, <2>2 DEF StreamIsFine, Lost
  <2> QED BY <2>1, <2>3
<1>6. StreamsAreFine
  BY <1>3, <1>4, <1>5 DEF StreamsAreFine
<1>7. CapIsKept
  <2>1. KeptInAll = 0 /\ request.cap \in Nat
    <3>1. Len(kept["stdout"]) = 0 /\ Len(kept["stderr"]) = 0
      BY <1>1, <1>4 DEF Exec!Streams
    <3> QED BY <1>2, <3>1, CapIsNumber DEF KeptInAll
  <2> QED BY <1>4, <1>5, <2>1 DEF CapIsKept, LostOf, Exec!Init
<1>8. Exec!StepsAgree /\ Exec!AnsweredIsOver
  BY <1>4 DEF Exec!Init, Exec!StepsAgree, Exec!AnsweredIsOver
<1> QED BY <1>2, <1>6, <1>7, <1>8 DEF SandboxParts

\* A step of execute or of the end of the command: the streams are left alone.
LEMMA ExecStep ==
    ASSUME SandboxParts, ExecTypes', Exec!StepsAgree', Exec!AnsweredIsOver',
           UNCHANGED <<request, written, pipe, gathered, kept, truncated>>
    PROVE  SandboxParts'
  BY DEF SandboxParts, StreamsAreFine, StreamTypes, CapIsKept, KeptInAll, LostOf

\* The log of an execution has one line, written last.
LEMMA FirstLine ==
    ASSUME audit = <<>>, NEW status \in {"refused", "failed", "timed_out", "completed"}, Exec!Audit(status)
    PROVE  /\ audit' \in Seq({"refused", "failed", "timed_out", "completed"})
           /\ Len(audit') = 1 /\ audit'[1] = status
<1>1. audit' = <<status>>
  BY DEF Exec!Audit
<1> QED BY <1>1

LEMMA ParentKeeps == SandboxParts /\ (Exec!Parent \/ Exec!Expire \/ Exec!ChildExits) => SandboxParts'
<1> SUFFICES ASSUME SandboxParts, Exec!Parent \/ Exec!Expire \/ Exec!ChildExits PROVE SandboxParts'
  OBVIOUS
<1>1. ExecTypes /\ Exec!StepsAgree /\ Exec!AnsweredIsOver
  BY DEF SandboxParts
<1>2. ASSUME execution = "idle", NEW status \in {"refused", "failed"}, NEW code \in {"422", "503"},
             Exec!Audit(status), Exec!Respond(code), UNCHANGED <<request, child, plan, Exec!io, timedOut>>
      PROVE  SandboxParts'
  <2>1. audit = <<>> /\ child = "none"
    BY <1>1, <1>2 DEF Exec!StepsAgree
  <2>3. audit' \in Seq({"refused", "failed", "timed_out", "completed"}) /\ Len(audit') = 1 /\ audit'[1] = status
    BY <1>2, <2>1, FirstLine
  <2>4. ExecTypes'
    BY <1>1, <1>2, <2>3 DEF ExecTypes, Exec!Respond, Exec!io
  <2>5. Exec!StepsAgree'
    BY <1>1, <1>2, <2>1 DEF Exec!StepsAgree, Exec!Respond, Exec!io, Exec!EndOfFile
  <2>6. Exec!AnsweredIsOver'
    BY <1>2, <2>1, <2>3 DEF Exec!AnsweredIsOver, Exec!Respond
  <2> QED BY <1>2, <2>4, <2>5, <2>6, ExecStep DEF Exec!io
<1>3. CASE Exec!Refuse
  BY <1>2, <1>3 DEF Exec!Refuse
<1>4. CASE Exec!NotStarted
  BY <1>2, <1>4 DEF Exec!NotStarted
<1>5. CASE Exec!Start
  <2>1. ExecTypes'
    BY <1>1, <1>5 DEF ExecTypes, Exec!Start
  <2>2. Exec!StepsAgree' /\ Exec!AnsweredIsOver'
    BY <1>1, <1>5 DEF Exec!StepsAgree, Exec!Start, Exec!EndOfFile, Exec!AnsweredIsOver
  <2> QED BY <1>5, <2>1, <2>2, ExecStep DEF Exec!Start
<1>6. CASE Exec!Waited
  <2>1. ExecTypes'
    BY <1>1, <1>6 DEF ExecTypes, Exec!Waited, Exec!io
  <2>2. Exec!StepsAgree' /\ Exec!AnsweredIsOver'
    BY <1>1, <1>6 DEF Exec!StepsAgree, Exec!Waited, Exec!EndOfFile, Exec!AnsweredIsOver, Exec!io
  <2> QED BY <1>6, <2>1, <2>2, ExecStep DEF Exec!Waited, Exec!io
<1>7. CASE Exec!Expire
  <2>1. ExecTypes'
    BY <1>1, <1>7 DEF ExecTypes, Exec!Expire, Exec!io
  <2>2. Exec!StepsAgree' /\ Exec!AnsweredIsOver'
    BY <1>1, <1>7 DEF Exec!StepsAgree, Exec!Expire, Exec!EndOfFile, Exec!AnsweredIsOver, Exec!io
  <2> QED BY <1>7, <2>1, <2>2, ExecStep DEF Exec!Expire, Exec!io
<1>8. CASE Exec!Kill
  <2>1. ExecTypes'
    BY <1>1, <1>8 DEF ExecTypes, Exec!Kill, Exec!io
  <2>2. Exec!StepsAgree' /\ Exec!AnsweredIsOver'
    BY <1>1, <1>8 DEF Exec!StepsAgree, Exec!Kill, Exec!EndOfFile, Exec!AnsweredIsOver, Exec!io
  <2> QED BY <1>8, <2>1, <2>2, ExecStep DEF Exec!Kill, Exec!io
<1>9. CASE Exec!Finish
  <2>1. execution = "joins" /\ audit = <<>> /\ child = "exited" /\ \A s \in Exec!Streams : reader[s] = "done"
    BY <1>1, <1>9 DEF Exec!Finish, Exec!StepsAgree
  <2>2. PICK status \in {"timed_out", "completed"}, code \in {"ok", "not ok"} :
           /\ Exec!Audit(status) /\ Exec!Respond(code) /\ (status = "timed_out" => code = "not ok")
           /\ UNCHANGED <<request, child, plan, Exec!io, timedOut>>
    BY <1>9 DEF Exec!Finish
  <2>4. audit' \in Seq({"refused", "failed", "timed_out", "completed"}) /\ Len(audit') = 1 /\ audit'[1] = status
    BY <2>1, <2>2, FirstLine
  <2>5. ExecTypes'
    BY <1>1, <2>2, <2>4 DEF ExecTypes, Exec!Respond, Exec!io
  <2>6. Exec!StepsAgree'
    BY <1>1, <2>1, <2>2 DEF Exec!StepsAgree, Exec!Respond, Exec!io, Exec!EndOfFile
  <2>7. Exec!AnsweredIsOver'
    BY <2>1, <2>2, <2>4 DEF Exec!AnsweredIsOver, Exec!Respond
  <2> QED BY <2>2, <2>5, <2>6, <2>7, ExecStep DEF Exec!io
<1>10. CASE Exec!ChildExits
  <2>1. ExecTypes'
    BY <1>1, <1>10 DEF ExecTypes, Exec!ChildExits, Exec!io
  <2>2. Exec!StepsAgree' /\ Exec!AnsweredIsOver'
    BY <1>1, <1>10 DEF Exec!StepsAgree, Exec!ChildExits, Exec!EndOfFile, Exec!AnsweredIsOver, Exec!io
  <2> QED BY <1>10, <2>1, <2>2, ExecStep DEF Exec!ChildExits, Exec!io
<1> QED BY <1>3, <1>4, <1>5, <1>6, <1>7, <1>8, <1>9, <1>10 DEF Exec!Parent

\* A step of one stream, in which nothing is lost and nothing is kept.
LEMMA StreamStep ==
    ASSUME SandboxParts, NEW s \in Exec!Streams, NEW g, NEW p, NEW w,
           gathered' = [gathered EXCEPT ![s] = g], pipe' = [pipe EXCEPT ![s] = p],
           written' = [written EXCEPT ![s] = w], StreamIsFine(kept[s], g, p, w),
           Lost(kept[s], g, p, w) = LostOf(s), reader[s] # "done", child # "none",
           UNCHANGED <<execution, request, child, plan, reader, kept, truncated, timedOut, execAnswer, audit>>
    PROVE  SandboxParts'
<1>1. ExecTypes'
  BY DEF SandboxParts, ExecTypes
<1>2. /\ gathered'[s] = g /\ pipe'[s] = p /\ written'[s] = w
      /\ \A q \in Exec!Streams : q # s => gathered'[q] = gathered[q] /\ pipe'[q] = pipe[q] /\ written'[q] = written[q]
  BY DEF SandboxParts, StreamsAreFine, StreamTypes
<1>3. StreamTypes'
  BY DEF SandboxParts, StreamsAreFine, StreamTypes, StreamIsFine
<1>4. \A q \in Exec!Streams : StreamIsFine(kept'[q], gathered'[q], pipe'[q], written'[q])
  BY <1>2 DEF SandboxParts, StreamsAreFine
<1>5. StreamsAreFine'
  BY <1>3, <1>4 DEF StreamsAreFine
<1>6. \A q \in Exec!Streams : LostOf(q)' = LostOf(q)
  BY <1>2 DEF LostOf
<1>7. CapIsKept'
  BY <1>6 DEF SandboxParts, CapIsKept, KeptInAll
<1>8. Exec!AnsweredIsOver'
  BY DEF SandboxParts, Exec!AnsweredIsOver
<1>9. Exec!StepsAgree'
  BY <1>2 DEF SandboxParts, Exec!StepsAgree, Exec!EndOfFile
<1> QED BY <1>1, <1>5, <1>7, <1>8, <1>9 DEF SandboxParts

LEMMA WriteByteKeeps == ASSUME SandboxParts, NEW s \in Exec!Streams, Exec!WriteByte(s) PROVE SandboxParts'
<1>1. /\ StreamIsFine(kept[s], gathered[s], pipe[s], written[s]) /\ written[s] \in 0..MaxOutput
      /\ plan.amount[s] \in 0..MaxOutput /\ gathered \in [Exec!Streams -> Seq(Exec!Bytes)]
  BY DEF SandboxParts, ExecTypes, StreamsAreFine, StreamTypes
<1>2. written[s] < MaxOutput /\ Len(pipe[s]) < PipeSize
  BY <1>1, SandboxConstants DEF Exec!WriteByte
<1>3. /\ StreamIsFine(kept[s], gathered[s], Append(pipe[s], written[s] + 1), written[s] + 1)
      /\ Lost(kept[s], gathered[s], Append(pipe[s], written[s] + 1), written[s] + 1) = LostOf(s)
  BY <1>1, <1>2, StreamWrites DEF LostOf
<1>4. child = "runs" /\ reader[s] # "done"
  BY DEF Exec!WriteByte, SandboxParts, Exec!StepsAgree, Exec!EndOfFile
<1>5. /\ gathered' = [gathered EXCEPT ![s] = gathered[s]]
      /\ pipe' = [pipe EXCEPT ![s] = Append(pipe[s], written[s] + 1)]
      /\ written' = [written EXCEPT ![s] = written[s] + 1]
      /\ UNCHANGED <<execution, request, child, plan, reader, kept, truncated, timedOut, execAnswer, audit>>
  BY <1>1 DEF Exec!WriteByte
<1> QED BY <1>3, <1>4, <1>5, StreamStep

LEMMA ReadingIsOn ==
    ASSUME SandboxParts, NEW s \in Exec!Streams, Exec!Draining(s) PROVE child # "none" /\ reader[s] # "done" /\ execution # "idle"
  BY DEF SandboxParts, Exec!StepsAgree, Exec!Draining

LEMMA GatherKeeps == ASSUME SandboxParts, NEW s \in Exec!Streams, Exec!Gather(s) PROVE SandboxParts'
<1>1. /\ StreamIsFine(kept[s], gathered[s], pipe[s], written[s])
      /\ written \in [Exec!Streams -> 0..MaxOutput]
  BY DEF SandboxParts, StreamsAreFine, StreamTypes
<1>2. pipe[s] # <<>> /\ Len(gathered[s]) < ChunkSize /\ Exec!Draining(s)
  BY DEF Exec!Gather
<1>3. /\ StreamIsFine(kept[s], Append(gathered[s], Head(pipe[s])), Tail(pipe[s]), written[s])
      /\ Lost(kept[s], Append(gathered[s], Head(pipe[s])), Tail(pipe[s]), written[s]) = LostOf(s)
  BY <1>1, <1>2, StreamGathers DEF LostOf
<1>4. child # "none" /\ reader[s] # "done"
  BY <1>2, ReadingIsOn
<1>5. /\ gathered' = [gathered EXCEPT ![s] = Append(gathered[s], Head(pipe[s]))]
      /\ pipe' = [pipe EXCEPT ![s] = Tail(pipe[s])] /\ written' = [written EXCEPT ![s] = written[s]]
      /\ UNCHANGED <<execution, request, child, plan, reader, kept, truncated, timedOut, execAnswer, audit>>
  BY <1>1 DEF Exec!Gather
<1> QED BY <1>3, <1>4, <1>5, StreamStep

LEMMA ReaderEndsKeeps == ASSUME SandboxParts, NEW s \in Exec!Streams, Exec!ReaderEnds(s) PROVE SandboxParts'
<1>1. ExecTypes' /\ Exec!AnsweredIsOver'
  BY DEF SandboxParts, ExecTypes, Exec!AnsweredIsOver, Exec!ReaderEnds
<1>2. /\ reader'[s] = "done" /\ \A q \in Exec!Streams : q # s => reader'[q] = reader[q]
  BY DEF SandboxParts, ExecTypes, Exec!ReaderEnds
<1>3. child # "none" /\ reader[s] # "done"
  BY ReadingIsOn DEF Exec!ReaderEnds
<1>4. Exec!StepsAgree'
  BY <1>2, <1>3 DEF SandboxParts, Exec!StepsAgree, Exec!ReaderEnds, Exec!EndOfFile
<1> QED BY <1>1, <1>4, ExecStep DEF Exec!ReaderEnds

\* The critical section of drain.  What fits is kept, and what does not is lost.
LEMMA CollectKeeps == ASSUME SandboxParts, NEW s \in Exec!Streams, Exec!Collect(s) PROVE SandboxParts'
<1>1. /\ ExecTypes /\ StreamTypes /\ CapIsKept /\ Exec!StepsAgree /\ Exec!AnsweredIsOver
      /\ \A q \in Exec!Streams : StreamIsFine(kept[q], gathered[q], pipe[q], written[q])
  BY DEF SandboxParts, StreamsAreFine
<1>2. /\ "stdout" \in Exec!Streams /\ "stderr" \in Exec!Streams
      /\ Len(kept["stdout"]) \in Nat /\ Len(kept["stderr"]) \in Nat
      /\ \A q \in Exec!Streams : /\ Len(kept[q]) \in Nat /\ Len(gathered[q]) \in Nat
                                 /\ Len(pipe[q]) \in Nat /\ written[q] \in Nat
  BY KeptIsNumber DEF SandboxParts
<1>3. PICK x \in Nat, y \in Nat, z \in Nat, l \in Nat :
         x = Len(kept["stdout"]) /\ y = Len(kept["stderr"]) /\ z = request.cap /\ l = Len(gathered[s])
  BY <1>1, <1>2, CapIsNumber
<1>4. KeptInAll = x + y /\ x + y <= z /\ (truncated => x + y = z)
  BY <1>1, <1>3 DEF CapIsKept, KeptInAll
<1>5. PICK room \in Nat : room = z - (x + y)
  <2>1. z - (x + y) \in Nat
    BY <1>4
  <2> QED BY <2>1
<1>6. Exec!Remaining(s) = room
  BY <1>3, <1>5 DEF Exec!Remaining
<1>7. room = 0 \/ LostOf(s) = 0
  BY <1>1, <1>4, <1>5 DEF CapIsKept
<1>8. PICK n \in Nat : n = IF l <= room THEN l ELSE room
  OBVIOUS
<1>9. PICK more : more = Taken(kept[s], gathered[s], room)
  OBVIOUS
<1>10. /\ StreamIsFine(more, <<>>, pipe[s], written[s]) /\ Len(more) = Len(kept[s]) + n
       /\ Lost(more, <<>>, pipe[s], written[s]) = LostOf(s) + (l - n) /\ LostOf(s) \in Nat
  <2>1. /\ StreamIsFine(kept[s], gathered[s], pipe[s], written[s])
        /\ room = 0 \/ Lost(kept[s], gathered[s], pipe[s], written[s]) = 0
        /\ n = Fitting(gathered[s], room)
    BY <1>1, <1>3, <1>7, <1>8 DEF LostOf, Fitting
  <2>2. /\ StreamIsFine(more, <<>>, pipe[s], written[s]) /\ Len(more) = Len(kept[s]) + n
        /\ Lost(more, <<>>, pipe[s], written[s])
              = Lost(kept[s], gathered[s], pipe[s], written[s]) + (Len(gathered[s]) - n)
        /\ Lost(kept[s], gathered[s], pipe[s], written[s]) \in Nat
    <3>1. PICK k, g, p, w : k = kept[s] /\ g = gathered[s] /\ p = pipe[s] /\ w = written[s]
      OBVIOUS
    <3>2. /\ StreamIsFine(k, g, p, w) /\ (room = 0 \/ Lost(k, g, p, w) = 0)
          /\ n = Fitting(g, room) /\ more = Taken(k, g, room)
      BY <1>9, <2>1, <3>1
    <3>3. /\ StreamIsFine(more, <<>>, p, w) /\ Len(more) = Len(k) + n
          /\ Lost(more, <<>>, p, w) = Lost(k, g, p, w) + (Len(g) - n) /\ Lost(k, g, p, w) \in Nat
      BY <3>2, StreamCollects
    <3> QED BY <3>1, <3>3
  <2> QED BY <1>3, <2>2 DEF LostOf
<1>11. /\ kept' = [kept EXCEPT ![s] = more] /\ gathered' = [gathered EXCEPT ![s] = <<>>]
       /\ truncated' = (truncated \/ l > room) /\ reader[s] = "reads"
       /\ UNCHANGED <<execution, request, child, plan, written, pipe, reader, timedOut, execAnswer, audit>>
  BY <1>3, <1>6, <1>9 DEF Exec!Collect, Exec!Cuts, Exec!Draining, Taken
<1>12. /\ kept'[s] = more /\ gathered'[s] = <<>>
       /\ \A q \in Exec!Streams : q # s => kept'[q] = kept[q] /\ gathered'[q] = gathered[q]
  BY <1>1, <1>11 DEF StreamTypes
<1>13. ExecTypes'
  BY <1>1, <1>11 DEF ExecTypes
<1>14. StreamsAreFine'
  <2>1. more \in Seq(Exec!Bytes) /\ <<>> \in Seq(Exec!Bytes)
    BY <1>10 DEF StreamIsFine
  <2>2. StreamTypes'
    BY <1>1, <1>11, <2>1 DEF StreamTypes
  <2>3. \A q \in Exec!Streams : StreamIsFine(kept'[q], gathered'[q], pipe'[q], written'[q])
    BY <1>1, <1>10, <1>11, <1>12
  <2> QED BY <2>2, <2>3 DEF StreamsAreFine
<1>15. KeptInAll' = (x + y) + n /\ (x + y) + n <= z
  <2>1. CASE s = "stdout"
    <3>1. Len(kept'["stdout"]) = x + n /\ Len(kept'["stderr"]) = y
      BY <1>2, <1>3, <1>10, <1>12, <2>1
    <3>2. (x + n) + y = (x + y) + n /\ (x + y) + n <= z
      BY <1>4, <1>5, <1>8
    <3> QED BY <3>1, <3>2 DEF KeptInAll
  <2>2. CASE s = "stderr"
    <3>1. Len(kept'["stdout"]) = x /\ Len(kept'["stderr"]) = y + n
      BY <1>2, <1>3, <1>10, <1>12, <2>2
    <3>2. x + (y + n) = (x + y) + n /\ (x + y) + n <= z
      BY <1>4, <1>5, <1>8
    <3> QED BY <3>1, <3>2 DEF KeptInAll
  <2> QED BY <2>1, <2>2 DEF Exec!Streams
<1>16. /\ LostOf(s)' = LostOf(s) + (l - n)
       /\ \A q \in Exec!Streams : q # s => LostOf(q)' = LostOf(q)
  BY <1>10, <1>11, <1>12 DEF LostOf
<1>17. CapIsKept'
  <2>1. KeptInAll' <= request.cap'
    BY <1>3, <1>11, <1>15
  <2>2. PICK a \in Nat : a = LostOf(s)
    BY <1>10
  <2>3. CASE l > room
    <3>1. n = room /\ (x + y) + n = z /\ a + (l - n) > 0
      BY <1>4, <1>5, <1>8, <2>3
    <3> QED BY <1>3, <1>11, <1>15, <1>16, <2>1, <2>2, <2>3, <3>1 DEF CapIsKept
  <2>4. CASE ~(l > room) /\ truncated
    <3>1. n = l /\ room = 0 /\ a + (l - n) = a /\ (x + y) + n = z
      BY <1>4, <1>5, <1>8, <2>4
    <3>2. \E q \in Exec!Streams : LostOf(q) > 0
      BY <1>1, <2>4 DEF CapIsKept
    <3>3. \A q \in Exec!Streams : LostOf(q)' = LostOf(q)
      BY <1>16, <2>2, <3>1
    <3> QED BY <1>3, <1>11, <1>15, <2>1, <2>4, <3>1, <3>2, <3>3 DEF CapIsKept
  <2>5. CASE ~(l > room) /\ ~truncated
    <3>1. n = l /\ a + (l - n) = a
      BY <1>8, <2>5
    <3>2. \A q \in Exec!Streams : LostOf(q)' = LostOf(q) /\ LostOf(q) = 0
      BY <1>1, <1>16, <2>2, <2>5, <3>1 DEF CapIsKept
    <3>3. ~truncated'
      BY <1>11, <2>5
    <3> QED BY <2>1, <3>2, <3>3 DEF CapIsKept
  <2> QED BY <2>3, <2>4, <2>5
<1>18. Exec!AnsweredIsOver'
  BY <1>1, <1>11 DEF Exec!AnsweredIsOver
<1>19. Exec!StepsAgree'
  BY <1>1, <1>11, <1>12 DEF Exec!StepsAgree, Exec!EndOfFile
<1> QED BY <1>13, <1>14, <1>17, <1>18, <1>19 DEF SandboxParts

LEMMA SandboxNext == SandboxParts /\ [Exec!Next]_execVars => SandboxParts'
<1> SUFFICES ASSUME SandboxParts, [Exec!Next]_execVars PROVE SandboxParts'
  OBVIOUS
<1>1. CASE UNCHANGED execVars
  <2>1. ExecTypes' /\ Exec!StepsAgree' /\ Exec!AnsweredIsOver'
    BY <1>1 DEF execVars, SandboxParts, ExecTypes, Exec!StepsAgree, Exec!AnsweredIsOver, Exec!EndOfFile
  <2>2. StreamsAreFine'
    BY <1>1 DEF execVars, SandboxParts, StreamsAreFine, StreamTypes
  <2>3. CapIsKept'
    BY <1>1 DEF execVars, SandboxParts, CapIsKept, KeptInAll, LostOf
  <2> QED BY <2>1, <2>2, <2>3 DEF SandboxParts
<1>2. CASE Exec!Parent \/ Exec!Expire \/ Exec!Command
  BY <1>2, ParentKeeps, WriteByteKeeps DEF Exec!Command
<1>3. CASE \E s \in Exec!Streams : Exec!Threads(s)
  BY <1>3, GatherKeeps, CollectKeeps, ReaderEndsKeeps DEF Exec!Threads
<1> QED BY <1>1, <1>2, <1>3 DEF Exec!Next

-----------------------------------------------------------------------------
(* The node *)

\* A behaviour of the node is a behaviour of each of its services.
LEMMA NodeInit == Init => Inference!Init /\ Index!Init /\ Exec!Init
  BY DEF Init

LEMMA NodeNext ==
    [Next]_<<part, inferenceVars, indexVars, execVars>> =>
        [Inference!Next]_inferenceVars /\ [Index!Next]_indexVars /\ [Exec!Next]_execVars
  BY DEF Next

\* However requests, loading, deaths and the shutdown of the agent interleave: no
\* child outlives the agent, 422 is for the caller's mistakes alone, and a dead
\* server is reported at once (lifespan, await_ready, complete).  So it is from the
\* initial states of the run and from all those of the module.
THEOREM InferenceIsSafe == Spec \/ Inference!Spec => []InferenceInvariant
<1>1. InferenceSafe => InferenceInvariant
  BY DEF InferenceSafe, InferenceInvariant
<1>2. [Inference!Next]_Inference!vars => [Inference!Next]_inferenceVars
  BY DEF Inference!vars, inferenceVars
<1> QED BY <1>1, <1>2, InferenceInit, InferenceNext, NodeInit, NodeNext, PTL DEF Spec, Inference!Spec

\* A request takes less time in await_ready and complete together than the
\* controller waits for it, whatever the timeouts are, as long as the margin covers
\* what the readiness poll may exceed its deadline by and what the server takes to
\* accept the POST.
THEOREM NodeAnswersInTime == Spec \/ Inference!Spec => []NodeAnswersFirst
<1>1. InferenceSafe => NodeAnswersFirst
  BY DEF InferenceSafe, NodeAnswersFirst
<1>2. [Inference!Next]_Inference!vars => [Inference!Next]_inferenceVars
  BY DEF Inference!vars, inferenceVars
<1> QED BY <1>1, <1>2, InferenceInit, InferenceNext, NodeInit, NodeNext, PTL DEF Spec, Inference!Spec

\* With any number of refreshes and searches over any number of files that change
\* meanwhile, the index stays within its caps, can be searched, and is new to
\* whoever asked for it (refresh, search).
THEOREM IndexIsSafe == Spec => []IndexInvariant
<1>1. IndexParts => IndexInvariant
  BY IndexByParts DEF IndexInvariant
<1> QED BY <1>1, IndexInit, IndexNext, NodeInit, NodeNext, PTL DEF Spec

\* A refresh never replaces a version of a file by an older one: its walk began
\* when the refresh before it had published (refresh_lock).
THEOREM IndexNeverGoesBack == Spec => NeverGoesBack
<1> DEFINE Forward == \A i \in 1..Len(documents) : \A j \in 1..Len(documents') :
                          documents[i].path = documents'[j].path =>
                              documents[i].version <= documents'[j].version
<1>1. IndexParts /\ [Index!Next]_indexVars => Forward
  BY IndexGoesForward
<1>2. NeverGoesBack <=> [][Forward]_Index!vars
  BY DEF NeverGoesBack, Index!NeverGoesBack
<1> HIDE DEF Forward
<1> QED BY <1>1, <1>2, IndexInit, IndexNext, NodeInit, NodeNext, PTL DEF Spec

\* However the command, its two readers, the cap and the timeout interleave: what
\* is kept of a stream is its beginning, a result says truncated exactly when
\* output is missing, and an execution that was answered is over and has one line
\* in the log (execute, drain).
THEOREM SandboxIsSafe == Spec => []SandboxInvariant
<1>1. SandboxParts => SandboxInvariant
  BY SandboxByParts DEF SandboxInvariant
<1> QED BY <1>1, SandboxInit, SandboxNext, NodeInit, NodeNext, PTL DEF Spec

-----------------------------------------------------------------------------
(* How the node comes into the pool: module NodeStart, for any addresses,  *)
(* speeds and number of rows and losses.                                   *)

\* The last row of a phase is a row of that phase.
LEMMA MeasuredInPhase ==
    ASSUME NEW k \in Nat, NEW output \in [1..k -> Start!Row], NEW phase \in SUBSET (1..k)
    PROVE  \/ Start!Measured(output, phase) = Start!NoSpeed
           \/ \E i \in phase : Start!Measured(output, phase) = output[i].speed
<1>1. CASE phase = {}
  BY <1>1 DEF Start!Measured
<1>2. CASE phase # {}
  <2>1. PICK i \in phase : \A h \in phase : h <= i
    BY <1>2, LargestExists
  <2>2. \A h \in phase : i >= h
    BY <2>1
  <2>3. Start!Max(phase) \in phase
    BY <2>1, <2>2 DEF Start!Max
  <2> QED BY <1>2, <2>3 DEF Start!Measured
<1> QED BY <1>1, <1>2

\* What was measured of an output is a speed of a row of the right kind.
LEMMA SpeedsOfOutput ==
    ASSUME NEW k \in Nat, NEW output \in [1..k -> Start!Row]
    PROVE  /\ Start!Decode(output) \in Nat \cup {Start!NoSpeed}
           /\ Start!Prefill(output) \in Nat \cup {Start!NoSpeed}
           /\ Start!Decode(output) # Start!NoSpeed =>
                  \E i \in 1..k : Start!IsDecode(output[i]) /\ output[i].speed = Start!Decode(output)
           /\ Start!Prefill(output) # Start!NoSpeed =>
                  \E i \in 1..k : Start!IsPrefill(output[i]) /\ output[i].speed = Start!Prefill(output)
<1>1. Len(output) = k
  OBVIOUS
<1>2. \A i \in 1..k : output[i].speed \in Nat \cup {Start!NoSpeed}
  BY StartConstants DEF Start!Row, Start!StartAssumption
<1> DEFINE D == {i \in 1..k : Start!IsDecode(output[i])}
           P == {i \in 1..k : Start!IsPrefill(output[i])}
<1>3. Start!Decode(output) = Start!Measured(output, D) /\ Start!Prefill(output) = Start!Measured(output, P)
  BY <1>1 DEF Start!Decode, Start!Prefill
<1>4. \/ Start!Measured(output, D) = Start!NoSpeed
      \/ \E i \in D : Start!Measured(output, D) = output[i].speed
  <2>1. D \in SUBSET (1..k)
    OBVIOUS
  <2> QED BY <2>1, MeasuredInPhase
<1>5. \/ Start!Measured(output, P) = Start!NoSpeed
      \/ \E i \in P : Start!Measured(output, P) = output[i].speed
  <2>1. P \in SUBSET (1..k)
    OBVIOUS
  <2> QED BY <2>1, MeasuredInPhase
<1> QED BY <1>2, <1>3, <1>4, <1>5

StartParts ==
    /\ env \in Start!Environments /\ network \in BOOLEAN
    /\ ctl \in [up : BOOLEAN, address : Addresses, advertised : Start!Endpoints]
    /\ startPc \in {"off", "discovers", "found", "profiles", "calibrates", "serves"}
    /\ listener \in Start!Endpoints /\ endpoint \in Start!Endpoints
    /\ considering \in Start!Endpoints \cup {Start!Peer}
    /\ profile \in Start!Profiles /\ member \subseteq Start!Profiles
    /\ losses \in 0..MaxLosses
    /\ startPc \in {"profiles", "calibrates", "serves"} => endpoint \in Addresses
    /\ startPc \in {"discovers", "found", "profiles", "calibrates"} => profile.tg = 0 /\ profile.pp = 0
StartRows ==
    /\ rows \in Seq(Start!Row) /\ Len(rows) <= MaxRows /\ Start!SpeedsAreMeasured

LEMMA StartByParts ==
    ASSUME StartParts, StartRows PROVE Start!StartInvariant
<1>1. Start!Peer \notin Start!Endpoints
  BY StartConstants DEF Start!StartAssumption, Start!Endpoints, Start!Peer, Start!Unset
<1> QED BY <1>1 DEF StartParts, StartRows, Start!StartInvariant, Start!TypeOK, Start!FindsAControlPlane, Start!StartsBlank

LEMMA CalibratedSpeeds ==
    ASSUME StartParts, startPc = "calibrates", NEW output \in Start!Outputs,
           rows' = output, profile' = Start!Calibrated(output)
    PROVE  profile' \in Start!Profiles /\ StartRows'
<1>1. PICK k \in Nat : k <= MaxRows /\ output \in [1..k -> Start!Row]
  <2>1. CASE output = <<>>
    <3>1. output \in [1..0 -> Start!Row] /\ 0 <= MaxRows
      BY <2>1, StartConstants DEF Start!StartAssumption
    <3> QED BY <3>1
  <2>2. CASE output \in Start!BoundedSeq(Start!Row, MaxRows)
    <3>1. PICK k \in 0..MaxRows : output \in [1..k -> Start!Row]
      BY <2>2 DEF Start!BoundedSeq, Start!SeqOf
    <3> QED BY <3>1, StartConstants DEF Start!StartAssumption
  <2> QED BY <2>1, <2>2 DEF Start!Outputs
<1>2. rows' \in Seq(Start!Row) /\ Len(rows') = k /\ DOMAIN rows' = 1..k
  BY <1>1
<1>3. profile \in Start!Profiles /\ profile.tg = 0 /\ profile.pp = 0
  BY DEF StartParts
<1>4. PICK tg : tg = Start!Decode(output)
  OBVIOUS
<1>5. PICK pp : pp = Start!Prefill(output)
  OBVIOUS
<1>6. /\ tg \in Nat \cup {Start!NoSpeed} /\ pp \in Nat \cup {Start!NoSpeed}
      /\ tg # Start!NoSpeed => \E i \in 1..k : Start!IsDecode(output[i]) /\ output[i].speed = tg
      /\ pp # Start!NoSpeed => \E i \in 1..k : Start!IsPrefill(output[i]) /\ output[i].speed = pp
  BY <1>1, <1>4, <1>5, SpeedsOfOutput
<1>7. CASE tg \in {0, Start!NoSpeed}
  <2>1. profile' = profile
    BY <1>4, <1>7 DEF Start!Calibrated
  <2> QED BY <1>1, <1>2, <1>3, <2>1 DEF StartRows, Start!SpeedsAreMeasured, Start!Row
<1>8. CASE tg \notin {0, Start!NoSpeed}
  <2>1. profile' = [profile EXCEPT !.tg = tg, !.pp = IF pp = Start!NoSpeed THEN 0 ELSE pp]
    BY <1>4, <1>5, <1>8 DEF Start!Calibrated
  <2>2. PICK shown \in Nat : shown = IF pp = Start!NoSpeed THEN 0 ELSE pp
    BY <1>6
  <2>3. /\ profile' \in Start!Profiles /\ profile'.tg = tg /\ profile'.pp = shown
    BY <1>3, <1>6, <1>8, <2>1, <2>2 DEF Start!Profiles
  <2>4. tg # 0 /\ (shown # 0 => pp # Start!NoSpeed /\ shown = pp)
    BY <1>8, <2>2
  <2>5. Start!SpeedsAreMeasured'
    BY <1>2, <1>6, <1>8, <2>3, <2>4 DEF Start!SpeedsAreMeasured, Start!IsDecode, Start!IsPrefill
  <2> QED BY <1>1, <1>2, <2>3, <2>5 DEF StartRows, Start!Row
<1> QED BY <1>7, <1>8

LEMMA StartNext ==
    ASSUME StartParts, StartRows, [Start!Next]_Start!vars
    PROVE  StartParts' /\ StartRows'
<1>0. /\ Start!Peer \notin Start!Endpoints /\ Start!Unset \notin Addresses /\ MaxLosses \in Nat
      /\ Addresses \subseteq Start!Endpoints /\ Start!Unset \in Start!Endpoints /\ Start!Peer \notin Addresses
      /\ Start!Endpoints = Addresses \cup {Start!Unset}
  BY StartConstants DEF Start!StartAssumption, Start!Endpoints, Start!Peer, Start!Unset
<1>1. ASSUME UNCHANGED <<rows, profile>> PROVE StartRows'
  BY <1>1 DEF StartRows, Start!SpeedsAreMeasured, Start!Row, Start!IsDecode, Start!IsPrefill
<1> USE DEF StartParts
<1>2. CASE Start!Begin
  <2>1. /\ listener' = Start!Unset /\ considering' = Start!Unset /\ endpoint' = env.ctl
        /\ profile' = Start!Blank /\ rows' = <<>> /\ UNCHANGED <<env, network, ctl, member, losses>>
        /\ startPc' \in {"off", "discovers", "profiles"} /\ (startPc' = "profiles" => env.ctl # Start!Unset)
    BY <1>2 DEF Start!Begin, Start!Exit
  <2>2. env.ctl \in Start!Endpoints
    BY DEF Start!Environments
  <2>3. Start!Blank \in Start!Profiles /\ Start!Blank.tg = 0 /\ Start!Blank.pp = 0
    BY DEF Start!Blank, Start!Profiles
  <2>4. StartParts'
    BY <1>0, <2>1, <2>2, <2>3 DEF Start!Environments, Start!Endpoints, Start!Profiles
  <2>5. StartRows'
    <3>1. rows' \in Seq(Start!Row) /\ Len(rows') = 0
      BY <2>1, EmptySeq
    <3>2. 0 <= MaxRows
      BY StartConstants DEF Start!StartAssumption
    <3> QED BY <2>1, <2>3, <3>1, <3>2 DEF StartRows, Start!SpeedsAreMeasured, Start!Row
  <2> QED BY <2>4, <2>5
<1>3. CASE Start!StopWaiting
  <2>1. StartParts'
    BY <1>3 DEF Start!StopWaiting, Start!Environments, Start!Endpoints, Start!Profiles
  <2> QED BY <1>1, <1>3, <2>1 DEF Start!StopWaiting
<1>4. CASE Start!Found
  <2>1. /\ endpoint' = listener /\ considering' = Start!Unset /\ startPc = "found"
        /\ startPc' \in {"off", "profiles"} /\ (startPc' = "profiles" => listener # Start!Unset)
        /\ UNCHANGED <<env, network, ctl, listener, rows, profile, member, losses>>
    BY <1>4 DEF Start!Found, Start!Exit
  <2>2. StartParts'
    BY <1>0, <2>1 DEF Start!Environments, Start!Endpoints, Start!Profiles
  <2> QED BY <1>1, <2>1, <2>2
<1>5. CASE Start!Profile
  <2>1. /\ startPc = "profiles" /\ UNCHANGED <<env, network, ctl, listener, considering, endpoint, rows, member, losses>>
        /\ \/ startPc' = "calibrates" /\ profile' = [profile EXCEPT !.host = Start!FabricIp]
           \/ startPc' = "off" /\ profile' = profile
    BY <1>5 DEF Start!Profile, Start!Exit
  <2>2. /\ profile' \in Start!Profiles /\ profile'.tg = profile.tg /\ profile'.pp = profile.pp
    BY <2>1 DEF Start!Profiles, Start!FabricIp, Start!Loopback
  <2>3. StartParts'
    BY <1>0, <2>1, <2>2 DEF Start!Environments, Start!Endpoints, Start!Profiles
  <2>4. StartRows'
    BY <2>1, <2>2 DEF StartRows, Start!SpeedsAreMeasured, Start!Row, Start!IsDecode, Start!IsPrefill
  <2> QED BY <2>3, <2>4
<1>6. CASE Start!Calibrate
  <2>1. PICK output \in Start!Outputs : rows' = output /\ profile' = Start!Calibrated(output)
    BY <1>6 DEF Start!Calibrate
  <2>2. /\ startPc = "calibrates" /\ startPc' \in {"off", "serves"}
        /\ UNCHANGED <<env, network, ctl, listener, considering, endpoint, member, losses>>
    BY <1>6 DEF Start!Calibrate, Start!Exit
  <2>3. profile' \in Start!Profiles /\ StartRows'
    BY <2>1, <2>2, CalibratedSpeeds
  <2>4. StartParts'
    BY <1>0, <2>2, <2>3 DEF Start!Environments, Start!Endpoints, Start!Profiles
  <2> QED BY <2>3, <2>4
<1>7. CASE Start!Join
  <2>1. StartParts'
    BY <1>7 DEF Start!Join, Start!Environments, Start!Endpoints, Start!Profiles
  <2> QED BY <1>1, <1>7, <2>1 DEF Start!Join
<1>8. ASSUME NEW service \in Addresses \cup {Start!Peer}, Start!Report(service) PROVE StartParts' /\ StartRows'
  <2>1. StartParts'
    BY <1>0, <1>8 DEF Start!Report, Start!Environments, Start!Endpoints, Start!Profiles
  <2> QED BY <1>1, <1>8, <2>1 DEF Start!Report
<1>9. ASSUME NEW answered \in BOOLEAN, Start!Consider(answered) PROVE StartParts' /\ StartRows'
  <2>1. listener' \in Start!Endpoints
    BY <1>0, <1>9 DEF Start!Consider, Start!IsControlPlane
  <2>2. StartParts'
    BY <1>0, <1>9, <2>1 DEF Start!Consider, Start!Environments, Start!Endpoints, Start!Profiles
  <2> QED BY <1>1, <1>9, <2>2 DEF Start!Consider
<1>10. CASE Start!CtlStart
  <2>1. ctl' \in [up : BOOLEAN, address : Addresses, advertised : Start!Endpoints]
    BY <1>0, <1>10 DEF Start!CtlStart, Start!ShownAs
  <2>2. StartParts'
    BY <1>10, <2>1 DEF Start!CtlStart, Start!Environments, Start!Endpoints, Start!Profiles
  <2> QED BY <1>1, <1>10, <2>2 DEF Start!CtlStart
<1>11. CASE Start!CtlStop
  <2>a. ctl' = [ctl EXCEPT !.up = FALSE, !.advertised = Start!Unset] /\ losses < MaxLosses /\ losses' = losses + 1
    BY <1>11 DEF Start!CtlStop
  <2>b. losses' \in 0..MaxLosses
    BY <1>0, <2>a
  <2>c. ctl' \in [up : BOOLEAN, address : Addresses, advertised : Start!Endpoints]
    BY <1>0, <2>a
  <2>1. /\ ctl' \in [up : BOOLEAN, address : Addresses, advertised : Start!Endpoints]
        /\ losses' \in 0..MaxLosses
    BY <2>b, <2>c
  <2>2. StartParts'
    BY <1>11, <2>1 DEF Start!CtlStop, Start!Environments, Start!Endpoints, Start!Profiles
  <2> QED BY <1>1, <1>11, <2>2 DEF Start!CtlStop
<1>12. CASE Start!Network
  <2>1. losses' \in 0..MaxLosses /\ network' \in BOOLEAN
    BY <1>0, <1>12 DEF Start!Network
  <2>2. StartParts'
    BY <1>12, <2>1 DEF Start!Network, Start!Environments, Start!Endpoints, Start!Profiles
  <2> QED BY <1>1, <1>12, <2>2 DEF Start!Network
<1>13. CASE Start!Crash
  <2>1. losses' \in 0..MaxLosses
    BY <1>0, <1>13 DEF Start!Crash
  <2>2. StartParts'
    BY <1>0, <1>13, <2>1 DEF Start!Crash, Start!Exit, Start!Environments, Start!Endpoints, Start!Profiles
  <2> QED BY <1>1, <1>13, <2>2 DEF Start!Crash
<1>14. CASE UNCHANGED Start!vars
  <2>1. UNCHANGED <<env, network, ctl, startPc, listener, considering, endpoint, rows, profile, member, losses>>
    BY <1>14 DEF Start!vars
  <2>2. StartParts'
    BY <2>1 DEF Start!Environments, Start!Endpoints, Start!Profiles
  <2> QED BY <1>1, <2>1, <2>2
<1>15. CASE Start!Next
  <2>1. CASE Start!Main
    BY <1>2, <1>3, <1>4, <1>5, <1>6, <1>7, <2>1 DEF Start!Main
  <2>2. CASE Start!Hear \/ Start!Report(Start!Peer)
    BY <1>8, <2>2 DEF Start!Hear
  <2> QED BY <1>9, <1>10, <1>11, <1>12, <1>13, <1>15, <2>1, <2>2 DEF Start!Next
<1> QED BY <1>14, <1>15

LEMMA StartInit ==
    ASSUME Start!Init PROVE StartParts /\ StartRows
<1>1. /\ env \in Start!Environments /\ network \in BOOLEAN
      /\ ctl \in [up : {FALSE}, address : Addresses, advertised : {Start!Unset}]
      /\ startPc = "off" /\ listener = Start!Unset /\ considering = Start!Unset /\ endpoint = Start!Unset
      /\ rows = <<>> /\ profile = Start!Blank /\ member = {} /\ losses = 0
  BY DEF Start!Init
<1>2. Start!Blank \in Start!Profiles /\ Start!Blank.tg = 0 /\ Start!Blank.pp = 0
  BY DEF Start!Blank, Start!Profiles
<1>3. 0 \in 0..MaxLosses /\ 0 <= MaxRows
  BY StartConstants DEF Start!StartAssumption
<1>4. StartParts
  BY <1>1, <1>2, <1>3 DEF StartParts, Start!Endpoints
<1>5. rows \in Seq(Start!Row) /\ Len(rows) = 0
  BY <1>1, EmptySeq
<1> QED BY <1>1, <1>2, <1>3, <1>4, <1>5 DEF StartRows, Start!SpeedsAreMeasured

\* A node only ever talks to a control plane, the one it was told or one that
\* advertised itself as such, and reports only speeds that were measured in
\* their phase, whatever discovery heard and llama-bench printed, and however
\* often its process, the network and the control plane fail (main, _consider,
\* parse_bench_json, calibrate_profile).
THEOREM StartIsSafe ==
    Start!Spec => []StartInvariant
<1>1. Start!Init => StartParts /\ StartRows
  BY StartInit
<1>2. (StartParts /\ StartRows) /\ [Start!Next]_Start!vars => (StartParts /\ StartRows)'
  BY StartNext
<1>3. StartParts /\ StartRows => Start!StartInvariant
  BY StartByParts
<1> QED BY <1>1, <1>2, <1>3, PTL DEF Start!Spec, StartInvariant

-----------------------------------------------------------------------------
(* The head launcher (HeadWatch), for any nodes, addresses, command lines, *)
(* poll times and debounce.                                                *)

LEMMA HeadNumbers ==
    /\ Nodes \subseteq Nat /\ IsFiniteSet(Nodes) /\ HeadId \in Nodes
    /\ Debounce \in Nat /\ PollTimes \subseteq Nat \ {0} /\ MinWorkers \in Nat
    /\ MaxChanges \in Nat /\ HeadFaults \in Nat
<1>1. Watch!IsFiniteSet(Nodes)
  BY HeadConstants DEF Watch!HeadAssumption
<1>2. IsFiniteSet(Nodes)
  BY <1>1 DEF Watch!IsFiniteSet, IsFiniteSet
<1> QED BY <1>2, HeadConstants DEF Watch!HeadAssumption

LEMMA SpendCounts ==
    ASSUME NEW kind \in {"changes", "faults"}, Watch!Spend(kind),
           budget \in [changes : 0..MaxChanges, faults : 0..HeadFaults]
    PROVE  budget' \in [changes : 0..MaxChanges, faults : 0..HeadFaults]
<1>1. CASE kind = "changes"
  BY <1>1, HeadNumbers DEF Watch!Spend
<1>2. CASE kind = "faults"
  BY <1>2, HeadNumbers DEF Watch!Spend
<1> QED BY <1>1, <1>2

-----------------------------------------------------------------------------
(* What plan_command makes of what ctl says. *)

LEMMA SortedIsSeq ==
    ASSUME NEW S \in SUBSET Nodes
    PROVE  Watch!SortedIds(S) \in Seq(S)
<1>1. S \in SUBSET Nat /\ IsFiniteSet(S) /\ Cardinality(S) \in Nat
  BY HeadNumbers, FS_Subset, FS_CardinalityType
<1>2. PICK s : Ascends(s, S)
  BY <1>1, SortedExists
<1>3. Watch!Cardinality(S) = Cardinality(S)
  BY DEF Watch!Cardinality, Cardinality
<1>4. Watch!SortedIds(S) \in [1..Cardinality(S) -> S]
  BY <1>2, <1>3 DEF Ascends, Watch!SortedIds
<1> QED BY <1>1, <1>4

LEMMA MembersType ==
    ASSUME table \in [Nodes -> Watch!Rows]
    PROVE  Watch!BuildMembers \in Seq(Watch!Member)
<1> DEFINE others == Watch!SortedIds(Watch!Alive \ {HeadId})
           order == <<HeadId>> \o others
<1>1. Watch!Alive \ {HeadId} \in SUBSET Nodes
  BY DEF Watch!Alive, Watch!Listed
<1>2. others \in Seq(Nodes)
  BY <1>1, SortedIsSeq
<1>3. order \in Seq(Nodes)
  BY <1>2, HeadNumbers
<1> HIDE DEF order
<1>4. \A i \in 1..Len(order) : Watch!At(order[i]) \in Watch!Member
  BY <1>3 DEF Watch!At, Watch!Member, Watch!Rows
<1>5. [i \in 1..Len(order) |-> Watch!At(order[i])] \in Seq(Watch!Member)
  BY <1>3, <1>4
<1> QED BY <1>5 DEF Watch!BuildMembers, order

\* The check that the split names the members makes the lookup of their shares
\* succeed.
LEMMA SharesAreLookedUp ==
    ASSUME NEW ms \in Seq(Watch!Member), NEW split, Watch!PlanMatches(split, ms)
    PROVE  /\ Watch!Shares(split, ms) \in Seq(Nodes) /\ Len(Watch!Shares(split, ms)) = Len(ms)
           /\ \A i \in 1..Len(ms) : Watch!Shares(split, ms)[i] = ms[i].id
<1>1. ASSUME NEW i \in 1..Len(ms)
      PROVE  split[CHOOSE j \in 1..Len(split) : split[j] = ms[i].id] = ms[i].id
  <2>1. ms[i].id \in Watch!Ids(ms)
    BY DEF Watch!Ids
  <2>2. \E j \in 1..Len(split) : split[j] = ms[i].id
    BY <2>1 DEF Watch!PlanMatches
  <2> QED BY <2>2
<1>2. ASSUME NEW i \in 1..Len(ms) PROVE ms[i].id \in Nodes
  <2>1. ms[i] \in Watch!Member
    OBVIOUS
  <2> QED BY <2>1 DEF Watch!Member
<1>3. Len(ms) \in Nat
  OBVIOUS
<1>4. Watch!Shares(split, ms) = [i \in 1..Len(ms) |-> ms[i].id]
  BY <1>1 DEF Watch!Shares
<1> QED BY <1>2, <1>3, <1>4

LEMMA CommandIsRight ==
    ASSUME NEW ms \in Seq(Watch!Member), NEW split, ~Watch!CommandError(ms, split),
           NEW c, c = Watch!LlamaServerCommand(ms, split)
    PROVE  /\ c.rpc = ms /\ c.split \in Seq(Nodes)
           /\ c.split # <<>> => Watch!SharesInOrder(c)
<1>1. CASE split = <<>>
  BY <1>1 DEF Watch!LlamaServerCommand
<1>2. CASE split # <<>>
  <2>1. Watch!PlanMatches(split, ms)
    BY <1>2 DEF Watch!CommandError
  <2>2. c.rpc = ms /\ c.split = Watch!Shares(split, ms)
    BY <1>2 DEF Watch!LlamaServerCommand
  <2> QED BY <2>1, <2>2, SharesAreLookedUp DEF Watch!SharesInOrder
<1> QED BY <1>1, <1>2

-----------------------------------------------------------------------------
(* The invariant.  The launcher's own notes come first; what the runs say  *)
(* of the server follows from them.                                        *)

LEMMA NotesSuffice == Watch!StartedAsPlanned => Watch!CurrentIsRunning /\ Watch!SplitFollowsRpc
  BY DEF Watch!StartedAsPlanned, Watch!CurrentIsRunning, Watch!SplitFollowsRpc, Watch!Watching

LEMMA NotesSufficeNext == Watch!StartedAsPlanned' => Watch!CurrentIsRunning' /\ Watch!SplitFollowsRpc'
  BY DEF Watch!StartedAsPlanned, Watch!CurrentIsRunning, Watch!SplitFollowsRpc, Watch!Watching

\* ctl, its nodes and the disk move without the launcher.
LEMMA WorldKeeps ==
    ASSUME Watch!HeadInvariant,
           \/ \E n \in Nodes : Watch!Churn(n) \/ Watch!Report(n) \/ Watch!Rejoin(n)
           \/ Watch!CtlRestart \/ Watch!Download
    PROVE  Watch!HeadInvariant'
<1>1. table \in [Nodes -> Watch!Rows] /\ budget \in [changes : 0..MaxChanges, faults : 0..HeadFaults]
      /\ ggufs \in 0..2
  BY DEF Watch!HeadInvariant, Watch!TypeOK
<1>2. \A n \in Nodes : \A s \in {"absent", "forgotten", "joining", "ready", "offline"} :
         [table[n] EXCEPT !.state = s] \in Watch!Rows
  BY <1>1 DEF Watch!Rows
<1>3. /\ table' \in [Nodes -> Watch!Rows] /\ ggufs' \in 0..2
      /\ budget' \in [changes : 0..MaxChanges, faults : 0..HeadFaults]
      /\ UNCHANGED <<args, headPc, handling, stopping, Watch!seen, headServer, confirmed>>
  <2>1. ASSUME NEW n \in Nodes, Watch!Churn(n) PROVE <1>3!:
    BY <1>1, <2>1, SpendCounts DEF Watch!Churn
  <2>2. ASSUME NEW n \in Nodes, Watch!Report(n) PROVE <1>3!:
    <3>1. table' = [table EXCEPT ![n] = [table[n] EXCEPT !.state = "ready"]]
      BY <1>1, <2>2 DEF Watch!Report
    <3> QED BY <1>1, <1>2, <2>2, <3>1 DEF Watch!Report
  <2>3. ASSUME NEW n \in Nodes, Watch!Rejoin(n) PROVE <1>3!:
    <3>1. table' = [table EXCEPT ![n] = [table[n] EXCEPT !.state = "joining"]]
      BY <1>1, <2>3 DEF Watch!Rejoin
    <3> QED BY <1>1, <1>2, <2>3, <3>1 DEF Watch!Rejoin
  <2>4. CASE Watch!CtlRestart
    <3>1. \A n \in Nodes : [table[n] EXCEPT !.state =
                               IF @ \in {"forgotten", "joining", "ready"} THEN "forgotten" ELSE "absent"]
                           \in Watch!Rows
      BY <1>1 DEF Watch!Rows
    <3>2. table' \in [Nodes -> Watch!Rows]
      BY <2>4, <3>1 DEF Watch!CtlRestart
    <3> QED BY <1>1, <2>4, <3>2, SpendCounts DEF Watch!CtlRestart
  <2>5. CASE Watch!Download
    BY <1>1, <2>5, SpendCounts DEF Watch!Download
  <2> QED BY <2>1, <2>2, <2>3, <2>4, <2>5
<1>4. Watch!TypeOK'
  BY <1>3 DEF Watch!HeadInvariant, Watch!TypeOK, Watch!seen
<1>5. Watch!StartedAsPlanned' /\ Watch!ClocksAgree'
  BY <1>3 DEF Watch!HeadInvariant, Watch!StartedAsPlanned, Watch!SharesInOrder, Watch!ClocksAgree,
       Watch!seen
<1> QED BY <1>4, <1>5, NotesSufficeNext DEF Watch!HeadInvariant

Paid == UNCHANGED budget \/ Watch!Spend("faults")

LEMMA PaidType ==
    ASSUME Watch!HeadInvariant, Paid
    PROVE  budget' \in [changes : 0..MaxChanges, faults : 0..HeadFaults]
  BY SpendCounts DEF Paid, Watch!HeadInvariant, Watch!TypeOK

\* The launcher ends.
LEMMA ExitKeeps ==
    ASSUME Watch!HeadInvariant, Watch!Exit, Paid
    PROVE  Watch!HeadInvariant'
<1>1. Watch!TypeOK'
  BY PaidType DEF Watch!Exit, Watch!HeadInvariant, Watch!TypeOK, Watch!env, Watch!seen
<1>2. Watch!StartedAsPlanned' /\ Watch!ClocksAgree'
  BY DEF Watch!Exit, Watch!HeadInvariant, Watch!StartedAsPlanned, Watch!SharesInOrder,
       Watch!ClocksAgree, Watch!seen
<1> QED BY <1>1, <1>2, NotesSufficeNext DEF Watch!HeadInvariant

LEMMA RelaunchKeeps ==
    ASSUME Watch!HeadInvariant, Watch!Relaunch
    PROVE  Watch!HeadInvariant'
<1>1. Watch!TypeOK'
  BY DEF Watch!Relaunch, Watch!HeadInvariant, Watch!TypeOK, Watch!env, Watch!NoCommand, Watch!Never
<1>2. Watch!StartedAsPlanned' /\ Watch!ClocksAgree'
  BY HeadNumbers DEF Watch!Relaunch, Watch!HeadInvariant, Watch!TypeOK, Watch!StartedAsPlanned,
       Watch!ClocksAgree, Watch!NoCommand, Watch!Never
<1> QED BY <1>1, <1>2, NotesSufficeNext DEF Watch!HeadInvariant

LEMMA FetchNodesKeeps ==
    ASSUME Watch!HeadInvariant, Watch!FetchNodes
    PROVE  Watch!HeadInvariant'
<1>1. CASE Watch!Exit
  BY <1>1, ExitKeeps DEF Watch!FetchNodes, Watch!Fails, Paid, Watch!Goto
<1>2. CASE /\ members' = Watch!BuildMembers /\ Watch!Goto("placement")
           /\ UNCHANGED <<command, current, changedFor, headServer, confirmed, budget>>
  <2>1. Watch!BuildMembers \in Seq(Watch!Member)
    BY MembersType DEF Watch!HeadInvariant, Watch!TypeOK
  <2>2. Watch!TypeOK'
    BY <1>2, <2>1 DEF Watch!Goto, Watch!HeadInvariant, Watch!TypeOK, Watch!env
  <2>3. Watch!StartedAsPlanned' /\ Watch!ClocksAgree'
    BY <1>2 DEF Watch!Goto, Watch!HeadInvariant, Watch!StartedAsPlanned, Watch!SharesInOrder,
         Watch!ClocksAgree
  <2> QED BY <2>2, <2>3, NotesSufficeNext DEF Watch!HeadInvariant
<1> QED BY <1>1, <1>2 DEF Watch!FetchNodes, Watch!Fails

LEMMA FetchPlacementKeeps ==
    ASSUME Watch!HeadInvariant, Watch!FetchPlacement
    PROVE  Watch!HeadInvariant'
<1>1. CASE Watch!Exit
  BY <1>1, ExitKeeps DEF Watch!FetchPlacement, Paid
<1>2. ASSUME NEW split, ~Watch!CommandError(members, split),
             command' = Watch!LlamaServerCommand(members, split), Watch!Goto("start"),
             UNCHANGED <<members, current, changedFor, headServer, confirmed, budget>>
      PROVE  Watch!HeadInvariant'
  <2>1. members \in Seq(Watch!Member)
    BY DEF Watch!HeadInvariant, Watch!TypeOK
  <2>2. /\ command'.rpc = members /\ command'.split \in Seq(Nodes)
        /\ command'.split # <<>> => Watch!SharesInOrder(command')
    BY <1>2, <2>1, CommandIsRight
  <2>3. Watch!TypeOK'
    BY <1>2, <2>1, <2>2 DEF Watch!Goto, Watch!HeadInvariant, Watch!TypeOK, Watch!env
  <2>4. Watch!StartedAsPlanned' /\ Watch!ClocksAgree'
    BY <1>2, <2>2 DEF Watch!Goto, Watch!HeadInvariant, Watch!StartedAsPlanned, Watch!SharesInOrder,
         Watch!ClocksAgree
  <2> QED BY <2>3, <2>4, NotesSufficeNext DEF Watch!HeadInvariant
<1> QED BY <1>1, <1>2 DEF Watch!FetchPlacement

LEMMA StartKeeps ==
    ASSUME Watch!HeadInvariant, Watch!Start
    PROVE  Watch!HeadInvariant'
<1>1. CASE Watch!Exit
  BY <1>1, ExitKeeps DEF Watch!Start, Paid
<1>2. CASE ~Watch!Exit
  <2>1. /\ headPc = "start" /\ headServer' = "up"
        /\ current' = members /\ changedFor' = Watch!Never /\ confirmed' = 0
        /\ headPc' \in {"loop", "handlers"} /\ UNCHANGED <<Watch!env, args, handling, stopping>>
        /\ UNCHANGED <<members, command, budget>>
    BY <1>2 DEF Watch!Start, Watch!Goto, Watch!KeyStarted, Watch!MembershipKey
  <2>2. Watch!TypeOK'
    BY <2>1, HeadNumbers DEF Watch!HeadInvariant, Watch!TypeOK, Watch!env
  <2>3. Watch!StartedAsPlanned' /\ Watch!ClocksAgree'
    BY <2>1 DEF Watch!HeadInvariant, Watch!StartedAsPlanned, Watch!SharesInOrder, Watch!ClocksAgree,
         Watch!Never
  <2> QED BY <2>2, <2>3, NotesSufficeNext DEF Watch!HeadInvariant
<1> QED BY <1>1, <1>2

LEMMA LoopKeeps ==
    ASSUME Watch!HeadInvariant, Watch!InstallHandlers \/ Watch!Loop \/ Watch!Stop
    PROVE  Watch!HeadInvariant'
<1>1. CASE Watch!Exit
  BY <1>1, ExitKeeps DEF Watch!InstallHandlers, Watch!Loop, Watch!Stop, Paid
<1>2. CASE ~Watch!Exit
  <2>1. /\ UNCHANGED <<Watch!env, args, stopping, Watch!seen, confirmed, budget>>
        /\ headPc \in {"handlers", "loop", "stop"} /\ headPc' \in {"loop", "asleep", "nodes"}
        /\ headPc = "stop" <=> headPc' = "nodes"
        /\ handling' \in BOOLEAN /\ headServer' \in {"none", "up", "gone"}
    BY <1>2 DEF Watch!InstallHandlers, Watch!Loop, Watch!Stop, Watch!Goto, Watch!StopHead,
         Watch!HeadInvariant, Watch!TypeOK
  <2>2. Watch!TypeOK'
    BY <2>1 DEF Watch!HeadInvariant, Watch!TypeOK, Watch!env, Watch!seen
  <2>3. Watch!StartedAsPlanned' /\ Watch!ClocksAgree'
    BY <2>1 DEF Watch!HeadInvariant, Watch!StartedAsPlanned, Watch!SharesInOrder, Watch!ClocksAgree,
         Watch!seen
  <2> QED BY <2>2, <2>3, NotesSufficeNext DEF Watch!HeadInvariant
<1> QED BY <1>1, <1>2

\* Time passes for both clocks alike.
LEMMA SleepKeeps ==
    ASSUME Watch!HeadInvariant, Watch!Sleep
    PROVE  Watch!HeadInvariant'
<1>1. PICK d \in PollTimes :
         /\ changedFor' = IF changedFor = Watch!Never THEN Watch!Never ELSE Watch!Later(changedFor, d)
         /\ confirmed' = Watch!Later(confirmed, d)
  BY DEF Watch!Sleep
<1>2. /\ headPc = "asleep" /\ headPc' = "poll"
      /\ UNCHANGED <<Watch!env, args, handling, stopping, members, command, current, headServer, budget>>
  BY DEF Watch!Sleep, Watch!Goto
<1>3. /\ d \in Nat /\ Debounce \in Nat /\ confirmed \in 0..Debounce
      /\ changedFor \in {Watch!Never} \cup 0..Debounce /\ changedFor <= confirmed
  BY HeadNumbers DEF Watch!HeadInvariant, Watch!TypeOK, Watch!ClocksAgree
<1>4. /\ confirmed' \in 0..Debounce /\ changedFor' \in {Watch!Never} \cup 0..Debounce
      /\ changedFor' <= confirmed'
  BY <1>1, <1>3 DEF Watch!Later, Watch!Never
<1>5. Watch!TypeOK'
  BY <1>2, <1>4 DEF Watch!HeadInvariant, Watch!TypeOK, Watch!env
<1>6. Watch!StartedAsPlanned' /\ Watch!ClocksAgree'
  BY <1>2, <1>4 DEF Watch!HeadInvariant, Watch!StartedAsPlanned, Watch!SharesInOrder, Watch!ClocksAgree
<1> QED BY <1>5, <1>6, NotesSufficeNext DEF Watch!HeadInvariant

LEMMA HeadPollKeeps ==
    ASSUME Watch!HeadInvariant, Watch!Poll
    PROVE  Watch!HeadInvariant'
<1>1. /\ headPc = "poll" /\ UNCHANGED <<Watch!env, args, handling, stopping, members, command>>
      /\ UNCHANGED <<current, headServer>>
      /\ Paid
  BY DEF Watch!Poll, Watch!Fails, Watch!Goto, Paid, Watch!seen
<1>2. \/ headPc' = "loop" /\ UNCHANGED <<changedFor, confirmed>>
      \/ headPc' = "loop" /\ changedFor' = Watch!Never /\ confirmed' = 0
      \/ /\ changedFor' = IF changedFor = Watch!Never THEN 0 ELSE changedFor
         /\ headPc' = IF changedFor # Watch!Never /\ changedFor >= Debounce THEN "stop" ELSE "loop"
         /\ UNCHANGED confirmed
  BY DEF Watch!Poll, Watch!Fails, Watch!Goto, Watch!seen, Watch!BackToNormal
<1>3. /\ Debounce \in Nat /\ confirmed \in 0..Debounce
      /\ changedFor \in {Watch!Never} \cup 0..Debounce /\ changedFor <= confirmed
  BY HeadNumbers DEF Watch!HeadInvariant, Watch!TypeOK, Watch!ClocksAgree
<1>4. /\ confirmed' \in 0..Debounce /\ changedFor' \in {Watch!Never} \cup 0..Debounce
      /\ changedFor' <= confirmed' /\ headPc' \in {"loop", "stop"}
      /\ headPc' = "stop" => changedFor' >= Debounce
  BY <1>2, <1>3 DEF Watch!Never
<1>5. Watch!TypeOK'
  BY <1>1, <1>4, PaidType DEF Watch!HeadInvariant, Watch!TypeOK, Watch!env
<1>6. Watch!StartedAsPlanned' /\ Watch!ClocksAgree'
  BY <1>1, <1>4 DEF Watch!HeadInvariant, Watch!StartedAsPlanned, Watch!SharesInOrder, Watch!ClocksAgree
<1> QED BY <1>5, <1>6, NotesSufficeNext DEF Watch!HeadInvariant

\* A signal, or the end of the server, at any moment.
LEMMA HeadSignalKeeps ==
    ASSUME Watch!HeadInvariant, Watch!Signal \/ Watch!Crash
    PROVE  Watch!HeadInvariant'
<1>1. /\ UNCHANGED <<Watch!env, args, handling, Watch!seen, confirmed>> /\ Paid
      /\ headPc' = headPc \/ headPc' = "down"
      /\ stopping' \in BOOLEAN /\ headServer' \in {"none", "up", "gone"}
  BY DEF Watch!Signal, Watch!Crash, Watch!StopHead, Paid, Watch!HeadInvariant, Watch!TypeOK
<1>2. Watch!TypeOK'
  BY <1>1, PaidType DEF Watch!HeadInvariant, Watch!TypeOK, Watch!env, Watch!seen
<1>3. Watch!StartedAsPlanned' /\ Watch!ClocksAgree'
  BY <1>1 DEF Watch!HeadInvariant, Watch!StartedAsPlanned, Watch!SharesInOrder, Watch!ClocksAgree,
       Watch!seen
<1> QED BY <1>2, <1>3, NotesSufficeNext DEF Watch!HeadInvariant

LEMMA HeadInit == Watch!Init => Watch!HeadInvariant
<1> SUFFICES ASSUME Watch!Init PROVE Watch!HeadInvariant
  OBVIOUS
<1>1. table \in [Nodes -> Watch!Rows]
  BY DEF Watch!Init, Watch!Rows
<1>2. Watch!TypeOK
  <2>1. budget \in [changes : 0..MaxChanges, faults : 0..HeadFaults]
    BY HeadNumbers DEF Watch!Init
  <2>2. command.rpc \in Seq(Watch!Member) /\ command.split \in Seq(Nodes)
    BY DEF Watch!Init, Watch!NoCommand
  <2>3. /\ ggufs \in 0..2 /\ changedFor \in {Watch!Never} \cup 0..Debounce /\ confirmed \in 0..Debounce
        /\ members \in Seq(Watch!Member) /\ current \in Seq(Watch!Member)
    BY HeadNumbers DEF Watch!Init
  <2> QED BY <1>1, <2>1, <2>2, <2>3 DEF Watch!Init, Watch!TypeOK
<1>3. Watch!StartedAsPlanned /\ Watch!ClocksAgree
  BY DEF Watch!Init, Watch!StartedAsPlanned, Watch!ClocksAgree, Watch!NoCommand, Watch!Never
<1> QED BY <1>2, <1>3, NotesSuffice DEF Watch!HeadInvariant

LEMMA HeadNext == Watch!HeadInvariant /\ [Watch!Next]_Watch!vars => Watch!HeadInvariant'
<1> SUFFICES ASSUME Watch!HeadInvariant, [Watch!Next]_Watch!vars PROVE Watch!HeadInvariant'
  OBVIOUS
<1>1. CASE UNCHANGED Watch!vars
  <2>1. Watch!TypeOK' /\ Watch!StartedAsPlanned' /\ Watch!ClocksAgree'
    BY <1>1 DEF Watch!vars, Watch!env, Watch!seen, Watch!HeadInvariant, Watch!TypeOK,
         Watch!StartedAsPlanned, Watch!SharesInOrder, Watch!ClocksAgree
  <2> QED BY <2>1, NotesSufficeNext DEF Watch!HeadInvariant
<1>2. CASE Watch!Next
  BY <1>1, <1>2, WorldKeeps, RelaunchKeeps, FetchNodesKeeps, FetchPlacementKeeps, StartKeeps,
     LoopKeeps, SleepKeeps, HeadPollKeeps, HeadSignalKeeps DEF Watch!Next, Watch!Launcher, Watch!Ended
<1> QED BY <1>1, <1>2

\* Whatever moves between two of the launcher's requests: it compares with the
\* machines its server was really started over, and every machine of the --rpc
\* list gets the share computed for it.
THEOREM HeadIsConsistent == Watch!Spec => []HeadInvariant
  BY HeadInit, HeadNext, PTL DEF Watch!Spec, HeadInvariant

\* A server is given up for a new membership only after a whole debounce in which
\* no poll saw its own (the watch loop of main).
THEOREM FlapsDoNotRestart == Watch!Spec => FlapsAreIgnored
<1>1. ASSUME Watch!HeadInvariant PROVE headPc = "stop" => confirmed >= Debounce
  BY <1>1, HeadNumbers DEF Watch!HeadInvariant, Watch!TypeOK, Watch!ClocksAgree, Watch!Never
<1>2. Watch!HeadInvariant /\ [Watch!Next]_Watch!vars
        => [headPc = "stop" /\ headPc' = "nodes" => confirmed >= Debounce]_Watch!vars
  BY <1>1
<1>3. FlapsAreIgnored <=> [][headPc = "stop" /\ headPc' = "nodes" => confirmed >= Debounce]_Watch!vars
  BY DEF FlapsAreIgnored, Watch!FlapsAreIgnored
<1> QED BY <1>2, <1>3, HeadInit, HeadNext, PTL DEF Watch!Spec
=============================================================================
