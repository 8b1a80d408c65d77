----------------------------- MODULE Membership -----------------------------
(***************************************************************************)
(* How a node becomes and stays a member of the pool: the agent's          *)
(* heartbeat loop (node/dain_node.py), the join handshake and tokens of    *)
(* ctl/auth.py, and the handlers of ctl/main.py that serve them, together  *)
(* with the part of ctl/telemetry.py that remembers nodes.                 *)
(*                                                                         *)
(* A handler runs in a thread and is several separately locked steps       *)
(* (token check, registry, telemetry), so handlers interleave.  An agent   *)
(* has one request open at a time, but one it gave up on may still be in   *)
(* the network or in a handler.  Requests and replies may be lost or late, *)
(* the agent and the controller may restart, and all of the controller's   *)
(* state is in memory.                                                     *)
(*                                                                         *)
(* Nonces and tokens are only ever compared, so a secret nobody holds any  *)
(* more may be drawn again.  All parties know the pool secret.             *)
(***************************************************************************)
EXTENDS Naturals, FiniteSets

CONSTANTS
    Nodes,
    Slots,      \* requests open at a time, at most
    Secrets,    \* nonces and tokens, positive numbers
    MaxFaults   \* losses, delays, restarts, expiries, removals, at most

ASSUME MembershipAssumption ==
    /\ IsFiniteSet(Slots) /\ Slots \subseteq Nat \ {0}
    /\ Secrets \subseteq Nat \ {0} /\ MaxFaults \in Nat

VARIABLES
    \* the agents
    mine,         \* the slot of the request the agent waits for
    registered,   \* heartbeat_loop's local variable
    held,         \* bearer_token
    \* the network and the handlers
    call,         \* what every slot is about and how far it has come
    \* the controller
    challenges,   \* AUTH.challenges
    token,        \* AUTH.tokens
    expired,      \* the token of the node is past expires_at
    member,       \* REGISTRY: profile.state
    shown,        \* nodes a metrics frame mentions, with a sample or an error
    polled,       \* nodes the current poll_once has asked
    \* the environment
    faults

agentVars == <<mine, registered, held>>
authVars == <<challenges, token, expired>>
vars == <<agentVars, call, authVars, member, shown, polled, faults>>

None == 0
Free == [node |-> None, kind |-> "none", secret |-> None, step |-> "free"]

Kinds == {"challenge", "join", "beat", "delete"}
Steps == {"sent", "register", "beat", "record", "forget", "revoke", "ok", "refused", "lost"}
Calls == [node : Nodes, kind : Kinds, secret : Secrets \cup {None}, step : Steps]
Challenges == [node : Nodes, nonce : Secrets, stale : BOOLEAN]

TypeOK ==
    /\ mine \in [Nodes -> Slots \cup {None}]
    /\ registered \in [Nodes -> BOOLEAN]
    /\ held \in [Nodes -> Secrets \cup {None}]
    /\ call \in [Slots -> Calls \cup {Free}]
    /\ challenges \subseteq Challenges
    /\ token \in [Nodes -> Secrets \cup {None}]
    /\ expired \in [Nodes -> BOOLEAN]
    /\ member \in [Nodes -> {"absent", "joining", "idle", "offline"}]
    /\ shown \subseteq Nodes
    /\ polled \subseteq Nodes
    /\ faults \in 0..MaxFaults
    /\ \A n \in Nodes : expired[n] => token[n] # None

Init ==
    /\ mine = [n \in Nodes |-> None]
    /\ registered = [n \in Nodes |-> FALSE]
    /\ held = [n \in Nodes |-> None]
    /\ call = [s \in Slots |-> Free]
    /\ challenges = {}
    /\ token = [n \in Nodes |-> None]
    /\ expired = [n \in Nodes |-> FALSE]
    /\ member = [n \in Nodes |-> "absent"]
    /\ shown = {}
    /\ polled = {}
    /\ faults = 0

-----------------------------------------------------------------------------
InUse ==
    {c.nonce : c \in challenges} \cup {token[n] : n \in Nodes}
        \cup {held[n] : n \in Nodes} \cup {call[s].secret : s \in Slots}
Unused == Secrets \ InUse
Fresh == CHOOSE x \in Unused : TRUE     \* token_factory(32)

FreeSlots == {s \in Slots : call[s] = Free}
AnySlot == CHOOSE s \in FreeSlots : TRUE
Request(n, kind, secret) == [node |-> n, kind |-> kind, secret |-> secret, step |-> "sent"]

At(s, kind, step) == call[s].kind = kind /\ call[s].step = step
To(s, step) == call' = [call EXCEPT ![s].step = step]

\* The handler returns: nobody reads the reply to a request that was given up.
Reply(s, secret, step) ==
    call' = [call EXCEPT ![s] =
                IF mine[call[s].node] = s THEN [@ EXCEPT !.secret = secret, !.step = step]
                                          ELSE Free]

Fault == faults < MaxFaults /\ faults' = faults + 1

-----------------------------------------------------------------------------
(* The agent: heartbeat_loop, join_pool, send_heartbeat *)

\* join_pool up to its first await.
AskChallenge(n) ==
    /\ mine[n] = None /\ ~registered[n] /\ FreeSlots # {}
    /\ held' = [held EXCEPT ![n] = None]
    /\ mine' = [mine EXCEPT ![n] = AnySlot]
    /\ call' = [call EXCEPT ![AnySlot] = Request(n, "challenge", None)]
    /\ UNCHANGED <<registered, authVars, member, shown, polled, faults>>

\* join_pool signs the nonce and asks to join.
AskJoin(n) ==
    /\ mine[n] # None /\ At(mine[n], "challenge", "ok")
    /\ call' = [call EXCEPT ![mine[n]] = Request(n, "join", @.secret)]
    /\ UNCHANGED <<agentVars, authVars, member, shown, polled, faults>>

\* mutant: the agent goes on waiting for an answer it has had
WaitOn(n) ==
    /\ UNCHANGED mine
    /\ call' = [call EXCEPT ![mine[n]] = Free]
\* The open request is over, and the agent sleeps until its next turn.
Done(n) ==
    /\ mine' = [mine EXCEPT ![n] = None]
    /\ call' = [call EXCEPT ![mine[n]] = Free]

Joined(n) ==
    /\ mine[n] # None /\ At(mine[n], "join", "ok")
    /\ held' = [held EXCEPT ![n] = call[mine[n]].secret]
    /\ registered' = [registered EXCEPT ![n] = TRUE]
    /\ Done(n)
    /\ UNCHANGED <<authVars, member, shown, polled, faults>>

\* send_heartbeat; it would go back to joining without a token, but see
\* RegisteredHoldsToken.
SendBeat(n) ==
    /\ mine[n] = None /\ registered[n] /\ held[n] # None /\ FreeSlots # {}
    /\ mine' = [mine EXCEPT ![n] = AnySlot]
    /\ call' = [call EXCEPT ![AnySlot] = Request(n, "beat", held[n])]
    /\ UNCHANGED <<registered, held, authVars, member, shown, polled, faults>>

BeatAccepted(n) ==
    /\ mine[n] # None /\ At(mine[n], "beat", "ok")
    /\ Done(n)
    /\ UNCHANGED <<registered, held, authVars, member, shown, polled, faults>>

\* mutant: 401 and 404 are taken for passing errors
RefusalIgnored(n) ==
    /\ mine[n] # None /\ call[mine[n]].step = "refused"
    /\ Done(n)
    /\ UNCHANGED <<registered, held, authVars, member, shown, polled, faults>>
\* 401 or 404 to a heartbeat, 403 to a join: join again.
Refused(n) ==
    /\ mine[n] # None /\ call[mine[n]].step = "refused"
    /\ held' = [held EXCEPT ![n] = None]
    /\ registered' = [registered EXCEPT ![n] = FALSE]
    /\ Done(n)
    /\ UNCHANGED <<authVars, member, shown, polled, faults>>

\* mutant: a join without an answer counts as done
RegisteredAnyway(n) == TRUE
\* A heartbeat without an answer is ctl's to count; a join has failed.
AfterNoAnswer(n) == call[mine[n]].kind = "beat"

\* httpx.HTTPError: no answer, because the connection broke ...
Broken(n) ==
    /\ mine[n] # None /\ call[mine[n]].step = "lost"
    /\ registered' = [registered EXCEPT ![n] = AfterNoAnswer(n)]
    /\ Done(n)
    /\ UNCHANGED <<held, authVars, member, shown, polled, faults>>

\* The request in the agent's slot goes on without the agent.
Abandon(n) ==
    /\ mine' = [mine EXCEPT ![n] = None]
    /\ call' = [call EXCEPT ![mine[n]] =
                   IF @.step \in {"ok", "refused", "lost"} THEN Free ELSE @]

\* ... or because it did not come within HTTP_TIMEOUT_S.
Timeout(n) ==
    /\ mine[n] # None
    /\ Fault
    /\ registered' = [registered EXCEPT ![n] = AfterNoAnswer(n)]
    /\ Abandon(n)
    /\ UNCHANGED <<held, authVars, member, shown, polled>>

AgentRestart(n) ==
    /\ mine[n] # None \/ registered[n]
    /\ Fault
    /\ registered' = [registered EXCEPT ![n] = FALSE]
    /\ held' = [held EXCEPT ![n] = None]
    /\ IF mine[n] = None THEN UNCHANGED <<mine, call>> ELSE Abandon(n)
    /\ UNCHANGED <<authVars, member, shown, polled>>

-----------------------------------------------------------------------------
(* The handlers of ctl/main.py, on a request in slot s *)

\* create_join_challenge: AUTH.issue_challenge, which prunes expired ones.
IssueChallenge(s) ==
    /\ At(s, "challenge", "sent") /\ Unused # {}
    /\ challenges' = {c \in challenges : ~c.stale}
           \cup {[node |-> call[s].node, nonce |-> Fresh, stale |-> FALSE]}
    /\ Reply(s, Fresh, "ok")
    /\ UNCHANGED <<agentVars, token, expired, member, shown, polled, faults>>

\* join_node: AUTH.complete_join, with the challenge of a valid nonce ...
CompleteJoin(s) ==
    LET n == call[s].node
        challenge == [node |-> n, nonce |-> call[s].secret, stale |-> FALSE] IN
    /\ At(s, "join", "sent") /\ challenge \in challenges /\ Unused # {}
    /\ challenges' = challenges \ {challenge}
    /\ token' = [token EXCEPT ![n] = Fresh]
    /\ expired' = [expired EXCEPT ![n] = FALSE]
    /\ call' = [call EXCEPT ![s].secret = Fresh, ![s].step = "register"]
    /\ UNCHANGED <<agentVars, member, shown, polled, faults>>

\* ... or AuthenticationError: the nonce is unknown, or expired and now dropped.
RefuseJoin(s) ==
    LET n == call[s].node
        nonce == call[s].secret IN
    /\ At(s, "join", "sent")
    /\ [node |-> n, nonce |-> nonce, stale |-> FALSE] \notin challenges
    /\ challenges' = {c \in challenges : c.nonce # nonce \/ c.node # n}
    /\ Reply(s, nonce, "refused")
    /\ UNCHANGED <<agentVars, token, expired, member, shown, polled, faults>>

\* join_node: REGISTRY.register, and the reply.
Register(s) ==
    LET n == call[s].node IN
    /\ At(s, "join", "register")
    /\ member' = [member EXCEPT ![n] = IF @ = "absent" THEN "joining" ELSE @]
    /\ Reply(s, call[s].secret, "ok")
    /\ UNCHANGED <<agentVars, authVars, shown, polled, faults>>

\* heartbeat: AUTH.validate_token; an expired token is dropped whoever asks.
CheckToken(s) ==
    LET n == call[s].node IN
    /\ At(s, "beat", "sent")
    /\ IF token[n] # None /\ ~expired[n] /\ token[n] = call[s].secret
         THEN To(s, "beat")
         ELSE Reply(s, call[s].secret, "refused")
    /\ token' = [token EXCEPT ![n] = IF expired[n] THEN None ELSE @]
    /\ expired' = [expired EXCEPT ![n] = FALSE]
    /\ UNCHANGED <<agentVars, challenges, member, shown, polled, faults>>

\* heartbeat: REGISTRY.heartbeat, 404 for a node without a record.
RecordBeat(s) ==
    LET n == call[s].node IN
    /\ At(s, "beat", "beat")
    /\ IF member[n] = "absent"
         THEN Reply(s, call[s].secret, "refused") /\ UNCHANGED member
         ELSE To(s, "record") /\ member' = [member EXCEPT ![n] = "idle"]
    /\ UNCHANGED <<agentVars, authVars, shown, polled, faults>>

\* heartbeat: TELEMETRY.record, and the reply.
RecordSample(s) ==
    /\ At(s, "beat", "record")
    /\ shown' = shown \cup {call[s].node}
    /\ Reply(s, call[s].secret, "ok")
    /\ UNCHANGED <<agentVars, authVars, member, polled, faults>>

\* Somebody sends DELETE /api/nodes/{n}.
AskDelete(n) ==
    /\ FreeSlots # {}
    /\ Fault
    /\ call' = [call EXCEPT ![AnySlot] = Request(n, "delete", None)]
    /\ UNCHANGED <<agentVars, authVars, member, shown, polled>>

\* delete_node: REGISTRY.remove, 404 for a node without a record.
RemoveRecord(s) ==
    LET n == call[s].node IN
    /\ At(s, "delete", "sent")
    /\ IF member[n] = "absent" THEN call' = [call EXCEPT ![s] = Free] ELSE To(s, "forget")
    /\ member' = [member EXCEPT ![n] = "absent"]
    /\ UNCHANGED <<agentVars, authVars, shown, polled, faults>>

\* delete_node: TELEMETRY.remove.
ForgetSamples(s) ==
    /\ At(s, "delete", "forget")
    /\ shown' = shown \ {call[s].node}
    /\ To(s, "revoke")
    /\ UNCHANGED <<agentVars, authVars, member, polled, faults>>

\* delete_node: AUTH.revoke, and the reply.
Revoke(s) ==
    LET n == call[s].node IN
    /\ At(s, "delete", "revoke")
    /\ challenges' = {c \in challenges : c.node # n}
    /\ token' = [token EXCEPT ![n] = None]
    /\ expired' = [expired EXCEPT ![n] = FALSE]
    /\ call' = [call EXCEPT ![s] = Free]
    /\ UNCHANGED <<agentVars, member, shown, polled, faults>>

-----------------------------------------------------------------------------
(* The controller's own tasks, and what else may happen *)

\* poll_once asks every member that is up ...
PollBegin ==
    /\ polled = {}
    /\ polled' = {n \in Nodes : member[n] \in {"joining", "idle"}}
    /\ polled' # {}
    /\ UNCHANGED <<agentVars, call, authVars, member, shown, faults>>

\* ... and records a sample or an error for each when all have answered.
PollEnd ==
    /\ polled # {}
    /\ shown' = shown \cup polled
    /\ polled' = {}
    /\ UNCHANGED <<agentVars, call, authVars, member, faults>>

\* REGISTRY.sweep, after a silence.
SweepOffline(n) ==
    /\ member[n] \in {"joining", "idle"}
    /\ Fault
    /\ member' = [member EXCEPT ![n] = "offline"]
    /\ UNCHANGED <<agentVars, call, authVars, shown, polled>>

\* token_ttl_s and challenge_ttl_s pass.
ExpireToken(n) ==
    /\ token[n] # None /\ ~expired[n]
    /\ Fault
    /\ expired' = [expired EXCEPT ![n] = TRUE]
    /\ UNCHANGED <<agentVars, call, challenges, token, member, shown, polled>>

ExpireChallenge(c) ==
    /\ ~c.stale
    /\ Fault
    /\ challenges' = (challenges \ {c}) \cup {[c EXCEPT !.stale = TRUE]}
    /\ UNCHANGED <<agentVars, call, token, expired, member, shown, polled>>

\* A request or a reply is lost.
Lose(s) ==
    /\ call[s].step \in {"sent", "ok", "refused"}
    /\ Fault
    /\ call' = [call EXCEPT ![s] = IF mine[@.node] = s THEN [@ EXCEPT !.step = "lost"] ELSE Free]
    /\ UNCHANGED <<agentVars, authVars, member, shown, polled>>

\* "Control-plane state is in memory": a restart forgets everything.
CtlRestart ==
    /\ Fault
    /\ call' = [s \in Slots |->
                   IF call[s] # Free /\ mine[call[s].node] = s
                   THEN [call[s] EXCEPT !.step = "lost"] ELSE Free]
    /\ challenges' = {}
    /\ token' = [n \in Nodes |-> None]
    /\ expired' = [n \in Nodes |-> FALSE]
    /\ member' = [n \in Nodes |-> "absent"]
    /\ shown' = {}
    /\ polled' = {}
    /\ UNCHANGED agentVars

Agent(n) ==
    \/ AskChallenge(n) \/ AskJoin(n) \/ Joined(n)
    \/ SendBeat(n) \/ BeatAccepted(n) \/ Refused(n) \/ Broken(n)

Handler(s) ==
    \/ IssueChallenge(s) \/ CompleteJoin(s) \/ RefuseJoin(s) \/ Register(s)
    \/ CheckToken(s) \/ RecordBeat(s) \/ RecordSample(s)
    \/ RemoveRecord(s) \/ ForgetSamples(s) \/ Revoke(s)

Poll == PollBegin \/ PollEnd

Disturbance ==
    \/ \E n \in Nodes :
           \/ Timeout(n) \/ AgentRestart(n) \/ AskDelete(n)
           \/ SweepOffline(n) \/ ExpireToken(n)
    \/ \E c \in challenges : ExpireChallenge(c)
    \/ \E s \in Slots : Lose(s)
    \/ CtlRestart

Next ==
    \/ \E n \in Nodes : Agent(n)
    \/ \E s \in Slots : Handler(s)
    \/ Poll
    \/ Disturbance

Spec == Init /\ [][Next]_vars

\* The agent's loop and the controller's threads run; disturbances may happen.
FairSpec ==
    /\ Spec
    /\ \A n \in Nodes : WF_vars(Agent(n))
    /\ \A s \in Slots : WF_vars(Handler(s))

-----------------------------------------------------------------------------
(* Properties *)

\* The agent beats only with a token: no way through the answers, losses and
\* restarts leaves it registered without one, so that send_heartbeat's early
\* return never fires.
RegisteredHoldsToken == \A n \in Nodes : registered[n] => held[n] # None

\* What makes it so: a request to join carries a nonce and a heartbeat a token;
\* an agent waits for a request of its own that is still under way, and while it
\* waits for a heartbeat it holds the token it sent.
WellFormed(c) ==
    \/ c = Free
    \/ /\ c \in Calls
       /\ c.kind \in {"join", "beat"} \/ (c.kind = "challenge" /\ c.step = "ok")
             => c.secret # None
CallsMatch ==
    /\ \A s \in Slots : WellFormed(call[s])
    /\ \A n \in Nodes : mine[n] # None =>
           /\ call[mine[n]] # Free
           /\ call[mine[n]].node = n /\ call[mine[n]].kind # "delete"
           /\ call[mine[n]].kind = "beat" => held[n] # None

\* Through every loss, restart and late answer the state keeps its types, no
\* request is lost track of, and an agent beats only with a token
\* (heartbeat_loop); inductive.
MembershipInvariant == TypeOK /\ CallsMatch /\ RegisteredHoldsToken

\* "Join once, then heartbeat forever, re-joining whenever ctl forgets us":
\* once the disturbances are over, every agent comes to hold the token that ctl
\* knows and to be an idle member, for good, whatever mixture of lost answers,
\* late handlers, restarts, expiries and removals came before.
Rejoins ==
    \A n \in Nodes :
        <>[](registered[n] /\ held[n] = token[n] /\ ~expired[n] /\ member[n] = "idle")
=============================================================================
