--------------------------- MODULE MembershipProofs ---------------------------
(***************************************************************************)
(* Proofs about joining and heartbeating: MembershipInvariant, for any     *)
(* nodes, any number of requests under way and any disturbances.           *)
(*                                                                         *)
(* A step touches one request, and does one of three things with it: it    *)
(* sends it, moves it on (or drops it when nobody waits for it), or takes  *)
(* its answer.  Each has its lemma; the actions are instances.             *)
(***************************************************************************)
EXTENDS Membership, TLAPS

\* No slot and no secret is "none".
LEMMA NoneIsNone == None \notin Slots /\ None \notin Secrets
  BY MembershipAssumption DEF None

LEMMA FreeIsNoCall == Free \notin Calls
  BY DEF Free, Calls, Kinds

\* The agent that waits for a request is the one the request names.
LEMMA WaitsForOwn ==
    ASSUME MembershipInvariant, NEW n \in Nodes, NEW s \in Slots, mine[n] = s
    PROVE  call[s] \in Calls /\ call[s].node = n /\ mine[call[s].node] = s
  BY NoneIsNone DEF MembershipInvariant, CallsMatch, WellFormed

\* What CallsMatch says of one agent.
Waits(n) ==
    mine[n] # None =>
        /\ call[mine[n]] # Free
        /\ call[mine[n]].node = n /\ call[mine[n]].kind # "delete"
        /\ call[mine[n]].kind = "beat" => held[n] # None

LEMMA CallsPerAgent == CallsMatch <=> (\A s \in Slots : WellFormed(call[s]))
                                      /\ \A n \in Nodes : Waits(n)
  BY DEF CallsMatch, Waits

LEMMA CallsPerAgentNext == CallsMatch' <=> (\A s \in Slots : WellFormed(call[s])')
                                           /\ \A n \in Nodes : Waits(n)'
  BY DEF CallsMatch, Waits

\* A handler, or the network, moves a request on; one that is dropped has nobody
\* waiting for it.
LEMMA MovedOn ==
    ASSUME MembershipInvariant, NEW s \in Slots, NEW c, WellFormed(c),
           call' = [call EXCEPT ![s] = c], UNCHANGED <<mine, held>>,
           \/ /\ call[s] \in Calls /\ c \in Calls /\ c.node = call[s].node
              /\ c.kind = call[s].kind \/ c.kind = "join"
           \/ c = Free /\ \A n \in Nodes : mine[n] # s
    PROVE  call' \in [Slots -> Calls \cup {Free}] /\ CallsMatch'
<1>1. /\ call \in [Slots -> Calls \cup {Free}] /\ mine \in [Nodes -> Slots \cup {None}]
      /\ \A t \in Slots : WellFormed(call[t]) /\ \A n \in Nodes : Waits(n)
  BY CallsPerAgent DEF MembershipInvariant, TypeOK
<1>2. c \in Calls \cup {Free}
  BY DEF WellFormed
<1>3. call' \in [Slots -> Calls \cup {Free}]
  BY <1>1, <1>2
<1>4. call'[s] = c /\ \A t \in Slots \ {s} : call'[t] = call[t]
  BY <1>1
<1>5. ASSUME NEW t \in Slots PROVE WellFormed(call[t])'
  BY <1>1, <1>4 DEF WellFormed
<1>6. ASSUME NEW n \in Nodes PROVE Waits(n)'
  <2>1. CASE mine[n] = s
    BY <1>1, <1>4, <2>1, FreeIsNoCall, NoneIsNone DEF Waits
  <2>2. CASE mine[n] # s
    BY <1>1, <1>4, <2>2 DEF Waits
  <2> QED BY <2>1, <2>2
<1> QED BY <1>3, <1>5, <1>6, CallsPerAgentNext

\* A request is sent, by an agent that waits for it or by somebody else.
LEMMA SentOff ==
    ASSUME MembershipInvariant, NEW s \in FreeSlots, NEW n \in Nodes, NEW kind \in Kinds,
           NEW secret \in Secrets \cup {None},
           kind \in {"join", "beat"} => secret # None,
           call' = [call EXCEPT ![s] = Request(n, kind, secret)],
           \/ kind = "delete" /\ UNCHANGED <<mine, held>>
           \/ /\ kind # "delete" /\ mine[n] = None /\ mine' = [mine EXCEPT ![n] = s]
              /\ kind = "beat" => held'[n] # None
              /\ \A m \in Nodes \ {n} : held'[m] = held[m]
    PROVE  call' \in [Slots -> Calls \cup {Free}] /\ CallsMatch'
<1> DEFINE c == Request(n, kind, secret)
<1>1. /\ call \in [Slots -> Calls \cup {Free}] /\ mine \in [Nodes -> Slots \cup {None}]
      /\ \A t \in Slots : WellFormed(call[t]) /\ \A m \in Nodes : Waits(m)
  BY CallsPerAgent DEF MembershipInvariant, TypeOK
<1>2. s \in Slots /\ call[s] = Free
  BY DEF FreeSlots
<1>3. c \in Calls /\ c.node = n /\ c.kind = kind /\ WellFormed(c) /\ c # Free
  <2>1. c \in Calls
    BY DEF Request, Calls, Steps
  <2>2. c.node = n /\ c.kind = kind /\ c.secret = secret /\ c.step = "sent"
    BY DEF Request
  <2> QED BY <2>1, <2>2, FreeIsNoCall DEF WellFormed
<1> HIDE DEF c
<1>4. call'[s] = c /\ \A t \in Slots \ {s} : call'[t] = call[t]
  BY <1>1, <1>2 DEF c
<1>5. call' \in [Slots -> Calls \cup {Free}]
  BY <1>1, <1>3 DEF c
<1>6. ASSUME NEW t \in Slots PROVE WellFormed(call[t])'
  BY <1>1, <1>3, <1>4 DEF WellFormed
<1>7. \A m \in Nodes : mine[m] # s
  BY <1>1, <1>2, NoneIsNone DEF Waits
<1>8. ASSUME NEW m \in Nodes PROVE Waits(m)'
  <2>1. CASE m = n /\ kind # "delete"
    BY <1>1, <1>3, <1>4, <2>1 DEF Waits
  <2>2. CASE ~(m = n /\ kind # "delete")
    <3>1. mine'[m] = mine[m] /\ held'[m] = held[m]
      BY <1>1, <2>2
    <3> QED BY <1>1, <1>4, <1>7, <3>1 DEF Waits
  <2> QED BY <2>1, <2>2
<1> QED BY <1>5, <1>6, <1>8, CallsPerAgentNext

\* The agent stops waiting: its request is over, or goes on without it.
LEMMA WaitedEnough ==
    ASSUME MembershipInvariant, NEW n \in Nodes, mine[n] # None,
           mine' = [mine EXCEPT ![n] = None],
           \/ call' = [call EXCEPT ![mine[n]] = Free]
           \/ call' = call,
           \A m \in Nodes \ {n} : held'[m] = held[m]
    PROVE  /\ call' \in [Slots -> Calls \cup {Free}] /\ CallsMatch'
           /\ mine' \in [Nodes -> Slots \cup {None}]
<1>1. /\ call \in [Slots -> Calls \cup {Free}] /\ mine \in [Nodes -> Slots \cup {None}]
      /\ \A t \in Slots : WellFormed(call[t]) /\ \A m \in Nodes : Waits(m)
  BY CallsPerAgent DEF MembershipInvariant, TypeOK
<1>2. call' \in [Slots -> Calls \cup {Free}] /\ mine' \in [Nodes -> Slots \cup {None}]
  BY <1>1
<1>3. \A t \in Slots : call'[t] = Free \/ call'[t] = call[t]
  BY <1>1
<1>4. \A t \in Slots \ {mine[n]} : call'[t] = call[t]
  BY <1>1
<1>5. ASSUME NEW t \in Slots PROVE WellFormed(call[t])'
  BY <1>1, <1>3 DEF WellFormed
<1>6. ASSUME NEW m \in Nodes PROVE Waits(m)'
  <2>1. CASE m = n
    BY <1>1, <2>1 DEF Waits
  <2>2. CASE m # n
    <3>1. mine'[m] = mine[m] /\ held'[m] = held[m]
      BY <1>1, <2>2
    <3>2. mine[m] # None => mine[m] \in Slots /\ mine[m] # mine[n]
      BY <1>1, <2>2 DEF Waits
    <3> QED BY <1>1, <1>4, <3>1, <3>2 DEF Waits
  <2> QED BY <2>1, <2>2
<1> QED BY <1>2, <1>5, <1>6, CallsPerAgentNext

-----------------------------------------------------------------------------
(* The actions. *)

\* A fresh secret is one, when any is left.
LEMMA FreshIsSecret == Unused # {} => Fresh \in Secrets
  BY DEF Unused, Fresh

LEMMA AnySlotIsFree == FreeSlots # {} => AnySlot \in FreeSlots
  BY DEF AnySlot

LEMMA FaultCounted == faults \in 0..MaxFaults /\ Fault => faults' \in 0..MaxFaults
  BY MembershipAssumption DEF Fault

LEMMA AskChallengeKeeps ==
    ASSUME MembershipInvariant, NEW n \in Nodes, AskChallenge(n)
    PROVE  MembershipInvariant'
<1> DEFINE s == AnySlot
<1>1. s \in FreeSlots /\ s \in Slots
  BY AnySlotIsFree DEF AskChallenge, FreeSlots
<1> HIDE DEF s
<1>2. /\ mine[n] = None /\ mine' = [mine EXCEPT ![n] = s] /\ ~registered[n]
      /\ held' = [held EXCEPT ![n] = None]
      /\ call' = [call EXCEPT ![s] = Request(n, "challenge", None)]
      /\ UNCHANGED <<registered, authVars, member, shown, polled, faults>>
  BY DEF AskChallenge, s
<1>3. mine \in [Nodes -> Slots \cup {None}] /\ held \in [Nodes -> Secrets \cup {None}]
  BY DEF MembershipInvariant, TypeOK
<1>4. call' \in [Slots -> Calls \cup {Free}] /\ CallsMatch'
  BY <1>1, <1>2, <1>3, SentOff DEF Kinds
<1>5. TypeOK'
  BY <1>1, <1>2, <1>3, <1>4 DEF MembershipInvariant, TypeOK, authVars
<1>6. RegisteredHoldsToken'
  BY <1>2, <1>3 DEF MembershipInvariant, RegisteredHoldsToken
<1> QED BY <1>4, <1>5, <1>6 DEF MembershipInvariant

LEMMA SendBeatKeeps ==
    ASSUME MembershipInvariant, NEW n \in Nodes, SendBeat(n)
    PROVE  MembershipInvariant'
<1> DEFINE s == AnySlot
<1>1. s \in FreeSlots /\ s \in Slots
  BY AnySlotIsFree DEF SendBeat, FreeSlots
<1> HIDE DEF s
<1>2. /\ mine[n] = None /\ mine' = [mine EXCEPT ![n] = s] /\ held[n] # None
      /\ call' = [call EXCEPT ![s] = Request(n, "beat", held[n])]
      /\ UNCHANGED <<registered, held, authVars, member, shown, polled, faults>>
  BY DEF SendBeat, s
<1>3. mine \in [Nodes -> Slots \cup {None}] /\ held[n] \in Secrets \cup {None}
  BY DEF MembershipInvariant, TypeOK
<1>4. call' \in [Slots -> Calls \cup {Free}] /\ CallsMatch'
  BY <1>1, <1>2, <1>3, SentOff DEF Kinds
<1>5. TypeOK'
  BY <1>1, <1>2, <1>3, <1>4 DEF MembershipInvariant, TypeOK, authVars
<1>6. RegisteredHoldsToken'
  BY <1>2 DEF MembershipInvariant, RegisteredHoldsToken
<1> QED BY <1>4, <1>5, <1>6 DEF MembershipInvariant

LEMMA AskJoinKeeps ==
    ASSUME MembershipInvariant, NEW n \in Nodes, AskJoin(n)
    PROVE  MembershipInvariant'
<1>1. PICK s \in Slots : s = mine[n]
  BY DEF AskJoin, MembershipInvariant, TypeOK
<1>2. /\ call[s].kind = "challenge" /\ call[s].step = "ok"
      /\ call' = [call EXCEPT ![s] = Request(n, "join", call[s].secret)]
      /\ UNCHANGED <<agentVars, authVars, member, shown, polled, faults>>
  BY <1>1 DEF AskJoin, At
<1>3. call[s] \in Calls /\ call[s].node = n
  BY <1>1, WaitsForOwn
<1>4. call[s].secret \in Secrets
  BY <1>2, <1>3, FreeIsNoCall DEF MembershipInvariant, CallsMatch, WellFormed, Calls
<1> DEFINE c == Request(n, "join", call[s].secret)
<1>5. c \in Calls /\ c.node = n /\ c.kind = "join" /\ c.secret # None
  BY <1>4, NoneIsNone DEF Request, Calls, Kinds, Steps
<1> HIDE DEF c
<1>6. WellFormed(c)
  BY <1>5 DEF WellFormed
<1>7. call' \in [Slots -> Calls \cup {Free}] /\ CallsMatch'
  BY <1>2, <1>3, <1>5, <1>6, MovedOn DEF c, agentVars
<1>8. TypeOK' /\ RegisteredHoldsToken'
  BY <1>2, <1>7 DEF MembershipInvariant, TypeOK, RegisteredHoldsToken, agentVars, authVars
<1> QED BY <1>7, <1>8 DEF MembershipInvariant

\* The agent has its answer, or gives up waiting for one.
LEMMA AgentDoneKeeps ==
    ASSUME MembershipInvariant, NEW n \in Nodes,
           \/ Joined(n) \/ BeatAccepted(n) \/ Refused(n) \/ Broken(n) \/ Timeout(n)
    PROVE  MembershipInvariant'
<1>1. PICK s \in Slots : s = mine[n]
  BY DEF Joined, BeatAccepted, Refused, Broken, Timeout, MembershipInvariant, TypeOK
<1>2. /\ mine[n] # None /\ mine' = [mine EXCEPT ![n] = None]
      /\ UNCHANGED <<authVars, member, shown, polled>>
  BY DEF Joined, BeatAccepted, Refused, Broken, Timeout, Done, Abandon
<1>3. call' = [call EXCEPT ![mine[n]] = Free] \/ call' = call
  <2>1. call \in [Slots -> Calls \cup {Free}]
    BY DEF MembershipInvariant, TypeOK
  <2>2. CASE Timeout(n)
    BY <1>1, <2>1, <2>2 DEF Timeout, Abandon
  <2>3. CASE ~Timeout(n)
    BY <2>3 DEF Joined, BeatAccepted, Refused, Broken, Done
  <2> QED BY <2>2, <2>3
<1>4. /\ held \in [Nodes -> Secrets \cup {None}] /\ registered \in [Nodes -> BOOLEAN]
      /\ faults \in 0..MaxFaults
  BY DEF MembershipInvariant, TypeOK
<1>5. call[s] \in Calls /\ call[s].secret \in Secrets \cup {None}
      /\ (call[s].kind = "join" => call[s].secret # None)
      /\ (call[s].kind = "beat" => held[n] # None)
  <2>1. call[s] \in Calls
    BY <1>1, WaitsForOwn
  <2>2. call[s].secret \in Secrets \cup {None}
    BY <2>1 DEF Calls
  <2>3. WellFormed(call[s]) /\ (call[s].kind = "beat" => held[n] # None)
    BY <1>1, <1>2 DEF MembershipInvariant, CallsMatch
  <2> QED BY <2>1, <2>2, <2>3, FreeIsNoCall DEF WellFormed
<1>6. PICK r \in BOOLEAN, h \in Secrets \cup {None} :
        /\ registered' = [registered EXCEPT ![n] = r] /\ held' = [held EXCEPT ![n] = h]
        /\ r => h # None
  <2>1. CASE Joined(n)
    BY <1>1, <1>5, <2>1 DEF Joined, At
  <2>2. CASE BeatAccepted(n)
    <3>1. registered' = [registered EXCEPT ![n] = registered[n]] /\ registered[n] \in BOOLEAN
      BY <1>4, <2>2 DEF BeatAccepted
    <3>2. held' = [held EXCEPT ![n] = held[n]] /\ held[n] \in Secrets \cup {None}
      BY <1>4, <2>2 DEF BeatAccepted
    <3>3. registered[n] => held[n] # None
      BY DEF MembershipInvariant, RegisteredHoldsToken
    <3> QED BY <3>1, <3>2, <3>3
  <2>3. CASE Refused(n)
    BY <2>3 DEF Refused
  <2>4. CASE Broken(n) \/ Timeout(n)
    <3>1. held' = [held EXCEPT ![n] = held[n]] /\ held[n] \in Secrets \cup {None}
      BY <1>4, <2>4 DEF Broken, Timeout
    <3>2. registered' = [registered EXCEPT ![n] = call[s].kind = "beat"]
      BY <1>1, <2>4 DEF Broken, Timeout, AfterNoAnswer
    <3>3. (call[s].kind = "beat") \in BOOLEAN
      OBVIOUS
    <3> QED BY <1>5, <3>1, <3>2, <3>3
  <2> QED BY <2>1, <2>2, <2>3, <2>4
<1>7. /\ call' \in [Slots -> Calls \cup {Free}] /\ CallsMatch'
      /\ mine' \in [Nodes -> Slots \cup {None}]
  <2>1. \A m \in Nodes \ {n} : held'[m] = held[m]
    BY <1>4, <1>6
  <2> QED BY <1>2, <1>3, <2>1, WaitedEnough
<1>8. faults' \in 0..MaxFaults
  BY <1>4, FaultCounted DEF Joined, BeatAccepted, Refused, Broken, Timeout
<1>9. TypeOK'
  <2>1. registered' \in [Nodes -> BOOLEAN] /\ held' \in [Nodes -> Secrets \cup {None}]
    BY <1>4, <1>6
  <2> QED BY <1>2, <1>7, <1>8, <2>1 DEF MembershipInvariant, TypeOK, authVars
<1>10. RegisteredHoldsToken'
  <2> SUFFICES ASSUME NEW m \in Nodes, registered'[m] PROVE held'[m] # None
    BY DEF RegisteredHoldsToken
  <2>1. CASE m = n
    <3>1. registered'[m] = r /\ held'[m] = h
      BY <1>4, <1>6, <2>1
    <3> QED BY <1>6, <3>1
  <2>2. CASE m # n
    <3>1. registered'[m] = registered[m] /\ held'[m] = held[m]
      BY <1>4, <1>6, <2>2
    <3> QED BY <3>1 DEF MembershipInvariant, RegisteredHoldsToken
  <2> QED BY <2>1, <2>2
<1> QED BY <1>7, <1>9, <1>10 DEF MembershipInvariant

LEMMA AgentRestartKeeps ==
    ASSUME MembershipInvariant, NEW n \in Nodes, AgentRestart(n)
    PROVE  MembershipInvariant'
<1>1. /\ registered' = [registered EXCEPT ![n] = FALSE]
      /\ held' = [held EXCEPT ![n] = None]
      /\ UNCHANGED <<authVars, member, shown, polled>> /\ Fault
  BY DEF AgentRestart
<1>2. /\ held \in [Nodes -> Secrets \cup {None}] /\ registered \in [Nodes -> BOOLEAN]
      /\ faults \in 0..MaxFaults /\ mine \in [Nodes -> Slots \cup {None}]
      /\ call \in [Slots -> Calls \cup {Free}]
  BY DEF MembershipInvariant, TypeOK
<1>3. /\ call' \in [Slots -> Calls \cup {Free}] /\ CallsMatch'
      /\ mine' \in [Nodes -> Slots \cup {None}]
  <2>1. CASE mine[n] = None
    <3>1. UNCHANGED <<mine, call>>
      BY <2>1 DEF AgentRestart
    <3>2. \A m \in Nodes : mine[m] # None => held'[m] = held[m]
      BY <1>1, <1>2, <2>1
    <3> QED BY <1>2, <3>1, <3>2 DEF MembershipInvariant, CallsMatch, WellFormed
  <2>2. CASE mine[n] # None
    <3>1. /\ mine' = [mine EXCEPT ![n] = None]
          /\ call' = [call EXCEPT ![mine[n]] = Free] \/ call' = call
      BY <1>2, <2>2 DEF AgentRestart, Abandon
    <3>2. \A m \in Nodes \ {n} : held'[m] = held[m]
      BY <1>1, <1>2
    <3> QED BY <2>2, <3>1, <3>2, WaitedEnough
  <2> QED BY <2>1, <2>2
<1>4. TypeOK'
  <2>1. registered' \in [Nodes -> BOOLEAN] /\ held' \in [Nodes -> Secrets \cup {None}]
    BY <1>1, <1>2
  <2> QED BY <1>1, <1>2, <1>3, <2>1, FaultCounted DEF MembershipInvariant, TypeOK, authVars
<1>5. RegisteredHoldsToken'
  BY <1>1, <1>2 DEF MembershipInvariant, RegisteredHoldsToken
<1> QED BY <1>3, <1>4, <1>5 DEF MembershipInvariant

-----------------------------------------------------------------------------
(* The handlers, the network and the controller leave the agents alone. *)

LEMMA AgentsLeftAlone ==
    ASSUME MembershipInvariant, UNCHANGED agentVars,
           call' \in [Slots -> Calls \cup {Free}], CallsMatch',
           challenges' \subseteq Challenges, token' \in [Nodes -> Secrets \cup {None}],
           expired' \in [Nodes -> BOOLEAN], \A n \in Nodes : expired'[n] => token'[n] # None,
           member' \in [Nodes -> {"absent", "joining", "idle", "offline"}],
           shown' \subseteq Nodes, polled' \subseteq Nodes, faults' \in 0..MaxFaults
    PROVE  MembershipInvariant'
<1>1. UNCHANGED <<mine, registered, held>>
  BY DEF agentVars
<1>2. TypeOK' /\ RegisteredHoldsToken'
  BY <1>1 DEF MembershipInvariant, TypeOK, RegisteredHoldsToken
<1> QED BY <1>2 DEF MembershipInvariant

\* The secret that a request may carry.
Carries(kind, step, x) ==
    /\ x \in Secrets \cup {None}
    /\ kind \in {"join", "beat"} \/ (kind = "challenge" /\ step = "ok") => x # None

LEMMA CallAt ==
    ASSUME MembershipInvariant, NEW s \in Slots, call[s] # Free
    PROVE  /\ call[s] \in Calls /\ call[s].node \in Nodes /\ call[s].kind \in Kinds
           /\ Carries(call[s].kind, call[s].step, call[s].secret)
<1>1. call[s] \in Calls /\ WellFormed(call[s])
  BY DEF MembershipInvariant, TypeOK, CallsMatch
<1>2. call[s].node \in Nodes /\ call[s].kind \in Kinds /\ call[s].secret \in Secrets \cup {None}
  BY <1>1 DEF Calls
<1> QED BY <1>1, <1>2 DEF WellFormed, Carries

LEMMA AtIsCall ==
    ASSUME NEW s \in Slots, NEW kind \in Kinds, NEW step, At(s, kind, step)
    PROVE  call[s] # Free
  BY DEF At, Free, Kinds

\* The handler goes on.
LEMMA WentOn ==
    ASSUME MembershipInvariant, NEW s \in Slots, call[s] # Free, NEW x, NEW step \in Steps,
           Carries(call[s].kind, step, x), UNCHANGED agentVars,
           call' = [call EXCEPT ![s] = [call[s] EXCEPT !.secret = x, !.step = step]]
    PROVE  call' \in [Slots -> Calls \cup {Free}] /\ CallsMatch'
<1>1. call[s] \in Calls
  BY CallAt
<1>2. PICK d : d = [call[s] EXCEPT !.secret = x, !.step = step]
  OBVIOUS
<1>3. d \in Calls /\ d.node = call[s].node /\ d.kind = call[s].kind /\ WellFormed(d)
  <2>1. /\ d \in Calls /\ d.node = call[s].node /\ d.kind = call[s].kind
        /\ d.secret = x /\ d.step = step
    BY <1>1, <1>2 DEF Calls, Carries
  <2> QED BY <2>1 DEF WellFormed, Carries
<1>4. UNCHANGED <<mine, held>> /\ call' = [call EXCEPT ![s] = d]
  BY <1>2 DEF agentVars
<1> QED BY <1>1, <1>3, <1>4, MovedOn

\* The handler returns.
LEMMA Replied ==
    ASSUME MembershipInvariant, NEW s \in Slots, call[s] # Free, NEW x, NEW step \in Steps,
           Carries(call[s].kind, step, x), UNCHANGED agentVars, Reply(s, x, step)
    PROVE  call' \in [Slots -> Calls \cup {Free}] /\ CallsMatch'
<1>1. call[s] \in Calls
  BY CallAt
<1>2. CASE mine[call[s].node] = s
  <2>1. call' = [call EXCEPT ![s] = [call[s] EXCEPT !.secret = x, !.step = step]]
    BY <1>2 DEF Reply
  <2> QED BY <2>1, WentOn
<1>3. CASE mine[call[s].node] # s
  <2>1. call' = [call EXCEPT ![s] = Free] /\ UNCHANGED <<mine, held>>
    BY <1>3 DEF Reply, agentVars
  <2>2. \A n \in Nodes : mine[n] # s
    BY <1>3, WaitsForOwn
  <2>3. WellFormed(Free)
    BY DEF WellFormed
  <2> QED BY <2>1, <2>2, <2>3, MovedOn
<1> QED BY <1>2, <1>3

\* A request to remove a node is over; no agent waits for it.
LEMMA Dropped ==
    ASSUME MembershipInvariant, NEW s \in Slots, call[s].kind = "delete", UNCHANGED agentVars,
           call' = [call EXCEPT ![s] = Free]
    PROVE  call' \in [Slots -> Calls \cup {Free}] /\ CallsMatch'
<1>1. \A n \in Nodes : mine[n] # s
  BY NoneIsNone DEF MembershipInvariant, CallsMatch
<1>2. WellFormed(Free) /\ UNCHANGED <<mine, held>>
  BY DEF WellFormed, agentVars
<1> QED BY <1>1, <1>2, MovedOn

LEMMA IssueChallengeKeeps ==
    ASSUME MembershipInvariant, NEW s \in Slots, IssueChallenge(s)
    PROVE  MembershipInvariant'
<1>1. call[s].kind = "challenge" /\ call[s] # Free /\ call[s].node \in Nodes
  BY AtIsCall, CallAt DEF IssueChallenge, At, Kinds
<1>2. PICK x \in Secrets : x = Fresh
  BY FreshIsSecret DEF IssueChallenge
<1>3. /\ challenges' = {c \in challenges : ~c.stale}
             \cup {[node |-> call[s].node, nonce |-> x, stale |-> FALSE]}
      /\ Reply(s, x, "ok")
      /\ UNCHANGED <<agentVars, token, expired, member, shown, polled, faults>>
  BY <1>2 DEF IssueChallenge
<1>4. Carries(call[s].kind, "ok", x)
  BY NoneIsNone DEF Carries
<1>5. call' \in [Slots -> Calls \cup {Free}] /\ CallsMatch'
  BY <1>1, <1>3, <1>4, Replied DEF Steps
<1>6. challenges' \subseteq Challenges
  <2>1. [node |-> call[s].node, nonce |-> x, stale |-> FALSE] \in Challenges
    BY <1>1 DEF Challenges
  <2> QED BY <1>3, <2>1 DEF MembershipInvariant, TypeOK
<1> QED BY <1>3, <1>5, <1>6, AgentsLeftAlone DEF MembershipInvariant, TypeOK

LEMMA CompleteJoinKeeps ==
    ASSUME MembershipInvariant, NEW s \in Slots, CompleteJoin(s)
    PROVE  MembershipInvariant'
<1>1. call[s].kind = "join" /\ call[s] # Free /\ call[s] \in Calls
  BY AtIsCall, CallAt DEF CompleteJoin, At, Kinds
<1>2. PICK x \in Secrets : x = Fresh
  BY FreshIsSecret DEF CompleteJoin
<1>3. PICK n \in Nodes : n = call[s].node
  BY <1>1 DEF Calls
<1>4. /\ challenges' \subseteq challenges
      /\ token' = [token EXCEPT ![n] = x] /\ expired' = [expired EXCEPT ![n] = FALSE]
      /\ UNCHANGED <<agentVars, member, shown, polled, faults>>
      /\ call' = [call EXCEPT ![s].secret = x, ![s].step = "register"]
  BY <1>2, <1>3 DEF CompleteJoin
<1>5. call' = [call EXCEPT ![s] = [call[s] EXCEPT !.secret = x, !.step = "register"]]
  BY <1>1, <1>4 DEF MembershipInvariant, TypeOK
<1>6. Carries(call[s].kind, "register", x)
  BY NoneIsNone DEF Carries
<1>7. call' \in [Slots -> Calls \cup {Free}] /\ CallsMatch'
  BY <1>1, <1>4, <1>5, <1>6, WentOn DEF Steps
<1>8. /\ token \in [Nodes -> Secrets \cup {None}] /\ expired \in [Nodes -> BOOLEAN]
      /\ \A m \in Nodes : expired[m] => token[m] # None
  BY DEF MembershipInvariant, TypeOK
<1>9. /\ token' \in [Nodes -> Secrets \cup {None}] /\ expired' \in [Nodes -> BOOLEAN]
      /\ \A m \in Nodes : expired'[m] => token'[m] # None
  BY <1>4, <1>8
<1> QED BY <1>4, <1>7, <1>9, AgentsLeftAlone DEF MembershipInvariant, TypeOK

LEMMA RefuseJoinKeeps ==
    ASSUME MembershipInvariant, NEW s \in Slots, RefuseJoin(s)
    PROVE  MembershipInvariant'
<1>1. call[s].kind = "join" /\ call[s] # Free
  BY AtIsCall DEF RefuseJoin, At, Kinds
<1>2. Carries(call[s].kind, "refused", call[s].secret)
  BY <1>1, CallAt DEF Carries
<1>3. /\ challenges' \subseteq challenges /\ Reply(s, call[s].secret, "refused")
      /\ UNCHANGED <<agentVars, token, expired, member, shown, polled, faults>>
  BY DEF RefuseJoin
<1>4. call' \in [Slots -> Calls \cup {Free}] /\ CallsMatch'
  BY <1>1, <1>2, <1>3, Replied DEF Steps
<1> QED BY <1>3, <1>4, AgentsLeftAlone DEF MembershipInvariant, TypeOK

\* The secret of a request to join or of a heartbeat stays with it.
LEMMA Kept ==
    ASSUME MembershipInvariant, NEW s \in Slots, call[s] # Free, NEW step,
           call[s].kind # "challenge"
    PROVE  Carries(call[s].kind, step, call[s].secret)
  BY CallAt DEF Carries

LEMMA ToIsMove ==
    ASSUME MembershipInvariant, NEW s \in Slots, call[s] # Free, NEW step, To(s, step)
    PROVE  call' = [call EXCEPT ![s] = [call[s] EXCEPT !.secret = call[s].secret, !.step = step]]
<1>1. call[s] \in Calls /\ call \in [Slots -> Calls \cup {Free}]
  BY CallAt DEF MembershipInvariant, TypeOK
<1>2. [call[s] EXCEPT !.step = step] = [call[s] EXCEPT !.secret = call[s].secret, !.step = step]
  BY <1>1 DEF Calls
<1>3. call' = [call EXCEPT ![s] = [call[s] EXCEPT !.step = step]]
  BY <1>1 DEF To
<1> QED BY <1>2, <1>3

LEMMA RegisterKeeps ==
    ASSUME MembershipInvariant, NEW s \in Slots, Register(s)
    PROVE  MembershipInvariant'
<1>1. call[s].kind = "join" /\ call[s] # Free
  BY AtIsCall DEF Register, At, Kinds
<1>2. /\ Reply(s, call[s].secret, "ok") /\ UNCHANGED <<agentVars, authVars, shown, polled, faults>>
      /\ member' = [member EXCEPT ![call[s].node] = IF @ = "absent" THEN "joining" ELSE @]
  BY DEF Register
<1>3. call' \in [Slots -> Calls \cup {Free}] /\ CallsMatch'
  BY <1>1, <1>2, Kept, Replied DEF Steps
<1>4. member' \in [Nodes -> {"absent", "joining", "idle", "offline"}]
  BY <1>2 DEF MembershipInvariant, TypeOK
<1> QED BY <1>2, <1>3, <1>4, AgentsLeftAlone DEF MembershipInvariant, TypeOK, authVars

LEMMA CheckTokenKeeps ==
    ASSUME MembershipInvariant, NEW s \in Slots, CheckToken(s)
    PROVE  MembershipInvariant'
<1>1. call[s].kind = "beat" /\ call[s] # Free /\ call[s] \in Calls
  BY AtIsCall, CallAt DEF CheckToken, At, Kinds
<1>2. PICK n \in Nodes : n = call[s].node
  BY <1>1 DEF Calls
<1>3. /\ To(s, "beat") \/ Reply(s, call[s].secret, "refused")
      /\ token' = [token EXCEPT ![n] = IF expired[n] THEN None ELSE token[n]]
      /\ expired' = [expired EXCEPT ![n] = FALSE]
      /\ UNCHANGED <<agentVars, challenges, member, shown, polled, faults>>
  BY <1>2 DEF CheckToken
<1>4. call' \in [Slots -> Calls \cup {Free}] /\ CallsMatch'
  <2>1. CASE To(s, "beat")
    BY <1>1, <1>3, <2>1, Kept, ToIsMove, WentOn DEF Steps
  <2>2. CASE Reply(s, call[s].secret, "refused")
    BY <1>1, <1>3, <2>2, Kept, Replied DEF Steps
  <2> QED BY <1>3, <2>1, <2>2
<1>5. /\ token \in [Nodes -> Secrets \cup {None}] /\ expired \in [Nodes -> BOOLEAN]
      /\ \A m \in Nodes : expired[m] => token[m] # None
  BY DEF MembershipInvariant, TypeOK
<1>6. /\ token' \in [Nodes -> Secrets \cup {None}] /\ expired' \in [Nodes -> BOOLEAN]
      /\ \A m \in Nodes : expired'[m] => token'[m] # None
  BY <1>3, <1>5
<1> QED BY <1>3, <1>4, <1>6, AgentsLeftAlone DEF MembershipInvariant, TypeOK

LEMMA RecordBeatKeeps ==
    ASSUME MembershipInvariant, NEW s \in Slots, RecordBeat(s)
    PROVE  MembershipInvariant'
<1>1. call[s].kind = "beat" /\ call[s] # Free
  BY AtIsCall DEF RecordBeat, At, Kinds
<1>2. /\ \/ To(s, "record") /\ member' = [member EXCEPT ![call[s].node] = "idle"]
         \/ Reply(s, call[s].secret, "refused") /\ UNCHANGED member
      /\ UNCHANGED <<agentVars, authVars, shown, polled, faults>>
  BY DEF RecordBeat
<1>3. call' \in [Slots -> Calls \cup {Free}] /\ CallsMatch'
  <2>1. CASE To(s, "record")
    BY <1>1, <1>2, <2>1, Kept, ToIsMove, WentOn DEF Steps
  <2>2. CASE Reply(s, call[s].secret, "refused")
    BY <1>1, <1>2, <2>2, Kept, Replied DEF Steps
  <2> QED BY <1>2, <2>1, <2>2
<1>4. member' \in [Nodes -> {"absent", "joining", "idle", "offline"}]
  BY <1>2 DEF MembershipInvariant, TypeOK
<1> QED BY <1>2, <1>3, <1>4, AgentsLeftAlone DEF MembershipInvariant, TypeOK, authVars

LEMMA RecordSampleKeeps ==
    ASSUME MembershipInvariant, NEW s \in Slots, RecordSample(s)
    PROVE  MembershipInvariant'
<1>1. call[s].kind = "beat" /\ call[s] # Free /\ call[s].node \in Nodes
  BY AtIsCall, CallAt DEF RecordSample, At, Kinds
<1>2. /\ shown' = shown \cup {call[s].node} /\ Reply(s, call[s].secret, "ok")
      /\ UNCHANGED <<agentVars, authVars, member, polled, faults>>
  BY DEF RecordSample
<1>3. call' \in [Slots -> Calls \cup {Free}] /\ CallsMatch'
  BY <1>1, <1>2, Kept, Replied DEF Steps
<1>4. shown' \subseteq Nodes
  BY <1>1, <1>2 DEF MembershipInvariant, TypeOK
<1> QED BY <1>2, <1>3, <1>4, AgentsLeftAlone DEF MembershipInvariant, TypeOK, authVars

LEMMA AskDeleteKeeps ==
    ASSUME MembershipInvariant, NEW n \in Nodes, AskDelete(n)
    PROVE  MembershipInvariant'
<1>1. PICK s \in FreeSlots : s = AnySlot
  BY AnySlotIsFree DEF AskDelete
<1>2. /\ call' = [call EXCEPT ![s] = Request(n, "delete", None)]
      /\ UNCHANGED <<agentVars, authVars, member, shown, polled>>
  BY <1>1 DEF AskDelete
<1>3. call' \in [Slots -> Calls \cup {Free}] /\ CallsMatch'
  BY <1>2, SentOff DEF Kinds, agentVars
<1>4. faults' \in 0..MaxFaults
  BY FaultCounted DEF AskDelete, MembershipInvariant, TypeOK
<1> QED BY <1>2, <1>3, <1>4, AgentsLeftAlone DEF MembershipInvariant, TypeOK, authVars

LEMMA RemoveRecordKeeps ==
    ASSUME MembershipInvariant, NEW s \in Slots, RemoveRecord(s)
    PROVE  MembershipInvariant'
<1>1. call[s].kind = "delete" /\ call[s] # Free
  BY AtIsCall DEF RemoveRecord, At, Kinds
<1>2. /\ call' = [call EXCEPT ![s] = Free] \/ To(s, "forget")
      /\ member' = [member EXCEPT ![call[s].node] = "absent"]
      /\ UNCHANGED <<agentVars, authVars, shown, polled, faults>>
  BY DEF RemoveRecord
<1>3. call' \in [Slots -> Calls \cup {Free}] /\ CallsMatch'
  <2>1. CASE To(s, "forget")
    BY <1>1, <1>2, <2>1, Kept, ToIsMove, WentOn DEF Steps
  <2> QED BY <1>1, <1>2, <2>1, Dropped
<1>4. member' \in [Nodes -> {"absent", "joining", "idle", "offline"}]
  BY <1>2 DEF MembershipInvariant, TypeOK
<1> QED BY <1>2, <1>3, <1>4, AgentsLeftAlone DEF MembershipInvariant, TypeOK, authVars

LEMMA ForgetSamplesKeeps ==
    ASSUME MembershipInvariant, NEW s \in Slots, ForgetSamples(s)
    PROVE  MembershipInvariant'
<1>1. call[s].kind = "delete" /\ call[s] # Free
  BY AtIsCall DEF ForgetSamples, At, Kinds
<1>2. /\ To(s, "revoke") /\ shown' \subseteq shown
      /\ UNCHANGED <<agentVars, authVars, member, polled, faults>>
  BY DEF ForgetSamples
<1>3. call' \in [Slots -> Calls \cup {Free}] /\ CallsMatch'
  BY <1>1, <1>2, Kept, ToIsMove, WentOn DEF Steps
<1> QED BY <1>2, <1>3, AgentsLeftAlone DEF MembershipInvariant, TypeOK, authVars

LEMMA RevokeKeeps ==
    ASSUME MembershipInvariant, NEW s \in Slots, Revoke(s)
    PROVE  MembershipInvariant'
<1>1. call[s].kind = "delete"
  BY DEF Revoke, At
<1>2. /\ call' = [call EXCEPT ![s] = Free] /\ challenges' \subseteq challenges
      /\ token' = [token EXCEPT ![call[s].node] = None]
      /\ expired' = [expired EXCEPT ![call[s].node] = FALSE]
      /\ UNCHANGED <<agentVars, member, shown, polled, faults>>
  BY DEF Revoke
<1>3. call' \in [Slots -> Calls \cup {Free}] /\ CallsMatch'
  BY <1>1, <1>2, Dropped
<1>4. /\ token \in [Nodes -> Secrets \cup {None}] /\ expired \in [Nodes -> BOOLEAN]
      /\ \A m \in Nodes : expired[m] => token[m] # None
  BY DEF MembershipInvariant, TypeOK
<1>5. /\ token' \in [Nodes -> Secrets \cup {None}] /\ expired' \in [Nodes -> BOOLEAN]
      /\ \A m \in Nodes : expired'[m] => token'[m] # None
  BY <1>2, <1>4
<1> QED BY <1>2, <1>3, <1>5, AgentsLeftAlone DEF MembershipInvariant, TypeOK

\* What touches no request.
LEMMA NoCallKeeps ==
    ASSUME MembershipInvariant,
           \/ PollBegin \/ PollEnd
           \/ \E n \in Nodes : SweepOffline(n) \/ ExpireToken(n)
           \/ \E c \in challenges : ExpireChallenge(c)
    PROVE  MembershipInvariant'
<1>1. UNCHANGED <<agentVars, call>>
  BY DEF PollBegin, PollEnd, SweepOffline, ExpireToken, ExpireChallenge
<1>2. call' \in [Slots -> Calls \cup {Free}] /\ CallsMatch'
  BY <1>1 DEF MembershipInvariant, TypeOK, CallsMatch, WellFormed, agentVars
<1>3. CASE PollBegin \/ PollEnd
  <2>1. polled' \subseteq Nodes /\ shown' \subseteq Nodes
    BY <1>3 DEF PollBegin, PollEnd, MembershipInvariant, TypeOK
  <2>2. UNCHANGED <<agentVars, authVars, member, faults>>
    BY <1>3 DEF PollBegin, PollEnd
  <2> QED BY <1>2, <2>1, <2>2, AgentsLeftAlone DEF MembershipInvariant, TypeOK, authVars
<1>4. ASSUME NEW n \in Nodes, SweepOffline(n) PROVE MembershipInvariant'
  <2>1. member' \in [Nodes -> {"absent", "joining", "idle", "offline"}] /\ faults' \in 0..MaxFaults
    BY <1>4, FaultCounted DEF SweepOffline, MembershipInvariant, TypeOK
  <2>2. UNCHANGED <<agentVars, authVars, shown, polled>>
    BY <1>4 DEF SweepOffline
  <2> QED BY <1>2, <2>1, <2>2, AgentsLeftAlone DEF MembershipInvariant, TypeOK, authVars
<1>5. ASSUME NEW n \in Nodes, ExpireToken(n) PROVE MembershipInvariant'
  <2>1. /\ token[n] # None /\ expired' = [expired EXCEPT ![n] = TRUE] /\ faults' \in 0..MaxFaults
        /\ UNCHANGED <<agentVars, challenges, token, member, shown, polled>>
    BY <1>5, FaultCounted DEF ExpireToken, MembershipInvariant, TypeOK
  <2>2. expired \in [Nodes -> BOOLEAN] /\ \A m \in Nodes : expired[m] => token[m] # None
    BY DEF MembershipInvariant, TypeOK
  <2>3. expired' \in [Nodes -> BOOLEAN] /\ \A m \in Nodes : expired'[m] => token'[m] # None
    BY <2>1, <2>2
  <2> QED BY <1>2, <2>1, <2>3, AgentsLeftAlone DEF MembershipInvariant, TypeOK
<1>6. ASSUME NEW c \in challenges, ExpireChallenge(c) PROVE MembershipInvariant'
  <2>1. /\ challenges' = (challenges \ {c}) \cup {[c EXCEPT !.stale = TRUE]}
        /\ UNCHANGED <<agentVars, token, expired, member, shown, polled>> /\ faults' \in 0..MaxFaults
    BY <1>6, FaultCounted DEF ExpireChallenge, MembershipInvariant, TypeOK
  <2>2. c \in Challenges
    BY DEF MembershipInvariant, TypeOK
  <2>3. [c EXCEPT !.stale = TRUE] \in Challenges
    BY <2>2 DEF Challenges
  <2>4. challenges' \subseteq Challenges
    BY <2>1, <2>3 DEF MembershipInvariant, TypeOK
  <2> QED BY <1>2, <2>1, <2>4, AgentsLeftAlone DEF MembershipInvariant, TypeOK
<1> QED BY <1>3, <1>4, <1>5, <1>6

LEMMA LoseKeeps ==
    ASSUME MembershipInvariant, NEW s \in Slots, Lose(s)
    PROVE  MembershipInvariant'
<1>1. /\ call[s] # Free /\ UNCHANGED <<agentVars, authVars, member, shown, polled>>
      /\ faults' \in 0..MaxFaults
  BY FaultCounted DEF Lose, Free, MembershipInvariant, TypeOK
<1>2. call[s] \in Calls /\ Carries(call[s].kind, "lost", call[s].secret)
  BY <1>1, CallAt DEF Carries
<1>3. [call[s] EXCEPT !.step = "lost"]
        = [call[s] EXCEPT !.secret = call[s].secret, !.step = "lost"]
  BY <1>2 DEF Calls
<1>4. Reply(s, call[s].secret, "lost")
  BY <1>3 DEF Lose, Reply
<1>5. call' \in [Slots -> Calls \cup {Free}] /\ CallsMatch'
  BY <1>1, <1>2, <1>4, Replied DEF Steps
<1> QED BY <1>1, <1>5, AgentsLeftAlone DEF MembershipInvariant, TypeOK, authVars

\* Every request is lost: those that an agent waits for break, the others end.
LEMMA CtlRestartKeeps ==
    ASSUME MembershipInvariant, CtlRestart
    PROVE  MembershipInvariant'
<1>1. /\ UNCHANGED agentVars /\ challenges' = {} /\ shown' = {} /\ polled' = {}
      /\ token' = [n \in Nodes |-> None] /\ expired' = [n \in Nodes |-> FALSE]
      /\ member' = [n \in Nodes |-> "absent"]
      /\ call' = [s \in Slots |-> IF call[s] # Free /\ mine[call[s].node] = s
                                  THEN [call[s] EXCEPT !.step = "lost"] ELSE Free]
  BY DEF CtlRestart
<1>2. ASSUME NEW s \in Slots, call[s] # Free, mine[call[s].node] = s
      PROVE  /\ call'[s] \in Calls /\ call'[s].node = call[s].node
             /\ call'[s].kind = call[s].kind /\ WellFormed(call'[s])
  <2>1. call[s] \in Calls /\ Carries(call[s].kind, "lost", call[s].secret)
    BY <1>2, CallAt DEF Carries
  <2>2. call'[s] = [call[s] EXCEPT !.step = "lost"]
    BY <1>1, <1>2
  <2>3. /\ call'[s] \in Calls /\ call'[s].node = call[s].node /\ call'[s].kind = call[s].kind
        /\ call'[s].secret = call[s].secret /\ call'[s].step = "lost"
    BY <2>1, <2>2 DEF Calls, Steps
  <2> QED BY <2>1, <2>3 DEF WellFormed, Carries
<1>3. \A s \in Slots : ~(call[s] # Free /\ mine[call[s].node] = s) => call'[s] = Free
  BY <1>1
<1>4. call' \in [Slots -> Calls \cup {Free}] /\ \A s \in Slots : WellFormed(call[s])'
  <2>1. \A s \in Slots : call'[s] \in Calls \cup {Free} /\ WellFormed(call'[s])
    BY <1>2, <1>3 DEF WellFormed
  <2>2. call' = [s \in Slots |-> call'[s]]
    BY <1>1
  <2> QED BY <2>1, <2>2
<1>5. ASSUME NEW n \in Nodes PROVE Waits(n)'
  <2>1. mine'[n] = mine[n] /\ held'[n] = held[n] /\ Waits(n) /\ mine[n] \in Slots \cup {None}
    BY <1>1, CallsPerAgent DEF MembershipInvariant, TypeOK, agentVars
  <2>2. CASE mine[n] = None
    BY <2>1, <2>2 DEF Waits
  <2>3. CASE mine[n] \in Slots
    <3>1. PICK s \in Slots : s = mine[n]
      BY <2>3
    <3>2. call[s] \in Calls /\ call[s].node = n /\ mine[call[s].node] = s /\ call[s] # Free
      BY <3>1, WaitsForOwn, FreeIsNoCall
    <3> QED BY <1>2, <2>1, <3>1, <3>2, FreeIsNoCall DEF Waits
  <2> QED BY <2>1, <2>2, <2>3
<1>6. CallsMatch'
  BY <1>4, <1>5, CallsPerAgentNext
<1>7. faults' \in 0..MaxFaults
  BY FaultCounted DEF CtlRestart, MembershipInvariant, TypeOK
<1> QED BY <1>1, <1>4, <1>6, <1>7, AgentsLeftAlone

-----------------------------------------------------------------------------
LEMMA MembershipInit == Init => MembershipInvariant
<1> SUFFICES ASSUME Init PROVE MembershipInvariant
  OBVIOUS
<1>1. TypeOK
  BY MembershipAssumption DEF Init, TypeOK
<1>2. CallsMatch /\ RegisteredHoldsToken
  BY DEF Init, CallsMatch, WellFormed, RegisteredHoldsToken
<1> QED BY <1>1, <1>2 DEF MembershipInvariant

LEMMA MembershipNext == MembershipInvariant /\ [Next]_vars => MembershipInvariant'
<1> SUFFICES ASSUME MembershipInvariant, [Next]_vars PROVE MembershipInvariant'
  OBVIOUS
<1>1. ASSUME NEW n \in Nodes, Agent(n) PROVE MembershipInvariant'
  BY <1>1, AskChallengeKeeps, AskJoinKeeps, SendBeatKeeps, AgentDoneKeeps DEF Agent
<1>2. ASSUME NEW s \in Slots, Handler(s) PROVE MembershipInvariant'
  BY <1>2, IssueChallengeKeeps, CompleteJoinKeeps, RefuseJoinKeeps, RegisterKeeps,
     CheckTokenKeeps, RecordBeatKeeps, RecordSampleKeeps, RemoveRecordKeeps,
     ForgetSamplesKeeps, RevokeKeeps DEF Handler
<1>3. CASE Poll
  BY <1>3, NoCallKeeps DEF Poll
<1>4. CASE Disturbance
  BY <1>4, AgentDoneKeeps, AgentRestartKeeps, AskDeleteKeeps, NoCallKeeps, LoseKeeps,
     CtlRestartKeeps DEF Disturbance
<1>5. CASE UNCHANGED vars
  BY <1>5 DEF vars, agentVars, authVars, MembershipInvariant, TypeOK, CallsMatch, WellFormed,
     RegisteredHoldsToken
<1> QED BY <1>1, <1>2, <1>3, <1>4, <1>5 DEF Next

\* Whatever is lost, late, restarted, expired or removed: no request is lost
\* track of, an agent waits only for a request of its own that is under way, and
\* it counts as registered only while it holds a token (heartbeat_loop).
THEOREM MembershipIsSafe == Spec => []MembershipInvariant
  BY MembershipInit, MembershipNext, PTL DEF Spec

===============================================================================
