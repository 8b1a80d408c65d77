----------------------------- MODULE NodeStart -----------------------------
(***************************************************************************)
(* How a machine comes into the pool: main() of node/dain_node.py, the     *)
(* discovery of node/discovery.py and the calibration of node/bench.py.    *)
(*                                                                         *)
(* A supervised process looks for the control plane, finds its own         *)
(* address, measures its speed and only then serves and joins, while the   *)
(* control plane and the network come and go.  The handshake of a join is  *)
(* module Membership; here it is one step.                                 *)
(***************************************************************************)
EXTENDS Integers, Sequences, SequencesExt

CONSTANTS
    Addresses,   \* where the control plane may run
    Speeds,      \* the avg_ts a row of llama-bench may show
    MaxRows,     \* bound on the rows of its output
    MaxLosses    \* bound on losses of the network and ends of processes

Unset == "unset"
Peer == "peer"             \* the endpoint of another node's advertisement
Loopback == "loopback"
NoSpeed == -1              \* no row, or no number in it

StartAssumption ==
    /\ Speeds \subseteq Nat /\ MaxRows \in Nat /\ MaxLosses \in Nat
    /\ {Unset, Peer} \cap Addresses = {}

Row == [prompt : BOOLEAN, gen : BOOLEAN, speed : Speeds \cup {NoSpeed}]
Endpoints == Addresses \cup {Unset}

VARIABLES
    env,          \* the node's environment file and disk
    network,      \* whether the fabric has an address and a route
    ctl,          \* up, where, and the endpoint it advertises
    pc,           \* where main() is
    listener,     \* _ControlPlaneListener.endpoint; found is set with it
    considering,  \* the service whose callback runs
    endpoint,     \* main's ctl
    rows,         \* what llama-bench printed at the last start
    profile,      \* the NodeProfile of main
    member,       \* the profile the control plane has registered, if any
    losses

vars == <<env, network, ctl, pc, listener, considering, endpoint, rows, profile,
          member, losses>>

Environments == [ctl : Endpoints, mdns : BOOLEAN, secret : BOOLEAN,
                 model : BOOLEAN, files : {"present", "absent", "denied"}]
Profiles == [host : {"fabric", Loopback}, tg : Nat, pp : Nat]

TypeOK ==
    /\ env \in Environments /\ network \in BOOLEAN
    /\ ctl \in [up : BOOLEAN, address : Addresses, advertised : Endpoints]
    /\ pc \in {"off", "discovers", "found", "profiles", "calibrates", "serves"}
    /\ listener \in Endpoints \cup {Peer} /\ endpoint \in Endpoints \cup {Peer}
    /\ considering \in Endpoints \cup {Peer}
    /\ rows \in Seq(Row) /\ Len(rows) <= MaxRows
    /\ profile \in Profiles /\ member \subseteq Profiles
    /\ losses \in 0..MaxLosses

\* build_local_profile: the measured fields are zero
Blank == [host |-> Loopback, tg |-> 0, pp |-> 0]

Init ==
    /\ env \in Environments /\ network \in BOOLEAN
    /\ ctl \in [up : {FALSE}, address : Addresses, advertised : {Unset}]
    /\ pc = "off" /\ listener = Unset /\ considering = Unset /\ endpoint = Unset
    /\ rows = <<>> /\ profile = Blank /\ member = {}
    /\ losses = 0

(***************************************************************************)
(* The control plane and the network                                       *)
(***************************************************************************)
\* advertise_control_plane: nothing where it is disabled or fails, as without
\* an address it must
ShownAs(a) == IF network THEN {a, Unset} ELSE {Unset}

\* lifespan of ctl: an advertisement that fails is printed and not tried again
CtlStart ==
    /\ ~ctl.up
    /\ \E a \in Addresses : \E shown \in ShownAs(a) :
          ctl' = [up |-> TRUE, address |-> a, advertised |-> shown]
    /\ UNCHANGED <<env, network, pc, listener, considering, endpoint, rows, profile,
                   member, losses>>

\* close withdraws the advertisement; the registry is in memory
CtlStop ==
    /\ ctl.up /\ losses < MaxLosses /\ losses' = losses + 1
    /\ ctl' = [ctl EXCEPT !.up = FALSE, !.advertised = Unset] /\ member' = {}
    /\ UNCHANGED <<env, network, pc, listener, considering, endpoint, rows, profile>>

Network ==
    /\ IF network THEN losses < MaxLosses /\ losses' = losses + 1 ELSE losses' = losses
    /\ network' = ~network
    /\ UNCHANGED <<env, ctl, pc, listener, considering, endpoint, rows, profile, member>>

(***************************************************************************)
(* discover_control_plane: main waits, the browser's thread calls back     *)
(***************************************************************************)
Advertised == {Peer} \cup ({ctl.advertised} \ {Unset})

\* add_service, update_service: the browser has heard of a service
Report(service) ==
    /\ pc = "discovers" /\ considering = Unset
    /\ network /\ service \in Advertised
    /\ considering' = service
    /\ UNCHANGED <<env, network, ctl, pc, listener, endpoint, rows, profile, member,
                   losses>>

\* mutant: the role of the service is not looked at
AnyRole(service) == TRUE

IsControlPlane(service) == service \in Addresses

\* _consider: the first control plane that gives its details is kept
Consider(answered) ==
    /\ considering # Unset
    /\ answered => network /\ considering \in Advertised
    /\ listener' = IF answered /\ IsControlPlane(considering) /\ listener = Unset
                   THEN considering ELSE listener
    /\ considering' = Unset
    /\ UNCHANGED <<env, network, ctl, pc, endpoint, rows, profile, member, losses>>

\* found.wait: woken by the listener, or out of time
StopWaiting ==
    /\ pc = "discovers" /\ pc' = "found"
    /\ UNCHANGED <<env, network, ctl, listener, considering, endpoint, rows, profile,
                   member, losses>>

(***************************************************************************)
(* main                                                                    *)
(***************************************************************************)
Exit == pc' = "off"

\* systemd starts the process, also after every failure
Begin ==
    /\ pc = "off"
    /\ listener' = Unset /\ considering' = Unset
    /\ endpoint' = env.ctl /\ profile' = Blank /\ rows' = <<>>
    /\ CASE env.ctl # Unset -> pc' = "profiles"
         [] env.ctl = Unset /\ env.mdns -> pc' = "discovers"
         [] OTHER -> Exit
    /\ UNCHANGED <<env, network, ctl, member, losses>>

\* the listener may have been called after the wait was over; the browser is
\* cancelled and the call in progress has no effect on main any more
Found ==
    /\ pc = "found"
    /\ endpoint' = listener /\ considering' = Unset
    /\ IF listener = Unset THEN Exit ELSE pc' = "profiles"
    /\ UNCHANGED <<env, network, ctl, listener, rows, profile, member, losses>>

\* detect_fabric_ip: the named interface or the route, both of which need the
\* network, else loopback
FabricIp == IF network THEN "fabric" ELSE Loopback

\* the pool secret is asked for once the control plane is known
Profile ==
    /\ pc = "profiles"
    /\ IF env.secret
       THEN pc' = "calibrates" /\ profile' = [profile EXCEPT !.host = FabricIp]
       ELSE Exit /\ profile' = profile
    /\ UNCHANGED <<env, network, ctl, listener, considering, endpoint, rows, member, losses>>

(***************************************************************************)
(* calibrate_profile                                                       *)
(***************************************************************************)
IsPrefill(row) == row.prompt /\ ~row.gen
IsDecode(row) == row.gen /\ ~row.prompt

\* parse_bench_json: the last row of a phase counts
Measured(output, phase) == IF phase = {} THEN NoSpeed ELSE output[Max(phase)].speed
Prefill(output) == Measured(output, {i \in 1..Len(output) : IsPrefill(output[i])})
Decode(output) == Measured(output, {i \in 1..Len(output) : IsDecode(output[i])})

\* mutant: the first row is taken for the prefill and the last for the decode
RowsInOrder(output) ==
    IF output = <<>> \/ Last(output).speed \in {0, NoSpeed} THEN profile
    ELSE [profile EXCEPT !.tg = Last(output).speed,
                         !.pp = IF output[1].speed = NoSpeed THEN 0 ELSE output[1].speed]

\* mutant: a missing prefill speed is put into the profile
NoneForPrefill(output) ==
    IF Decode(output) \in {0, NoSpeed} THEN profile
    ELSE [profile EXCEPT !.tg = Decode(output), !.pp = Prefill(output)]

Calibrated(output) ==
    LET tg == Decode(output)
        pp == Prefill(output)
    IN  IF tg \in {0, NoSpeed} THEN profile
        ELSE [profile EXCEPT !.tg = tg, !.pp = IF pp = NoSpeed THEN 0 ELSE pp]

\* mutant: a benchmark that cannot run ends the process
Uncaught == env.files # "present"

\* Path.is_file raises where a directory may not be searched, and
\* calibrate_profile does not catch that
Raises == env.files = "denied"

\* run: no binary or model file, a timeout, an error or an exit code give no rows
Outputs ==
    IF env.model /\ env.files = "present" THEN BoundedSeq(Row, MaxRows) ELSE {<<>>}

Calibrate ==
    /\ pc = "calibrates"
    /\ \E output \in Outputs : rows' = output /\ profile' = Calibrated(output)
    /\ IF env.model /\ Raises THEN Exit ELSE pc' = "serves"
    /\ UNCHANGED <<env, network, ctl, listener, considering, endpoint, member, losses>>

(***************************************************************************)
(* uvicorn serves and the heartbeat loop joins                             *)
(***************************************************************************)
Join ==
    /\ pc = "serves" /\ network /\ ctl.up /\ endpoint = ctl.address /\ member # {profile}
    /\ member' = {profile}
    /\ UNCHANGED <<env, network, ctl, pc, listener, considering, endpoint, rows, profile,
                   losses>>

Crash ==
    /\ pc # "off" /\ losses < MaxLosses /\ losses' = losses + 1
    /\ Exit /\ considering' = Unset
    /\ UNCHANGED <<env, network, ctl, listener, endpoint, rows, profile, member>>

Hear == \E service \in Addresses : Report(service)
Main == Begin \/ StopWaiting \/ Found \/ Profile \/ Calibrate \/ Join

Next ==
    \/ Main \/ Hear \/ Report(Peer) \/ \E answered \in BOOLEAN : Consider(answered)
    \/ CtlStart \/ CtlStop \/ Network \/ Crash

Spec == Init /\ [][Next]_vars

\* systemd restarts the process and main goes on.  A control plane that stays
\* advertised is heard, and gives its details, within the three seconds of
\* some start.
Heard == considering \in Addresses /\ Consider(TRUE)
FairSpec == Spec /\ WF_vars(Main) /\ SF_vars(Hear) /\ SF_vars(Heard)
                 /\ WF_vars(\E answered \in BOOLEAN : Consider(answered))

(***************************************************************************)
(* Properties                                                              *)
(***************************************************************************)
\* A node only ever talks to a control plane: to the one it was told, or to
\* one that advertised itself as such, never to another node's advertisement,
\* whatever order discovery hears of them in.
FindsAControlPlane ==
    /\ endpoint # Peer
    /\ pc \in {"profiles", "calibrates", "serves"} => endpoint \in Addresses

\* A speed the node reports was measured in that phase, whatever order
\* llama-bench prints its rows in, and a node reports a prefill speed only with
\* a decode speed: a plan never rests on half a measurement.
SpeedsAreMeasured ==
    /\ profile.tg # 0 => \E i \in DOMAIN rows : IsDecode(rows[i]) /\ rows[i].speed = profile.tg
    /\ profile.pp # 0 => \E i \in DOMAIN rows : IsPrefill(rows[i]) /\ rows[i].speed = profile.pp
    /\ profile.tg = 0 => profile.pp = 0

\* Until it has calibrated, a start keeps no speed of the start before it, and
\* the listener never keeps another node; the other two rest on it.
StartsBlank ==
    /\ listener # Peer
    /\ pc \in {"discovers", "found", "profiles", "calibrates"} => profile.tg = 0 /\ profile.pp = 0

\* What a node knows when it serves is right, whatever discovery heard and
\* llama-bench printed (_consider, parse_bench_json, calibrate_profile).
StartInvariant == TypeOK /\ FindsAControlPlane /\ SpeedsAreMeasured /\ StartsBlank

Reachable ==
    /\ network /\ ctl.up
    /\ \/ env.ctl = ctl.address
       \/ env.ctl = Unset /\ env.mdns /\ ctl.advertised # Unset

\* A node with a secret and a readable disk gets into the pool and stays there
\* once the control plane can be found for good, whatever went wrong before:
\* a discovery that ran out of time, a missing model, crashes on either side.
ComesUp ==
    (env.secret /\ (env.model => env.files # "denied") /\ <>[]Reachable)
        => <>[](pc = "serves" /\ member = {profile})
=============================================================================
