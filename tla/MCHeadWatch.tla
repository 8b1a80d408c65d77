---------------------------- MODULE MCHeadWatch ----------------------------
(* The head launcher for TLC, with its command lines. *)
EXTENDS Naturals, Sequences

CONSTANTS
    Nodes, HeadId, Hosts, Arguments, MinWorkers, PollTimes, Debounce, MaxChanges, HeadFaults

VARIABLES
    table, ggufs, args, headPc, handling, stopping, members, command, current, changedFor,
    headServer, confirmed, budget

Watch == INSTANCE HeadWatch WITH MaxFaults <- HeadFaults, pc <- headPc, proc <- headServer

ASSUME HeadConstants == Watch!HeadAssumption

HeadSpec == Watch!FairSpec

CommandLine(watch, dry, placement, file, exclude) ==
    [watch |-> watch, dry |-> dry, placement |-> placement, file |-> file, exclude |-> exclude]

\* The installed unit, with and without a placement; and started by hand: without
\* --file and with a node excluded, without --watch, and as a dry run.
UnitLines == {CommandLine(TRUE, FALSE, p, TRUE, {}) : p \in BOOLEAN}
MCArguments ==
    UnitLines \cup {CommandLine(TRUE, FALSE, FALSE, FALSE, {1}),
                    CommandLine(FALSE, FALSE, TRUE, TRUE, {}),
                    CommandLine(TRUE, TRUE, FALSE, TRUE, {})}

\* What the launcher remembers and what it started belong together (main,
\* plan_command).
HeadInvariant == Watch!HeadInvariant
\* A server is not given up for a membership that came back (replan_debounce_s).
FlapsAreIgnored == Watch!FlapsAreIgnored
\* A server ends up over the machines ctl lists (--watch).
FollowsMembership == Watch!FollowsMembership
=============================================================================
