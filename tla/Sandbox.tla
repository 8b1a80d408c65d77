------------------------------ MODULE Sandbox ------------------------------
(***************************************************************************)
(* One sandboxed command: node/sandbox.py behind the /exec route of        *)
(* node/dain_node.py.                                                      *)
(*                                                                         *)
(* The command writes to two pipes of bounded size, two threads drain them *)
(* into a shared, capped buffer, and a third waits for the command with a  *)
(* timeout.  Bytes are numbered per stream; what the command is, and the   *)
(* rules about names, options and paths that refuse one, are a Boolean.    *)
(***************************************************************************)
EXTENDS Naturals, Sequences

CONSTANTS
    Timeouts, MaxTimeout,   \* timeouts asked for, MAX_TIMEOUT_S
    Caps, MaxCap,           \* output caps asked for, MAX_OUTPUT_CAP_BYTES
    MaxOutput,              \* bytes a command writes to a stream, at most
    PipeSize,               \* bytes a pipe holds
    ChunkSize               \* bytes drain reads at a time

Streams == {"stdout", "stderr"}

SandboxAssumption ==
    /\ Timeouts \subseteq Nat /\ Caps \subseteq Nat /\ MaxTimeout \in Nat /\ MaxCap \in Nat
    /\ MaxOutput \in Nat /\ PipeSize \in Nat \ {0} /\ ChunkSize \in Nat \ {0}

VARIABLES
    execution,         \* where execute is
    request,           \* whether the rules allow it, its timeout and its cap
    child,             \* "none", "runs" or "exited"
    plan,              \* what the command writes, and whether it ends by itself
    written,           \* how much of it is written
    pipe, gathered,    \* what is in a pipe, and in the stream object of its reader
    reader,            \* every reader: "none", "reads" or "done"
    kept, truncated,   \* _OutputCollector
    timedOut, execAnswer, audit

io == <<written, pipe, gathered, reader, kept, truncated>>
vars == <<execution, request, child, plan, io, timedOut, execAnswer, audit>>

Bytes == 1..MaxOutput
Request == [allowed : BOOLEAN, timeout : Timeouts, cap : Caps]

TypeOK ==
    /\ execution \in {"idle", "waits", "kills", "joins", "done"} /\ request \in Request
    /\ child \in {"none", "runs", "exited"}
    /\ plan \in [amount : [Streams -> 0..MaxOutput], ends : BOOLEAN]
    /\ written \in [Streams -> 0..MaxOutput]
    /\ pipe \in [Streams -> Seq(Bytes)] /\ gathered \in [Streams -> Seq(Bytes)]
    /\ kept \in [Streams -> Seq(Bytes)]
    /\ \A s \in Streams : Len(pipe[s]) <= PipeSize /\ Len(gathered[s]) <= ChunkSize
    /\ Len(kept["stdout"]) + Len(kept["stderr"]) <= request.cap
    /\ reader \in [Streams -> {"none", "reads", "done"}]
    /\ truncated \in BOOLEAN /\ timedOut \in BOOLEAN
    /\ execAnswer \in {"none", "ok", "not ok", "422", "503"}
    /\ audit \in Seq({"refused", "failed", "timed_out", "completed"})

Init ==
    /\ execution = "idle" /\ request \in Request /\ child = "none"
    /\ plan \in [amount : [Streams -> 0..MaxOutput], ends : BOOLEAN]
    /\ written = [s \in Streams |-> 0]
    /\ pipe = [s \in Streams |-> <<>>] /\ gathered = [s \in Streams |-> <<>>]
    /\ reader = [s \in Streams |-> "none"]
    /\ kept = [s \in Streams |-> <<>>] /\ truncated = FALSE
    /\ timedOut = FALSE /\ execAnswer = "none" /\ audit = <<>>

(***************************************************************************)
(* execute                                                                 *)
(***************************************************************************)
Validate ==
    /\ request.allowed
    /\ 0 < request.timeout /\ request.timeout <= MaxTimeout
    /\ 1 <= request.cap /\ request.cap <= MaxCap

Audit(status) == audit' = Append(audit, status)

\* What the route answers for a result or an exception.
Respond(status) == execution' = "done" /\ execAnswer' = status

Refuse ==
    /\ execution = "idle" /\ ~Validate /\ Audit("refused") /\ Respond("422")
    /\ UNCHANGED <<request, child, plan, io, timedOut>>

\* Popen raises OSError.
NotStarted ==
    /\ execution = "idle" /\ Validate /\ Audit("failed") /\ Respond("503")
    /\ UNCHANGED <<request, child, plan, io, timedOut>>

Start ==
    /\ execution = "idle" /\ Validate /\ execution' = "waits"
    /\ child' = "runs" /\ reader' = [s \in Streams |-> "reads"]
    /\ UNCHANGED <<request, plan, written, pipe, gathered, kept, truncated, timedOut, execAnswer, audit>>

\* process.wait returns.
Waited ==
    /\ execution = "waits" /\ child = "exited" /\ execution' = "joins"
    /\ UNCHANGED <<request, child, plan, io, timedOut, execAnswer, audit>>

\* mutant: the timeout is also logged at once.
ExpireLogged ==
    /\ execution = "waits" /\ execution' = "kills" /\ timedOut' = TRUE
    /\ audit' = Append(audit, "timed_out")
    /\ UNCHANGED <<request, child, plan, io, execAnswer>>
\* TimeoutExpired, which may come just after the command has ended.
Expire ==
    /\ execution = "waits" /\ execution' = "kills" /\ timedOut' = TRUE
    /\ UNCHANGED <<request, child, plan, io, execAnswer, audit>>

\* killpg, which may find nothing, and the second wait.
Kill ==
    /\ execution = "kills" /\ execution' = "joins"
    /\ child' = "exited"
    /\ UNCHANGED <<request, plan, io, timedOut, execAnswer, audit>>

\* The readers are joined, then the result is put together.
Finish ==
    /\ execution = "joins" /\ \A s \in Streams : reader[s] = "done"
    /\ \/ timedOut /\ Audit("timed_out") /\ Respond("not ok")
       \/ ~timedOut /\ \E status \in {"ok", "not ok"} : Audit("completed") /\ Respond(status)
    /\ UNCHANGED <<request, child, plan, io, timedOut>>

(***************************************************************************)
(* The command                                                             *)
(***************************************************************************)

\* It blocks while the pipe is full.
WriteByte(s) ==
    /\ child = "runs" /\ written[s] < plan.amount[s] /\ Len(pipe[s]) < PipeSize
    /\ written' = [written EXCEPT ![s] = @ + 1]
    /\ pipe' = [pipe EXCEPT ![s] = Append(@, written[s] + 1)]
    /\ UNCHANGED <<execution, request, child, plan, gathered, reader, kept, truncated, timedOut, execAnswer, audit>>

\* It ends when it has written everything.
ChildExits ==
    /\ child = "runs" /\ plan.ends /\ written = plan.amount
    /\ child' = "exited"
    /\ UNCHANGED <<execution, request, plan, io, timedOut, execAnswer, audit>>

(***************************************************************************)
(* _OutputCollector.drain                                                  *)
(***************************************************************************)
EndOfFile(s) == child = "exited" /\ pipe[s] = <<>>

\* mutant: the pipes are drained one after the other.
InTurn(s) == reader[s] = "reads" /\ (s = "stderr" => reader["stdout"] = "done")
Draining(s) == reader[s] = "reads"

\* stream.read gathers a whole chunk unless the stream ends.
Gather(s) ==
    /\ Draining(s) /\ pipe[s] # <<>> /\ Len(gathered[s]) < ChunkSize
    /\ gathered' = [gathered EXCEPT ![s] = Append(@, Head(pipe[s]))]
    /\ pipe' = [pipe EXCEPT ![s] = Tail(@)]
    /\ UNCHANGED <<execution, request, child, plan, written, reader, kept, truncated, timedOut, execAnswer, audit>>

\* mutant: each stream has the cap.
RemainingPerStream(s) == request.cap - Len(kept[s])
Remaining(s) == request.cap - (Len(kept["stdout"]) + Len(kept["stderr"]))

\* mutant: a chunk that does not fit is dropped.
DropChunk(chunk, room) == IF Len(chunk) <= room THEN chunk ELSE <<>>
CutChunk(chunk, room) == SubSeq(chunk, 1, IF Len(chunk) <= room THEN Len(chunk) ELSE room)

\* mutant: truncated only when nothing fits.
CutAll(chunk, room) == room = 0
Cuts(chunk, room) == Len(chunk) > room

\* The critical section, for a chunk read returned.
Collect(s) ==
    LET chunk == gathered[s]
        room == Remaining(s) IN
    /\ Draining(s) /\ chunk # <<>>
    /\ Len(chunk) = ChunkSize \/ EndOfFile(s)
    /\ kept' = [kept EXCEPT ![s] = @ \o CutChunk(chunk, room)]
    /\ truncated' = (truncated \/ Cuts(chunk, room))
    /\ gathered' = [gathered EXCEPT ![s] = <<>>]
    /\ UNCHANGED <<execution, request, child, plan, written, pipe, reader, timedOut, execAnswer, audit>>

ReaderEnds(s) ==
    /\ Draining(s) /\ gathered[s] = <<>> /\ EndOfFile(s)
    /\ reader' = [reader EXCEPT ![s] = "done"]
    /\ UNCHANGED <<execution, request, child, plan, written, pipe, gathered, kept, truncated,
                   timedOut, execAnswer, audit>>

----------------------------------------------------------------------------
Threads(s) == Gather(s) \/ Collect(s) \/ ReaderEnds(s)
Command == ChildExits \/ \E s \in Streams : WriteByte(s)
Parent == Refuse \/ NotStarted \/ Start \/ Waited \/ Kill \/ Finish

Next == Parent \/ Expire \/ Command \/ \E s \in Streams : Threads(s)

Spec == Init /\ [][Next]_vars

\* Threads and the command are scheduled.  The clock is only relied on for a
\* command that does not end by itself.
FairSpec ==
    /\ Spec /\ WF_vars(Parent) /\ WF_vars(Command) /\ WF_vars(~plan.ends /\ Expire)
    /\ \A s \in Streams : WF_vars(Threads(s))

(***************************************************************************)
(* Properties                                                              *)
(***************************************************************************)

\* What is kept of a stream is its beginning, however the two readers
\* interleave at the cap (drain).
KeepsTheBeginning ==
    \A s \in Streams : kept[s] = [i \in 1..Len(kept[s]) |-> i]

\* A result says truncated exactly when output is missing, also for a command
\* killed with output in its pipes (drain, the joins in execute).
TruncatedIsTrue ==
    execution = "done" /\ child # "none" =>
        (truncated <=> \E s \in Streams : Len(kept[s]) < written[s])

\* A command that has been answered for no longer runs and has one line in the
\* audit log, the one for its outcome (execute).
AnsweredIsOver ==
    execAnswer # "none" =>
        /\ child # "runs" /\ Len(audit) = 1
        /\ (audit[1] = "timed_out" => execAnswer = "not ok") /\ (execAnswer = "ok" => audit[1] = "completed")

\* What makes it so.  Of a stream, what was written last is in the pipe, what came
\* before it is with the reader, and what was lost came before that and is missing
\* from the end of what is kept.  Bytes are lost only once the cap is reached.
InTransit(s) == Len(gathered[s]) + Len(pipe[s])
BytesStayInOrder ==
    /\ \A s \in Streams :
           /\ Len(kept[s]) + InTransit(s) <= written[s]
           /\ \A i \in 1..Len(pipe[s]) : pipe[s][i] + Len(pipe[s]) = written[s] + i
           /\ \A i \in 1..Len(gathered[s]) : gathered[s][i] + InTransit(s) = written[s] + i
    /\ IF truncated THEN /\ Remaining("stdout") = 0
                         /\ \E s \in Streams : Len(kept[s]) + InTransit(s) < written[s]
       ELSE \A s \in Streams : Len(kept[s]) + InTransit(s) = written[s]

\* Where execute, the command and the readers can be at the same time.
StepsAgree ==
    /\ execution = "idle" => child = "none"
    /\ execution \in {"waits", "kills"} => child # "none"
    /\ execution = "joins" => child = "exited"
    /\ execution = "done" => child # "runs"
    /\ execution = "done" /\ child # "none" => \A s \in Streams : reader[s] = "done"
    /\ child = "none" => \A s \in Streams : reader[s] = "none" /\ written[s] = 0
    /\ \A s \in Streams : reader[s] = "done" => EndOfFile(s) /\ gathered[s] = <<>>
    /\ IF execution = "done" THEN execAnswer # "none" ELSE execAnswer = "none" /\ audit = <<>>

\* What is answered about a command is true, however readers, cap, timeout and
\* exit race (execute, drain).
SandboxInvariant ==
    /\ TypeOK /\ BytesStayInOrder /\ StepsAgree
    /\ KeepsTheBeginning /\ TruncatedIsTrue /\ AnsweredIsOver

\* Every execution ends; one that writes more than a pipe holds and then ends by
\* itself needs no timeout for it (concurrent readers).
EveryExecutionEnds == []<>(execution \in {"idle", "done"})
=============================================================================
