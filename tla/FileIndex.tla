----------------------------- MODULE FileIndex -----------------------------
(***************************************************************************)
(* The node's document index: node/index.py behind the /index and /search  *)
(* routes of node/dain_node.py.                                            *)
(*                                                                         *)
(* Every route runs in a thread.  A refresh notes the generation, waits    *)
(* for refresh_lock, and walks the files only if nobody finished a walk    *)
(* while it waited; reading a file, embedding and publishing are separate  *)
(* steps during which files change and others search.  A document is the   *)
(* version of its file, the size counted for it and the length of its      *)
(* vector; texts, scores and snippets are left out.                        *)
(***************************************************************************)
EXTENDS Naturals, Sequences, FiniteSetsExt

CONSTANTS
    NumFiles,       \* paths under the root, in the order of sorted()
    Sizes,          \* sizes a text file may have
    MaxFileBytes, MaxFiles, MaxBytes,
    Dimensions,     \* vector lengths the embedding model may produce
    Refreshers, Searchers,
    MaxCalls,       \* refreshes, at most
    MaxWrites       \* changes to files, at most

Files == 1..NumFiles
NoFile == 0
Nobody == "nobody"

IndexAssumption ==
    /\ NumFiles \in Nat /\ Sizes \subseteq Nat \ {0} /\ Dimensions \subseteq Nat \ {0}
    /\ MaxFileBytes \in Nat /\ MaxFiles \in Nat \ {0} /\ MaxBytes \in Nat \ {0}
    /\ MaxCalls \in Nat /\ MaxWrites \in Nat /\ Nobody \notin Refreshers

VARIABLES
    disk,          \* size and version of every text file; size NoFile when it is not there
    documents, indexedBytes, indexReady, generation,   \* LocalFileIndex
    refreshLock,   \* who holds it
    stage,         \* where every refresh is
    observed,      \* its observed_generation
    walk,          \* its path, documents and bytes
    indexAnswer,   \* what its route answered
    spc, snapshot, found,   \* every search: where it is, its documents, its answer
    calls, writes

index == <<documents, indexedBytes, indexReady, generation>>
refresh == <<refreshLock, stage, observed, walk, indexAnswer>>
search == <<spc, snapshot, found>>
vars == <<disk, index, refresh, search, calls, writes>>

Document == [path : Files, version : 0..MaxWrites, size : Sizes, dims : {0} \cup Dimensions]
Walk == [path : 1..(NumFiles + 1), version : 0..MaxWrites, docs : Seq(Document), bytes : Nat]
NewWalk == [path |-> 1, version |-> 0, docs |-> <<>>, bytes |-> 0]

TypeOK ==
    /\ disk \in [Files -> [size : Sizes \cup {NoFile}, version : 0..MaxWrites]]
    /\ documents \in Seq(Document) /\ indexedBytes \in Nat
    /\ indexReady \in BOOLEAN /\ generation \in Nat
    /\ refreshLock \in Refreshers \cup {Nobody}
    /\ stage \in [Refreshers -> {"idle", "called", "walk", "stat", "embed", "publish"}]
    /\ observed \in [Refreshers -> Nat]
    /\ walk \in [Refreshers -> Walk]
    /\ indexAnswer \in [Refreshers -> {"none", "stats", "503", "500"}]
    /\ spc \in [Searchers -> {"idle", "ranking"}] /\ snapshot \in [Searchers -> Seq(Document)]
    /\ found \in [Searchers -> {"none", "hits", "empty", "409", "503", "422"}]
    /\ calls \in 0..MaxCalls /\ writes \in 0..MaxWrites

Init ==
    /\ disk \in [Files -> [size : Sizes \cup {NoFile}, version : {0}]]
    /\ documents = <<>> /\ indexedBytes = 0 /\ indexReady = FALSE /\ generation = 0
    /\ refreshLock = Nobody
    /\ stage = [t \in Refreshers |-> "idle"] /\ observed = [t \in Refreshers |-> 0]
    /\ walk = [t \in Refreshers |-> NewWalk] /\ indexAnswer = [t \in Refreshers |-> "none"]
    /\ spc = [s \in Searchers |-> "idle"] /\ snapshot = [s \in Searchers |-> <<>>]
    /\ found = [s \in Searchers |-> "none"]
    /\ calls = 0 /\ writes = 0

\* Someone writes or deletes a file.
Write(f) ==
    /\ writes < MaxWrites /\ writes' = writes + 1
    /\ \E size \in (Sizes \cup {NoFile}) :
           disk' = [disk EXCEPT ![f] = [size |-> size, version |-> @.version + 1]]
    /\ UNCHANGED <<index, refresh, search, calls>>

(***************************************************************************)
(* refresh                                                                 *)
(***************************************************************************)
Refresh(t) ==
    /\ stage[t] = "idle" /\ calls < MaxCalls /\ calls' = calls + 1
    /\ stage' = [stage EXCEPT ![t] = "called"]
    /\ observed' = [observed EXCEPT ![t] = generation]
    /\ indexAnswer' = [indexAnswer EXCEPT ![t] = "none"]
    /\ UNCHANGED <<disk, index, refreshLock, walk, search, writes>>

\* mutant: walks are not serialised.
LockIgnored == TRUE
LockFree == refreshLock = Nobody

\* mutant: any index will do.
AnyIndex(t) == generation > 0
\* Somebody published while this call waited.
Overtaken(t) == generation # observed[t]

Enter(t) ==
    /\ stage[t] = "called" /\ LockFree
    /\ \/ /\ Overtaken(t)
          /\ stage' = [stage EXCEPT ![t] = "idle"] /\ indexAnswer' = [indexAnswer EXCEPT ![t] = "stats"]
          /\ UNCHANGED <<refreshLock, walk>>
       \/ /\ ~Overtaken(t)
          /\ stage' = [stage EXCEPT ![t] = "walk"] /\ refreshLock' = t
          /\ walk' = [walk EXCEPT ![t] = NewWalk]
          /\ UNCHANGED indexAnswer
    /\ UNCHANGED <<disk, index, observed, search, calls, writes>>

WalkOver(w) == w.path > NumFiles \/ Len(w.docs) >= MaxFiles

\* The loop's next path: it ends, skips what is no readable text file, or reads it.
Visit(t) ==
    LET w == walk[t] IN
    /\ stage[t] = "walk"
    /\ \/ WalkOver(w) /\ stage' = [stage EXCEPT ![t] = "embed"] /\ UNCHANGED walk
       \/ /\ ~WalkOver(w)
          /\ disk[w.path].size = NoFile \/ disk[w.path].size > MaxFileBytes
          /\ walk' = [walk EXCEPT ![t].path = @ + 1] /\ UNCHANGED stage
       \/ /\ ~WalkOver(w)
          /\ disk[w.path].size # NoFile /\ disk[w.path].size <= MaxFileBytes
          /\ walk' = [walk EXCEPT ![t].version = disk[w.path].version]
          /\ stage' = [stage EXCEPT ![t] = "stat"]
    /\ UNCHANGED <<disk, index, refreshLock, observed, indexAnswer, search, calls, writes>>

\* mutant: a failure keeps the lock.
ReturnHolding(t, how) ==
    /\ stage' = [stage EXCEPT ![t] = "idle"] /\ indexAnswer' = [indexAnswer EXCEPT ![t] = how]
    /\ refreshLock' = IF how = "stats" THEN Nobody ELSE refreshLock
    /\ walk' = [walk EXCEPT ![t] = NewWalk]
\* refresh_lock is released however the call ends.
Return(t, how) ==
    /\ stage' = [stage EXCEPT ![t] = "idle"] /\ indexAnswer' = [indexAnswer EXCEPT ![t] = how]
    /\ refreshLock' = Nobody
    /\ walk' = [walk EXCEPT ![t] = NewWalk]

\* mutant: the cap is compared before the file is added.
CappedLate(w, size) == w.bytes > MaxBytes
OverTotal(w, size) == w.bytes + size > MaxBytes

\* The size that counts is read after the text; a file that is gone by then is
\* not caught.  The first file over the total ends the walk.
Stat(t) ==
    LET w == walk[t]
        size == disk[w.path].size IN
    /\ stage[t] = "stat"
    /\ \/ size = NoFile /\ Return(t, "500")
       \/ /\ size # NoFile /\ OverTotal(w, size)
          /\ stage' = [stage EXCEPT ![t] = "embed"] /\ UNCHANGED <<walk, indexAnswer, refreshLock>>
       \/ /\ size # NoFile /\ ~OverTotal(w, size)
          /\ walk' = [walk EXCEPT
                 ![t].path = w.path + 1, ![t].bytes = w.bytes + size,
                 ![t].docs = Append(@, [path |-> w.path, version |-> w.version, size |-> size, dims |-> 0])]
          /\ stage' = [stage EXCEPT ![t] = "walk"] /\ UNCHANGED <<indexAnswer, refreshLock>>
    /\ UNCHANGED <<disk, index, observed, search, calls, writes>>

\* mutant: the first vector stands for all.
FirstIsLong(vectors) == vectors[1] > 0
SameLength(vectors) == vectors[1] > 0 /\ \A i \in 1..Len(vectors) : vectors[i] = vectors[1]

\* embed_documents: the model is missing or fails, or its vectors are wrong.
Embed(t) ==
    LET n == Len(walk[t].docs) IN
    /\ stage[t] = "embed"
    /\ \/ n > 0 /\ Return(t, "503")
       \/ \E vectors \in [1..n -> {0} \cup Dimensions] :
              \/ n > 0 /\ ~SameLength(vectors) /\ Return(t, "503")
              \/ /\ n > 0 => SameLength(vectors)
                 /\ walk' = [walk EXCEPT ![t].docs =
                        [i \in 1..n |-> [walk[t].docs[i] EXCEPT !.dims = vectors[i]]]]
                 /\ stage' = [stage EXCEPT ![t] = "publish"]
                 /\ UNCHANGED <<indexAnswer, refreshLock>>
    /\ UNCHANGED <<disk, index, observed, search, calls, writes>>

\* The end of refresh, under the lock.
Publish(t) ==
    /\ stage[t] = "publish"
    /\ documents' = walk[t].docs /\ indexedBytes' = walk[t].bytes
    /\ indexReady' = TRUE /\ generation' = generation + 1
    /\ Return(t, "stats")
    /\ UNCHANGED <<disk, observed, search, calls, writes>>

(***************************************************************************)
(* search                                                                  *)
(***************************************************************************)
Found(s, what) ==
    /\ spc' = [spc EXCEPT ![s] = "idle"] /\ found' = [found EXCEPT ![s] = what]
    /\ snapshot' = [snapshot EXCEPT ![s] = <<>>]

\* search up to the query's embedding: the documents are one published tuple.
Search(s) ==
    /\ spc[s] = "idle"
    /\ \/ ~indexReady /\ Found(s, "409")
       \/ indexReady /\ documents = <<>> /\ Found(s, "empty")
       \/ /\ indexReady /\ documents # <<>>
          /\ snapshot' = [snapshot EXCEPT ![s] = documents]
          /\ spc' = [spc EXCEPT ![s] = "ranking"] /\ found' = [found EXCEPT ![s] = "none"]
    /\ UNCHANGED <<disk, index, refresh, calls, writes>>

\* cosine_similarity refuses vectors of different length with a ValueError,
\* which the route takes for a mistake of the caller.
Rank(s) ==
    LET docs == snapshot[s] IN
    /\ spc[s] = "ranking"
    /\ \/ Found(s, "503")
       \/ \E dims \in Dimensions :
              Found(s, IF dims # docs[1].dims THEN "503"
                       ELSE IF \E i \in 1..Len(docs) : docs[i].dims # dims THEN "422" ELSE "hits")
    /\ UNCHANGED <<disk, index, refresh, calls, writes>>

----------------------------------------------------------------------------
Working(t) == Enter(t) \/ Visit(t) \/ Stat(t) \/ Embed(t) \/ Publish(t)

Next ==
    \/ \E f \in Files : Write(f)
    \/ \E t \in Refreshers : Refresh(t) \/ Working(t)
    \/ \E s \in Searchers : Search(s) \/ Rank(s)

Spec == Init /\ [][Next]_vars

\* Threads are scheduled, reading and embedding end, and the walks end, so a
\* waiting thread gets the lock in the end.
FairSpec == Spec /\ \A t \in Refreshers : WF_vars(Working(t))

(***************************************************************************)
(* Properties                                                              *)
(***************************************************************************)

\* No search and no refresh ever gets an older version of a file than was
\* already published: walks that overlap never overwrite each other in the
\* wrong order (refresh_lock, generation).
NeverGoesBack ==
    [][\A i \in 1..Len(documents) : \A j \in 1..Len(documents') :
           documents[i].path = documents'[j].path =>
               documents[i].version <= documents'[j].version]_vars

Total(docs) == SumFunctionOnSet([i \in 1..Len(docs) |-> docs[i].size], 1..Len(docs))

\* The published index and the one being built stay within the caps, and the
\* byte count is that of the documents, although files grow, shrink and vanish
\* between the checks (refresh, _read_document).
WithinCaps ==
    /\ Len(documents) <= MaxFiles /\ indexedBytes = Total(documents) /\ indexedBytes <= MaxBytes
    /\ \A t \in Refreshers : walk[t].bytes = Total(walk[t].docs) /\ walk[t].bytes <= MaxBytes

\* A well-formed query is never answered 422, which the controller does not
\* retry: whatever the embedding model did during refreshes, the vectors a
\* search compares have one length (search, the checks after embed_documents).
NeverTheCallersFault == \A s \in Searchers : found[s] # "422"

\* A refresh that returned statistics returned those of an index published
\* after it was called (refresh's generation check).
StatsAreNew ==
    \A t \in Refreshers : indexAnswer[t] = "stats" => generation > observed[t]

\* What makes it so.  Who walks has the lock, and what it has read of a file is
\* between the published version and the one on disk; no file is in an index twice,
\* and the vectors of one that is published have one length.
Walking == {"walk", "stat", "embed", "publish"}
OneLength(docs) == \A i, j \in 1..Len(docs) : docs[i].dims = docs[j].dims
PathsDiffer(docs) == \A i, j \in 1..Len(docs) : docs[i].path = docs[j].path => i = j
Current(docs, files, path, version) ==
    /\ version <= files[path].version
    /\ \A i \in 1..Len(docs) : docs[i].path = path => docs[i].version <= version
WalksMatch ==
    /\ \A f \in Files : disk[f].version <= writes /\ Current(documents, disk, f, disk[f].version)
    /\ \A t \in Refreshers :
           LET w == walk[t] IN
           /\ IF stage[t] \in Walking THEN refreshLock = t ELSE w = NewWalk
           /\ observed[t] <= generation
           /\ stage[t] = "stat" =>
                  /\ w.path <= NumFiles /\ Len(w.docs) < MaxFiles
                  /\ Current(documents, disk, w.path, w.version)
           /\ Len(w.docs) <= MaxFiles /\ PathsDiffer(w.docs)
           /\ \A j \in 1..Len(w.docs) :
                  /\ w.docs[j].path < w.path
                  /\ Current(documents, disk, w.docs[j].path, w.docs[j].version)
           /\ stage[t] = "publish" => OneLength(w.docs)
    /\ OneLength(documents) /\ PathsDiffer(documents)
    /\ \A s \in Searchers : OneLength(snapshot[s]) /\ (spc[s] = "ranking" => snapshot[s] # <<>>)

\* Whatever happens to the files during a walk, what is published is within its
\* caps, can be searched, and is new to whoever asked for it (refresh, search).
IndexInvariant == TypeOK /\ WalksMatch /\ WithinCaps /\ NeverTheCallersFault /\ StatsAreNew

\* Every index job is answered: no failure keeps refresh_lock.
RefreshEnds == \A t \in Refreshers : []<>(stage[t] = "idle")
=============================================================================
