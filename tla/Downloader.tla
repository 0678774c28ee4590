----------------------------- MODULE Downloader -----------------------------
(***************************************************************************)
(* internal/huggingface/downloader.go: resumable model downloads, for one  *)
(* download ID (every ID has its own entry, files and goroutines).  Start  *)
(* and Cancel are called by HTTP handlers, one run goroutine fetches the   *)
(* shards of a download one after the other into <shard>.part and renames  *)
(* it, and 30 seconds after a run ended a goroutine drops the entry.       *)
(*                                                                         *)
(* A shard is the chunks 1 .. NChunks.  Files are inodes: a writer keeps   *)
(* the inode it opened whatever happens to the path.                       *)
(***************************************************************************)
EXTENDS Naturals, Sequences, FiniteSets

CONSTANTS
    Callers,     \* HTTP requests in progress together
    NFiles,      \* shards of the download
    NChunks,     \* chunks of a shard
    Replies,     \* how the server may answer a ranged request
    Scenarios,   \* sets of what users and the machine may do in a behaviour
    MaxTasks,    \* bound: run goroutines ever started
    MaxCrashes   \* bound: server crashes

Tasks == 1 .. MaxTasks
Files == 1 .. NFiles
Inodes == 1 .. MaxTasks * NFiles
None == 0

ASSUME SizesAssumption == /\ NFiles \in Nat \ {0} /\ NChunks \in Nat \ {0}
                          /\ MaxTasks \in Nat /\ MaxCrashes \in Nat
(* "206", a 200 with a Content-Range (ModelScope), or a plain 200 that     *)
(* ignores the range.                                                      *)
ASSUME RepliesAssumption == Replies \subseteq {"206", "200range", "200"} /\ Replies # {}
(* "early" is a start within the 30 seconds after a run ended, "expire"    *)
(* the end of those 30 seconds.                                            *)
ASSUME ScenariosAssumption ==
    Scenarios \subseteq SUBSET {"cancel", "drop", "crash", "early", "expire", "discard"}

VARIABLES
    entry,    \* d.active[downloadID]: a task, or None
    dl,       \* each run goroutine and its download record
    sweep,    \* tasks whose 30 second timer is running
    started,  \* tasks ever started
    call,     \* each HTTP request: where it is and the task it waits for
    inode,    \* contents of every inode
    made,     \* inodes created so far
    part,     \* inode at <shard>.part, or None
    final,    \* inode at <shard>, or None
    crashes,
    ops       \* the scenario: chosen at the start, then constant

dVars == <<entry, dl, sweep, started>>
fVars == <<inode, made, part, final>>
vars == <<entry, dl, sweep, started, call, inode, made, part, final, crashes>>

Statuses == {"none", "downloading", "complete", "failed", "cancelled"}
TaskPCs == {"none", "begin", "file", "get", "body", "register", "end", "gone"}
Task == [pc : TaskPCs, last : Statuses, cancelled : BOOLEAN,
         file : 1 .. NFiles + 1, had : Nat, fd : Inodes \cup {None},
         pos : Nat, next : Nat]

TypeOK ==
    /\ entry \in Tasks \cup {None}
    /\ dl \in [Tasks -> Task]
    /\ sweep \subseteq Tasks
    /\ started \in 0 .. MaxTasks
    /\ call \in [Callers -> [pc : {"idle", "evicted", "join"}, old : Tasks \cup {None}]]
    /\ inode \in [Inodes -> Seq(0 .. NChunks)]
    /\ made \in 0 .. MaxTasks * NFiles
    /\ {part, final} \subseteq [Files -> Inodes \cup {None}]
    /\ crashes \in 0 .. MaxCrashes

NoTask == [pc |-> "none", last |-> "none", cancelled |-> FALSE, file |-> 1,
           had |-> 0, fd |-> None, pos |-> 0, next |-> 0]
NoCall == [pc |-> "idle", old |-> None]

Init ==
    /\ entry = None
    /\ dl = [t \in Tasks |-> NoTask]
    /\ sweep = {}
    /\ started = 0
    /\ call = [c \in Callers |-> NoCall]
    /\ inode = [i \in Inodes |-> <<>>]
    /\ made = 0
    /\ part = [f \in Files |-> None]
    /\ final = [f \in Files |-> None]
    /\ crashes = 0
    /\ ops \in Scenarios

Done(t) == dl[t].pc = "gone"         \* dl.done is closed
Downloading(t) == dl[t].last = "downloading"

----------------------------------------------------------------------------
(* Start: the entry is created with a seeded "downloading" status, unless  *)
(* there is one; a terminal one is evicted first and its goroutine waited  *)
(* for without the lock, and what happened meanwhile is not looked at.     *)

(* mutant: the entry is created without its first status *)
SeedNone == [NoTask EXCEPT !.pc = "begin"]

Seed == [NoTask EXCEPT !.pc = "begin", !.last = "downloading"]

Spawn ==
    /\ started < MaxTasks
    /\ started' = started + 1
    /\ entry' = started + 1
    /\ dl' = [dl EXCEPT ![started + 1] = Seed]
    /\ UNCHANGED sweep

StartNew(c) ==
    /\ call[c].pc = "idle"
    /\ entry = None
    /\ Spawn
    /\ UNCHANGED <<call, fVars, crashes>>

StartEvict(c) ==
    /\ "early" \in ops
    /\ call[c].pc = "idle"
    /\ entry # None /\ ~Downloading(entry)
    /\ entry' = None
    /\ call' = [call EXCEPT ![c] = [pc |-> "evicted", old |-> entry]]
    /\ UNCHANGED <<dl, sweep, started, fVars, crashes>>

(* The wait is over, or took 5 seconds: only the completion callback can.  *)
StartEvicted(c) ==
    /\ call[c].pc = "evicted"
    /\ Done(call[c].old) \/ dl[call[c].old].pc = "register"
    /\ Spawn
    /\ call' = [call EXCEPT ![c] = NoCall]
    /\ UNCHANGED <<fVars, crashes>>

(* Cancel: cancel the context, then wait for the goroutine.                *)
Cancel(c) ==
    /\ "cancel" \in ops
    /\ call[c].pc = "idle"
    /\ entry # None
    /\ dl' = [dl EXCEPT ![entry].cancelled = TRUE]
    /\ call' = [call EXCEPT ![c] = [pc |-> "join", old |-> entry]]
    /\ UNCHANGED <<entry, sweep, started, fVars, crashes>>

CancelReturn(c) ==
    /\ call[c].pc = "join"
    /\ Done(call[c].old)
    /\ call' = [call EXCEPT ![c] = NoCall]
    /\ UNCHANGED <<dVars, fVars, crashes>>

----------------------------------------------------------------------------
(* run and downloadFile.                                                   *)

(* The status a run ends with; a completed one calls onComplete first.     *)
Ended(t, status) ==
    [dl[t] EXCEPT !.last = status, !.fd = None,
                  !.pc = IF status = "complete" THEN "register" ELSE "end"]
EndWith(t, status) == dl' = [dl EXCEPT ![t] = Ended(t, status)]

Begin(t) ==
    /\ dl[t].pc = "begin"
    /\ IF dl[t].cancelled THEN EndWith(t, "cancelled")
       ELSE dl' = [dl EXCEPT ![t].pc = "file"]
    /\ UNCHANGED <<entry, sweep, started, call, fVars, crashes>>

AllFiles(t) == dl[t].file > NFiles

Completed(t) ==
    /\ dl[t].pc = "file"
    /\ AllFiles(t)
    /\ EndWith(t, "complete")
    /\ UNCHANGED <<entry, sweep, started, call, fVars, crashes>>

Stopped(t) ==
    /\ dl[t].pc = "file"
    /\ dl[t].file \in Files
    /\ dl[t].cancelled
    /\ EndWith(t, "cancelled")
    /\ UNCHANGED <<entry, sweep, started, call, fVars, crashes>>

(* A shard that is there is skipped; otherwise the size of its .part tells *)
(* where the GET starts.                                                   *)
NextFile(t) ==
    LET f == dl[t].file
    IN  /\ dl[t].pc = "file"
        /\ f \in Files
        /\ ~dl[t].cancelled
        /\ dl' = [dl EXCEPT ![t] =
                     IF final[f] # None THEN [@ EXCEPT !.file = f + 1]
                     ELSE [@ EXCEPT !.pc = "get",
                                    !.had = IF part[f] = None THEN 0
                                            ELSE Len(inode[part[f]])]]
        /\ UNCHANGED <<entry, sweep, started, call, fVars, crashes>>

(* mutant: the status code alone says whether a reply is partial *)
responseIsPartialStatus(reply) == reply = "206"

responseIsPartial(reply) == reply # "200"

(* A server that honours a range refuses one that starts at the end of the *)
(* file; one that does not sends the whole file.                           *)
MayReply(reply, had) ==
    IF had = 0 THEN reply = "200" ELSE reply \in Replies /\ (reply = "200" \/ had < NChunks)

(* The reply, and the .part file opened for appending or truncated.        *)
Respond(t, reply) ==
    LET f == dl[t].file
        keep == IF responseIsPartial(reply) THEN dl[t].had ELSE 0
        i == IF part[f] = None THEN made + 1 ELSE part[f]
    IN  /\ dl[t].pc = "get"
        /\ MayReply(reply, dl[t].had)
        /\ part' = [part EXCEPT ![f] = i]
        /\ made' = IF part[f] = None THEN made + 1 ELSE made
        /\ inode' = [inode EXCEPT ![i] = IF keep > 0 THEN @ ELSE <<>>]
        /\ dl' = [dl EXCEPT ![t].pc = "body", ![t].fd = i, ![t].pos = keep,
                            ![t].had = keep,
                            ![t].next = IF reply = "200" THEN 1 ELSE dl[t].had + 1]
        /\ UNCHANGED <<entry, sweep, started, call, final, crashes>>

(* "HTTP 416": nothing of the range is left to send.                       *)
Refused(t) ==
    /\ dl[t].pc = "get"
    /\ dl[t].had >= NChunks /\ Replies # {"200"}
    /\ EndWith(t, "failed")
    /\ UNCHANGED <<entry, sweep, started, call, fVars, crashes>>

(* What a file holds after chunk v is written at position p of it.         *)
WriteAt(s, p, v) ==
    [i \in 1 .. IF p > Len(s) THEN p ELSE Len(s) |->
        IF i = p THEN v ELSE IF i <= Len(s) THEN s[i] ELSE 0]

(* A resumed file is written at its end (O_APPEND), a fresh one where this *)
(* writer left off.                                                        *)
Chunk(t) ==
    LET i == dl[t].fd
    IN  /\ dl[t].pc = "body"
        /\ dl[t].next <= NChunks
        /\ inode' = [inode EXCEPT ![i] =
                        IF dl[t].had > 0 THEN Append(@, dl[t].next)
                        ELSE WriteAt(@, dl[t].pos + 1, dl[t].next)]
        /\ dl' = [dl EXCEPT ![t].pos = @ + 1, ![t].next = @ + 1]
        /\ UNCHANGED <<entry, sweep, started, call, made, part, final, crashes>>

EOF(t) == dl[t].next > NChunks

(* EOF: the .part that is there by now is renamed.                         *)
Rename(t) ==
    LET f == dl[t].file
    IN  /\ dl[t].pc = "body"
        /\ EOF(t)
        /\ IF part[f] = None
           THEN EndWith(t, "failed") /\ UNCHANGED <<part, final>>
           ELSE /\ final' = [final EXCEPT ![f] = part[f]]
                /\ part' = [part EXCEPT ![f] = None]
                /\ dl' = [dl EXCEPT ![t].pc = "file", ![t].file = f + 1, ![t].fd = None]
        /\ UNCHANGED <<entry, sweep, started, call, inode, made, crashes>>

(* mutant: between two requests only *)
InterruptedGet(t) ==
    /\ dl[t].pc = "get"
    /\ dl[t].cancelled
    /\ EndWith(t, "cancelled")
    /\ UNCHANGED <<entry, sweep, started, call, fVars, crashes>>

(* The context is looked at before each read and ends a blocked one.       *)
Interrupted(t) ==
    /\ dl[t].pc \in {"get", "body"}
    /\ dl[t].cancelled
    /\ EndWith(t, "cancelled")
    /\ UNCHANGED <<entry, sweep, started, call, fVars, crashes>>

(* The connection breaks, or the disk is full.                             *)
Dropped(t) ==
    /\ "drop" \in ops
    /\ dl[t].pc \in {"get", "body"}
    /\ EndWith(t, "failed")
    /\ UNCHANGED <<entry, sweep, started, call, fVars, crashes>>

(* onComplete has registered the model.                                    *)
Registered(t) ==
    /\ dl[t].pc = "register"
    /\ dl' = [dl EXCEPT ![t].pc = "end"]
    /\ UNCHANGED <<entry, sweep, started, call, fVars, crashes>>

(* The deferred calls: the 30 second timer, and close(dl.done).            *)
End(t) ==
    /\ dl[t].pc = "end"
    /\ dl' = [dl EXCEPT ![t].pc = "gone"]
    /\ sweep' = sweep \cup {t}
    /\ UNCHANGED <<entry, started, call, fVars, crashes>>

(* 30 seconds later the entry goes, whoever's it is by now.  A Cancel that *)
(* joined this task has returned (5 seconds).                              *)
Sweep(t) ==
    /\ "expire" \in ops
    /\ t \in sweep
    /\ \A c \in Callers : call[c].old # t
    /\ sweep' = sweep \ {t}
    /\ entry' = None
    /\ UNCHANGED <<dl, started, call, fVars, crashes>>

----------------------------------------------------------------------------
(* handleIncompleteDiscard removes the files by name.                      *)
Discard ==
    /\ "discard" \in ops
    /\ part' = [f \in Files |-> None]
    /\ final' = [f \in Files |-> None]
    /\ UNCHANGED <<dVars, call, inode, made, crashes>>

(* A crash loses everything but the files.                                 *)
Crash ==
    /\ "crash" \in ops
    /\ crashes < MaxCrashes
    /\ crashes' = crashes + 1
    /\ entry' = None
    /\ dl' = [t \in Tasks |-> IF t <= started THEN [NoTask EXCEPT !.pc = "gone"]
                              ELSE NoTask]
    /\ sweep' = {}
    /\ call' = [c \in Callers |-> NoCall]
    /\ UNCHANGED <<started, fVars>>

TaskNext(t) ==
    \/ Begin(t) \/ Completed(t) \/ Stopped(t) \/ NextFile(t)
    \/ \E reply \in {"206", "200range", "200"} : Respond(t, reply)
    \/ Refused(t) \/ Chunk(t) \/ Rename(t) \/ Interrupted(t) \/ Dropped(t)
    \/ Registered(t) \/ End(t) \/ Sweep(t)

CallerNext(c) ==
    StartNew(c) \/ StartEvict(c) \/ StartEvicted(c) \/ Cancel(c) \/ CancelReturn(c)

Step ==
    \/ \E c \in Callers : CallerNext(c)
    \/ \E t \in Tasks : TaskNext(t)
    \/ Discard \/ Crash

Next == Step /\ UNCHANGED ops

(* The goroutine runs; the network need not deliver anything (the client   *)
(* has no timeout).                                                        *)
Fairness ==
    \A t \in Tasks : /\ WF_vars(Begin(t) \/ Stopped(t) \/ NextFile(t) \/ Completed(t))
                     /\ WF_vars(Interrupted(t))
                     /\ WF_vars(Registered(t)) /\ WF_vars(End(t))

Spec == Init /\ [][Next]_<<vars, ops>>
FairSpec == Spec /\ Fairness

----------------------------------------------------------------------------
Whole == [i \in 1 .. NChunks |-> i]
Fetching(t) == dl[t].pc \in {"begin", "file", "get", "body"}

(* PendingBytes reserves space for "all active downloads", and only a      *)
(* listed one can be cancelled or keeps a second Start, and so a second    *)
(* writer of the same .part, out: a goroutine that fetches is listed, as   *)
(* downloading.                                                            *)
RunningIsListed == \A t \in Tasks : Fetching(t) => entry = t /\ Downloading(t)

(* It is, when nobody resumes a download while the entry of the last run   *)
(* is still there: otherwise that entry's timer removes the new one.       *)
ListedUnlessEarly == "early" \notin ops => RunningIsListed

(* A file under its final name is the whole file, whatever was paused,     *)
(* resumed, cut off or crashed before, and whichever way the server        *)
(* answered (downloadFile: not "a corrupt model that looks complete"), if  *)
(* no second goroutine and no discard meddles with its .part.              *)
FinalIsWhole ==
    ops \cap {"early", "discard"} = {} =>
        \A f \in Files : final[f] # None => inode[final[f]] = Whole

(* A download reported complete has all its shards in place (the model is  *)
(* registered next).                                                       *)
CompleteIsOnDisk ==
    "discard" \notin ops =>
        \A t \in Tasks : dl[t].last = "complete" => \A f \in Files : final[f] # None

(* Cancel: "when Cancel returns, the download has actually stopped         *)
(* touching the filesystem".                                               *)
CancelStops ==
    [][\A c \in Callers :
          call[c].pc = "join" /\ call'[c].pc = "idle" /\ crashes' = crashes =>
              dl[call[c].old].pc \notin {"get", "body"}]_vars

(* Liveness: a download that is cancelled ends, even in the middle of a    *)
(* read that never returns.                                                *)
CancelledEnds == \A t \in Tasks : dl[t].cancelled ~> dl[t].pc = "gone"

(* What is under a final name is whole, and what was reported complete is  *)
(* all there.                                                              *)
FilesAreSound == TypeOK /\ FinalIsWhole /\ CompleteIsOnDisk

(* A cancel stops the writing before it returns, and the download ends.    *)
CancelIsObeyed == CancelStops /\ CancelledEnds
=============================================================================
