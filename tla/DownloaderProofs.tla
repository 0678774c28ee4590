-------------------------- MODULE DownloaderProofs --------------------------
(* Downloader for every number of shards, chunks, requests and goroutines, *)
(* as long as nobody starts a download again within the 30 seconds that    *)
(* the entry of its last run is kept.                                      *)
EXTENDS Downloader, SequenceTheorems, TLAPS

Alive(t) == dl[t].pc \notin {"none", "gone"}
Upto(n) == [i \in 1 .. n |-> i]      \* the first n chunks of a shard

(* Only the goroutine started last can be at work, and then it is listed;  *)
(* a timer that runs is for the entry that is there.                       *)
Listing ==
    /\ entry # None => entry = started
    /\ \A t \in Tasks : Alive(t) => entry = t
    /\ \A t \in Tasks : Fetching(t) => Downloading(t)
    /\ \A t \in sweep : entry = t /\ dl[t].pc = "gone"
    /\ \A c \in Callers : call[c].pc # "evicted"

(* A goroutine makes one inode for a shard at most.                        *)
Spent ==
    /\ made <= started * NFiles
    /\ \A t \in Tasks :
          /\ dl[t].pc = "begin" => dl[t].file = 1
          /\ dl[t].pc \in {"get", "body"} => dl[t].file \in Files
          /\ dl[t].pc = "body" => dl[t].fd \in Inodes
          /\ Fetching(t) =>
                made + 1 <= (started - 1) * NFiles + dl[t].file
                            + IF dl[t].pc = "body" THEN 1 ELSE 0

(* No two names share an inode.                                            *)
Apart ==
    /\ \A f \in Files : part[f] <= made /\ final[f] <= made
    /\ \A f, g \in Files :
          part[f] # None => part[f] # final[g] /\ (part[f] = part[g] => f = g)

(* A .part is the beginning of its shard, and a goroutine knows how much   *)
(* of it there is.                                                         *)
Beginnings ==
    /\ \A f \in Files : part[f] # None => \E n \in 0 .. NChunks : inode[part[f]] = Upto(n)
    /\ \A t \in Tasks : dl[t].pc = "get" =>
          LET p == part[dl[t].file]
          IN  IF p = None THEN dl[t].had = 0 ELSE inode[p] = Upto(dl[t].had)
    /\ \A t \in Tasks : dl[t].pc = "body" =>
          /\ dl[t].fd = part[dl[t].file]
          /\ inode[dl[t].fd] = Upto(dl[t].pos)
          /\ dl[t].next = dl[t].pos + 1
          /\ dl[t].pos <= NChunks

Wholes == \A f \in Files : final[f] # None => inode[final[f]] = Whole

(* The shards before the one a goroutine is at are in place.               *)
InPlace ==
    \A t \in Tasks :
       /\ \A f \in Files : f < dl[t].file => final[f] # None
       /\ dl[t].last = "complete" => dl[t].file = NFiles + 1

Content == Apart /\ Beginnings /\ Wholes /\ InPlace

Inv == TypeOK /\ Listing /\ Spent /\ ("discard" \notin ops => Content)

(* The inductive invariant.                                                *)
IInv == "early" \notin ops => Inv

LEMMA UptoFacts ==
    ASSUME NEW n \in Nat
    PROVE  /\ Len(Upto(n)) = n
           /\ Append(Upto(n), n + 1) = Upto(n + 1)
           /\ WriteAt(Upto(n), n + 1, n + 1) = Upto(n + 1)
<1>1. Upto(n) \in Seq(Nat) /\ Len(Upto(n)) = n
      BY DEF Upto
<1>2. Upto(n + 1) \in Seq(Nat) /\ Len(Upto(n + 1)) = n + 1
      BY DEF Upto
<1>3. Append(Upto(n), n + 1) = Upto(n + 1)
  <2>1. Append(Upto(n), n + 1) \in Seq(Nat)
        BY <1>1
  <2>2. Len(Append(Upto(n), n + 1)) = n + 1
        BY <1>1
  <2>3. \A i \in 1 .. n + 1 : Append(Upto(n), n + 1)[i] = Upto(n + 1)[i]
        BY <1>1 DEF Upto
  <2> QED BY <1>2, <2>1, <2>2, <2>3, SeqEqual
<1>4. WriteAt(Upto(n), n + 1, n + 1) = Upto(n + 1)
  <2>1. WriteAt(Upto(n), n + 1, n + 1) =
           [i \in 1 .. n + 1 |-> IF i = n + 1 THEN n + 1
                                 ELSE IF i <= n THEN Upto(n)[i] ELSE 0]
        BY <1>1 DEF WriteAt
  <2> QED BY <2>1 DEF Upto
<1> QED BY <1>1, <1>3, <1>4

LEMMA SeqOf ==
    ASSUME NEW S, NEW n \in Nat, NEW g \in [1 .. n -> S]
    PROVE  g \in Seq(S)
OBVIOUS

(* What a write leaves is a sequence of chunks or holes.                   *)
LEMMA WriteType ==
    ASSUME NEW s \in Seq(0 .. NChunks), NEW p \in Nat \ {0}, NEW v \in 0 .. NChunks
    PROVE  WriteAt(s, p, v) \in Seq(0 .. NChunks)
<1> DEFINE n == IF p > Len(s) THEN p ELSE Len(s)
<1>1. n \in Nat
      OBVIOUS
<1>2. \A i \in 1 .. n : (IF i = p THEN v ELSE IF i <= Len(s) THEN s[i] ELSE 0) \in 0 .. NChunks
      BY SizesAssumption
<1>3. WriteAt(s, p, v) \in [1 .. n -> 0 .. NChunks]
      BY <1>2 DEF WriteAt
<1> HIDE DEF n
<1> QED BY <1>1, <1>3, SeqOf

LEMMA Sizes == NFiles \in Nat \ {0} /\ NChunks \in Nat \ {0} /\ MaxTasks \in Nat /\ MaxCrashes \in Nat
BY SizesAssumption

LEMMA NoTaskType ==
    NoTask \in Task /\ NoTask.pc = "none" /\ NoTask.last = "none" /\ NoTask.file = 1
BY Sizes DEF NoTask, Task, TaskPCs, Statuses, None

LEMMA InitIInv == Init => IInv
<1> SUFFICES ASSUME Init PROVE Inv BY DEF IInv
<1>1. NoTask \in Task
      BY NoTaskType
<1>2. TypeOK
      BY <1>1, Sizes DEF Init, TypeOK, NoCall, None
<1>3. Listing /\ Spent
      BY <1>1, Sizes DEF Init, Listing, Spent, Alive, Fetching, NoTask, NoCall, None, Tasks
<1>4. Content
      BY <1>1, Sizes DEF Init, Content, Apart, Beginnings, Wholes, InPlace, NoTask, None, Files
<1> QED BY <1>2, <1>3, <1>4 DEF Inv

(* A goroutine that stops fetching, with nothing else changed.             *)
LEMMA EndStep ==
    ASSUME Inv, NEW t \in Tasks, Fetching(t),
           NEW status \in {"complete", "failed", "cancelled"}, EndWith(t, status),
           status = "complete" => dl[t].file = NFiles + 1,
           UNCHANGED <<entry, sweep, started, call, fVars, crashes, ops>>
    PROVE  Inv'
<1> USE DEF Inv, fVars
<1>1. Ended(t, status) \in Task
  <2>1. dl[t] \in Task BY DEF TypeOK
  <2>2. status \in Statuses BY DEF Statuses
  <2>3. (IF status = "complete" THEN "register" ELSE "end") \in TaskPCs BY DEF TaskPCs
  <2> QED BY <2>1, <2>2, <2>3 DEF Ended, Task
<1>2. dl' = [dl EXCEPT ![t] = Ended(t, status)]
      BY DEF EndWith
<1>3. /\ dl'[t].pc \in {"register", "end"} /\ dl'[t].last = status
      /\ dl'[t].file = dl[t].file
      /\ \A u \in Tasks : u # t => dl'[u] = dl[u]
      BY <1>2 DEF TypeOK, Ended, Task
<1>4. TypeOK'
      BY <1>1, <1>2 DEF TypeOK
<1>5. Listing'
      BY <1>3 DEF Listing, Alive, Fetching, Downloading
<1>6. Spent'
      BY <1>3 DEF Spent, Fetching
<1>7. Content => Content'
  <2>1. Apart' <=> Apart BY DEF Apart
  <2>2. Wholes' <=> Wholes BY DEF Wholes, Whole
  <2>3. ASSUME Beginnings PROVE Beginnings'
    <3>1. /\ UNCHANGED <<part, inode>>
          /\ \A u \in Tasks : dl'[u].pc \in {"get", "body"} => dl'[u] = dl[u]
      BY <1>3
    <3>2. \A f \in Files : part'[f] # None => \E n \in 0 .. NChunks : inode'[part'[f]] = Upto(n)
      BY <2>3, <3>1 DEF Beginnings
    <3>3. \A u \in Tasks : dl'[u].pc = "get" =>
             IF part'[dl'[u].file] = None THEN dl'[u].had = 0 ELSE inode'[part'[dl'[u].file]] = Upto(dl'[u].had)
      BY <2>3, <3>1 DEF Beginnings
    <3>4. \A u \in Tasks : dl'[u].pc = "body" =>
             /\ dl'[u].fd = part'[dl'[u].file] /\ inode'[dl'[u].fd] = Upto(dl'[u].pos)
             /\ dl'[u].next = dl'[u].pos + 1 /\ dl'[u].pos <= NChunks
      BY <2>3, <3>1 DEF Beginnings
    <3> QED BY <3>2, <3>3, <3>4 DEF Beginnings, Upto
  <2>4. InPlace => InPlace' BY <1>3 DEF InPlace
  <2> QED BY <2>1, <2>2, <2>3, <2>4 DEF Content
<1> QED BY <1>4, <1>5, <1>6, <1>7

(* The steps of a goroutine that touch no file.                            *)
LEMMA QuietStep ==
    ASSUME Inv, NEW t \in Tasks,
           Begin(t) \/ Completed(t) \/ Stopped(t) \/ NextFile(t) \/ Refused(t)
           \/ Interrupted(t) \/ Dropped(t) \/ Registered(t) \/ End(t) \/ Sweep(t),
           UNCHANGED ops
    PROVE  Inv'
<1>t. dl[t] \in Task BY DEF Inv, TypeOK
<1>1. CASE Begin(t) /\ dl[t].cancelled
      BY <1>1, EndStep DEF Begin, Fetching
<1>2. CASE Completed(t)
  <2>1. dl[t].file = NFiles + 1
        BY <1>2, <1>t, Sizes DEF Completed, AllFiles, Task
  <2> QED BY <1>2, <2>1, EndStep DEF Completed, Fetching
<1>3. CASE Stopped(t) BY <1>3, EndStep DEF Stopped, Fetching
<1>4. CASE Refused(t) BY <1>4, EndStep DEF Refused, Fetching
<1>5. CASE Interrupted(t) BY <1>5, EndStep DEF Interrupted, Fetching
<1>6. CASE Dropped(t) BY <1>6, EndStep DEF Dropped, Fetching
<1>7. CASE \/ Begin(t) /\ ~dl[t].cancelled
           \/ Registered(t) \/ End(t)
  <2>1. PICK p \in {"file", "end", "gone"} :
           /\ dl' = [dl EXCEPT ![t].pc = p]
           /\ p = "file" <=> dl[t].pc = "begin"
           /\ p = "file" \/ dl[t].pc \in {"register", "end"}
           /\ sweep' = IF p = "gone" THEN sweep \cup {t} ELSE sweep
        BY <1>7 DEF Begin, Registered, End
  <2>2. UNCHANGED <<entry, started, call, fVars, crashes>>
        BY <1>7 DEF Begin, Registered, End
  <2>3. /\ dl'[t] = [dl[t] EXCEPT !.pc = p] /\ dl'[t].pc = p
        /\ dl'[t].last = dl[t].last /\ dl'[t].file = dl[t].file
        /\ \A u \in Tasks : u # t => dl'[u] = dl[u]
        BY <2>1, <1>t DEF Inv, TypeOK, Task
  <2>4. TypeOK'
    <3>1. dl'[t] \in Task BY <2>3, <1>t DEF Task, TaskPCs
    <3> QED BY <3>1, <2>1, <2>2 DEF Inv, TypeOK, fVars
  <2>5. Listing'
        BY <2>1, <2>2, <2>3 DEF Inv, Listing, Alive, Fetching, Downloading
  <2>6. Spent'
        BY <2>1, <2>2, <2>3 DEF Inv, Spent, Fetching, fVars
  <2>7. Content => Content'
        BY <2>1, <2>2, <2>3 DEF Content, Apart, Beginnings, Wholes, InPlace, fVars, Whole, Upto
  <2> QED BY <2>4, <2>5, <2>6, <2>7 DEF Inv
<1>8. CASE NextFile(t) /\ final[dl[t].file] # None
  <2>1. /\ dl[t].pc = "file" /\ dl[t].file \in Files
        /\ dl' = [dl EXCEPT ![t].file = dl[t].file + 1]
        /\ UNCHANGED <<entry, sweep, started, call, fVars, crashes>>
        BY <1>8 DEF NextFile, Inv, TypeOK
  <2>3. /\ dl'[t] = [dl[t] EXCEPT !.file = dl[t].file + 1] /\ dl'[t].pc = "file"
        /\ dl'[t].last = dl[t].last /\ dl'[t].file = dl[t].file + 1
        /\ \A u \in Tasks : u # t => dl'[u] = dl[u]
        BY <2>1, <1>t DEF Inv, TypeOK, Task
  <2>4. TypeOK'
    <3>1. dl'[t] \in Task BY <2>1, <2>3, <1>t, Sizes DEF Task, Files
    <3> QED BY <3>1, <2>1 DEF Inv, TypeOK, fVars
  <2>5. Listing'
        BY <2>1, <2>3 DEF Inv, Listing, Alive, Fetching, Downloading
  <2>6. Spent'
    <3>1. (started - 1) * NFiles \in Int /\ made \in Nat
          BY Sizes DEF Inv, TypeOK
    <3> QED BY <2>1, <2>3, <3>1, Sizes DEF Inv, Spent, Fetching, fVars, Files
  <2>7. Content => Content'
    <3>1. Downloading(t) BY <2>1 DEF Inv, Listing, Fetching
    <3>2. \A f \in Files : f < dl[t].file + 1 => f < dl[t].file \/ f = dl[t].file
          BY <2>1 DEF Files
    <3> QED BY <1>8, <2>1, <2>3, <3>1, <3>2
            DEF Content, Apart, Beginnings, Wholes, InPlace, fVars, Whole, Upto, Downloading
  <2> QED BY <2>4, <2>5, <2>6, <2>7 DEF Inv
<1>9. CASE NextFile(t) /\ final[dl[t].file] = None
  <2> DEFINE f == dl[t].file
             h == IF part[f] = None THEN 0 ELSE Len(inode[part[f]])
  <2>1. /\ dl[t].pc = "file" /\ f \in Files
        /\ dl' = [dl EXCEPT ![t] = [@ EXCEPT !.pc = "get", !.had = h]]
        /\ UNCHANGED <<entry, sweep, started, call, fVars, crashes>>
        BY <1>9 DEF NextFile
  <2>2. h \in Nat
        BY <2>1 DEF Inv, TypeOK
  <2> HIDE DEF h
  <2>3. /\ dl'[t] = [dl[t] EXCEPT !.pc = "get", !.had = h] /\ dl'[t].pc = "get"
        /\ dl'[t].last = dl[t].last /\ dl'[t].file = dl[t].file /\ dl'[t].had = h
        /\ \A u \in Tasks : u # t => dl'[u] = dl[u]
        BY <2>1, <1>t DEF Inv, TypeOK, Task
  <2>4. TypeOK'
    <3>1. dl'[t] \in Task BY <2>2, <2>3, <1>t DEF Task, TaskPCs
    <3> QED BY <3>1, <2>1 DEF Inv, TypeOK, fVars
  <2>5. Listing'
        BY <2>1, <2>3 DEF Inv, Listing, Alive, Fetching, Downloading
  <2>6. Spent'
        BY <2>1, <2>3 DEF Inv, Spent, Fetching, fVars
  <2>7. Content => Content'
    <3>1. ASSUME Content, part[f] # None PROVE inode[part[f]] = Upto(h)
      <4>1. PICK n \in 0 .. NChunks : inode[part[f]] = Upto(n)
            BY <2>1, <3>1 DEF Content, Beginnings
      <4> QED BY <3>1, <4>1, UptoFacts, Sizes DEF h
    <3>2. part[f] = None => h = 0 BY DEF h
    <3>3. Apart => Apart' BY <2>1 DEF Apart, fVars
    <3>4. Wholes => Wholes' BY <2>1 DEF Wholes, Whole, fVars
    <3>5. InPlace => InPlace' BY <2>1, <2>3 DEF InPlace, fVars
    <3>6. ASSUME Content PROVE Beginnings'
      <4>1. UNCHANGED <<inode, part>> BY <2>1 DEF fVars
      <4>2. \A g \in Files : part'[g] # None =>
               \E n \in 0 .. NChunks : inode'[part'[g]] = Upto(n)
            BY <4>1, <3>6 DEF Content, Beginnings
      <4>3. LET p == part'[dl'[t].file]
            IN  IF p = None THEN dl'[t].had = 0 ELSE inode'[p] = Upto(dl'[t].had)
            BY <2>3, <3>1, <3>2, <3>6, <4>1
      <4>4. \A u \in Tasks : u # t => dl'[u].pc \notin {"get", "body"}
            BY <2>1, <2>3 DEF Inv, Listing, Alive
      <4> QED BY <2>3, <4>2, <4>3, <4>4 DEF Beginnings, Upto
    <3> QED BY <3>3, <3>4, <3>5, <3>6 DEF Content
  <2> QED BY <2>4, <2>5, <2>6, <2>7 DEF Inv
<1>10. CASE Sweep(t)
  <2>1. /\ t \in sweep /\ sweep' = sweep \ {t} /\ entry' = None
        /\ UNCHANGED <<dl, started, call, fVars, crashes, ops>>
        BY <1>10 DEF Sweep
  <2>2. TypeOK' BY <2>1 DEF Inv, TypeOK, fVars
  <2>3. Listing' BY <2>1 DEF Inv, Listing, Alive, Fetching, Downloading
  <2>4. Spent' BY <2>1 DEF Inv, Spent, Fetching, fVars
  <2>5. Content => Content'
        BY <2>1 DEF Content, Apart, Beginnings, Wholes, InPlace, fVars, Whole, Upto
  <2> QED BY <2>1, <2>2, <2>3, <2>4, <2>5 DEF Inv
<1> QED BY <1>1, <1>2, <1>3, <1>4, <1>5, <1>6, <1>7, <1>8, <1>9, <1>10 DEF Begin, NextFile

(* There is an inode left for the one that a reply needs.                  *)
LEMMA InodeLeft ==
    ASSUME Inv, NEW t \in Tasks, dl[t].pc = "get"
    PROVE  made + 1 <= (started - 1) * NFiles + dl[t].file /\ made + 1 \in Inodes
           /\ made + 1 <= started * NFiles
<1>1. /\ made \in Nat /\ started \in 1 .. MaxTasks /\ dl[t].file \in 1 .. NFiles
  <2>1. entry = t BY DEF Inv, Listing, Alive
  <2>2. t \in 1 .. MaxTasks BY DEF Tasks
  <2>3. entry = started BY <2>1, <2>2 DEF Inv, Listing, None
  <2>4. made \in Nat BY DEF Inv, TypeOK
  <2>5. dl[t].file \in 1 .. NFiles BY DEF Inv, Spent, Files
  <2> QED BY <2>1, <2>2, <2>3, <2>4, <2>5
<1>2. (started - 1) * NFiles + NFiles = started * NFiles
      BY <1>1, Sizes
<1>3. started * NFiles <= MaxTasks * NFiles
      BY <1>1, Sizes
<1>5. /\ (started - 1) * NFiles \in Int /\ started * NFiles \in Int
      /\ MaxTasks * NFiles \in Int
      BY <1>1, Sizes
<1>4. made + 1 <= (started - 1) * NFiles + dl[t].file
  <2>1. made + 1 <= (started - 1) * NFiles + dl[t].file + 0
        BY DEF Inv, Spent, Fetching
  <2> HIDE DEF Inv
  <2> QED BY <1>1, <1>5, <2>1
<1> HIDE DEF Inv
<1>6. made + 1 <= started * NFiles
      BY <1>1, <1>2, <1>4, <1>5, Sizes
<1>7. made + 1 <= MaxTasks * NFiles
      BY <1>1, <1>3, <1>5, <1>6
<1> QED BY <1>1, <1>4, <1>5, <1>6, <1>7 DEF Inodes

(* A reply opens the .part: the one there is, or a new one.                *)
LEMMA RespondStep ==
    ASSUME Inv, NEW t \in Tasks, NEW reply \in {"206", "200range", "200"},
           Respond(t, reply), UNCHANGED ops
    PROVE  Inv'
<1> DEFINE f == dl[t].file
           keep == IF responseIsPartial(reply) THEN dl[t].had ELSE 0
           i == IF part[f] = None THEN made + 1 ELSE part[f]
           nxt == IF reply = "200" THEN 1 ELSE dl[t].had + 1
<1>t. dl[t] \in Task BY DEF Inv, TypeOK
<1>1. /\ dl[t].pc = "get"
      /\ MayReply(reply, dl[t].had)
      /\ part' = [part EXCEPT ![f] = i]
      /\ made' = IF part[f] = None THEN made + 1 ELSE made
      /\ inode' = [inode EXCEPT ![i] = IF keep > 0 THEN inode[i] ELSE <<>>]
      /\ dl' = [dl EXCEPT ![t] = [dl[t] EXCEPT !.pc = "body", !.fd = i, !.pos = keep,
                                              !.had = keep, !.next = nxt]]
      /\ UNCHANGED <<entry, sweep, started, call, final, crashes>>
      BY <1>t, Zenon DEF Respond, Inv, TypeOK
<1>2. f \in Files BY <1>1 DEF Inv, Spent
<1>3. made \in Nat /\ made + 1 \in Inodes /\ made + 1 <= started * NFiles
      BY <1>1, InodeLeft DEF Inv, TypeOK
<1>4. i \in Inodes
      BY <1>2, <1>3 DEF Inv, TypeOK
<1>5. keep \in Nat /\ nxt \in Nat
      BY <1>t DEF Task
<1>6. reply = "200" => keep = 0 /\ nxt = 1
      BY DEF responseIsPartial
<1>7. reply # "200" => keep = dl[t].had /\ nxt = keep + 1 /\ keep > 0
      BY <1>1, <1>t DEF responseIsPartial, MayReply, Task
<1> HIDE DEF i, keep, nxt
<1>8. /\ dl'[t] = [dl[t] EXCEPT !.pc = "body", !.fd = i, !.pos = keep,
                              !.had = keep, !.next = nxt]
      /\ dl'[t].pc = "body" /\ dl'[t].last = dl[t].last /\ dl'[t].file = f
      /\ dl'[t].fd = i /\ dl'[t].pos = keep /\ dl'[t].next = nxt
      /\ \A u \in Tasks : u # t => dl'[u] = dl[u]
      BY <1>1, <1>t DEF Inv, TypeOK, Task
<1>9. TypeOK'
  <2>1. dl'[t] \in Task BY <1>4, <1>5, <1>8, <1>t DEF Task, TaskPCs
  <2>2. dl' \in [Tasks -> Task] BY <1>1, <2>1, <1>8 DEF Inv, TypeOK
  <2>3. inode' \in [Inodes -> Seq(0 .. NChunks)]
    <3>1. <<>> \in Seq(0 .. NChunks) BY EmptySeq
    <3>2. inode[i] \in Seq(0 .. NChunks) BY <1>4 DEF Inv, TypeOK
    <3> QED BY <1>1, <3>1, <3>2 DEF Inv, TypeOK
  <2>4. made' \in 0 .. MaxTasks * NFiles
    <3>1. made \in 0 .. MaxTasks * NFiles BY DEF Inv, TypeOK
    <3>2. made + 1 \in 0 .. MaxTasks * NFiles BY <1>3 DEF Inodes
    <3> QED BY <1>1, <3>1, <3>2
  <2>5. part' \in [Files -> Inodes \cup {None}] BY <1>1, <1>4 DEF Inv, TypeOK
  <2> QED BY <1>1, <2>2, <2>3, <2>4, <2>5 DEF Inv, TypeOK
<1>10. Listing'
      BY <1>1, <1>8 DEF Inv, Listing, Alive, Fetching, Downloading
<1>11. Spent'
  <2>1. made' <= made + 1 /\ made' <= started * NFiles
        BY <1>1, <1>3 DEF Inv, Spent
  <2>2. \A u \in Tasks : u # t => ~Fetching(u)'
        BY <1>8, <1>1 DEF Inv, Listing, Alive, Fetching
  <2>3. \A u \in Tasks : u # t => dl'[u].pc \notin {"begin", "get", "body"}
        BY <2>2 DEF Fetching
  <2>4. made' + 1 <= (started - 1) * NFiles + f + 1
    <3>1. made + 1 <= (started - 1) * NFiles + f
          BY <1>1, InodeLeft
    <3>2. (started - 1) * NFiles \in Int /\ f \in Nat /\ made' \in Nat
          BY <1>1, <1>2, <1>3, Sizes, SMTT(30) DEF Inv, TypeOK, Files
    <3> HIDE DEF f
    <3> QED BY <1>3, <2>1, <3>1, <3>2
  <2> QED BY <1>1, <1>2, <1>4, <1>8, <2>1, <2>2, <2>3, <2>4 DEF Spent
<1>12. ASSUME Content PROVE Content'
  <2>1. \A g \in Files : g # f => part[g] # i /\ final[g] # i
    <3>1. \A g \in Files : part[g] <= made /\ final[g] <= made
          BY <1>12 DEF Content, Apart
    <3>2. CASE part[f] = None
      <4>1. i = made + 1 BY <3>2 DEF i
      <4>2. \A g \in Files : part[g] # made + 1 /\ final[g] # made + 1
            BY <3>1, <1>3 DEF Inv, TypeOK, Inodes, None
      <4> QED BY <4>1, <4>2
    <3>3. CASE part[f] # None
          BY <3>3, <1>2, <1>12 DEF Content, Apart, i
    <3> QED BY <3>2, <3>3
  <2>2. final[f] # i
    <3>1. CASE part[f] = None
      <4>1. i = made + 1 BY <3>1 DEF i
      <4> QED BY <4>1, <1>2, <1>3, <1>12 DEF Content, Apart, Inv, TypeOK, Inodes, None
    <3>2. CASE part[f] # None
          BY <3>2, <1>2, <1>12 DEF Content, Apart, i
    <3> QED BY <3>1, <3>2
  <2>3. part'[f] = i /\ \A g \in Files : g # f => part'[g] = part[g]
        BY <1>1, <1>2 DEF Inv, TypeOK
  <2>4. inode'[i] = Upto(keep) /\ keep <= NChunks /\ nxt = keep + 1
    <3>1. CASE reply = "200"
      <4>1. keep = 0 /\ nxt = 1 BY <3>1, <1>6
      <4>2. inode'[i] = <<>> BY <1>1, <1>4, <4>1 DEF Inv, TypeOK
      <4>3. Upto(0) = <<>> BY DEF Upto
      <4> QED BY <4>1, <4>2, <4>3, Sizes
    <3>2. CASE reply # "200"
      <4>1. keep = dl[t].had /\ nxt = keep + 1 /\ keep > 0 BY <3>2, <1>7
      <4>2. part[f] # None /\ inode[part[f]] = Upto(dl[t].had)
            BY <4>1, <1>1, <1>12 DEF Content, Beginnings
      <4>3. inode'[i] = inode[i] /\ i = part[f]
            BY <1>1, <1>4, <4>1, <4>2 DEF Inv, TypeOK, i
      <4>4. keep < NChunks
            BY <1>1, <3>2, <4>1 DEF MayReply
      <4> QED BY <4>1, <4>2, <4>3, <4>4, <1>5, Sizes
    <3> QED BY <3>1, <3>2
  <2>5. \A j : j # i => inode'[j] = inode[j]
        BY <1>1, <1>4 DEF Inv, TypeOK
  <2>6. Apart'
    <3>1. \A g \in Files : part'[g] <= made' /\ final'[g] <= made'
      <4>1. made <= made' /\ i <= made'
            BY <1>1, <1>2, <1>3, <1>12 DEF i, Content, Apart
      <4>2. \A g \in Files : part[g] \in Nat /\ final[g] \in Nat
            BY DEF Inv, TypeOK, Inodes, None
      <4>3. made' \in Nat BY <1>1, <1>3
      <4> QED BY <1>1, <1>3, <2>3, <4>1, <4>2, <4>3, <1>12 DEF Content, Apart
    <3> QED BY <1>1, <2>1, <2>2, <2>3, <3>1, <1>12 DEF Content, Apart
  <2>7. Beginnings'
    <3>1. \A g \in Files : part'[g] # None =>
             \E n \in 0 .. NChunks : inode'[part'[g]] = Upto(n)
      <4>1. keep \in 0 .. NChunks BY <1>5, <2>4, Sizes
      <4> QED BY <2>1, <2>3, <2>4, <2>5, <4>1, <1>12 DEF Content, Beginnings
    <3>2. \A u \in Tasks : u # t => dl'[u].pc \notin {"get", "body"}
          BY <1>8, <1>1 DEF Inv, Listing, Alive
    <3> QED BY <1>8, <2>3, <2>4, <3>1, <3>2, ZenonT(60) DEF Beginnings, Upto
  <2>8. Wholes'
        BY <1>1, <2>1, <2>2, <2>5, <1>12 DEF Content, Wholes, Whole
  <2>9. InPlace'
        BY <1>1, <1>8, <1>12 DEF Content, InPlace
  <2> QED BY <2>6, <2>7, <2>8, <2>9 DEF Content
<1> QED BY <1>9, <1>10, <1>11, <1>12 DEF Inv

(* A read and a write: the beginning grows by one chunk.                   *)
LEMMA ChunkStep ==
    ASSUME Inv, NEW t \in Tasks, Chunk(t), UNCHANGED ops
    PROVE  Inv'
<1> DEFINE i == dl[t].fd
           wrote == IF dl[t].had > 0 THEN Append(inode[i], dl[t].next)
                    ELSE WriteAt(inode[i], dl[t].pos + 1, dl[t].next)
<1>t. dl[t] \in Task BY DEF Inv, TypeOK
<1>1. /\ dl[t].pc = "body" /\ dl[t].next <= NChunks
      /\ inode' = [inode EXCEPT ![i] = wrote]
      /\ dl' = [dl EXCEPT ![t] = [dl[t] EXCEPT !.pos = dl[t].pos + 1,
                                              !.next = dl[t].next + 1]]
      /\ UNCHANGED <<entry, sweep, started, call, made, part, final, crashes>>
      BY <1>t DEF Chunk, Inv, TypeOK
<1>2. i \in Inodes BY <1>1 DEF Inv, Spent
<1>3. wrote \in Seq(0 .. NChunks)
  <2>1. inode[i] \in Seq(0 .. NChunks) BY <1>2 DEF Inv, TypeOK
  <2>2. dl[t].next \in 0 .. NChunks BY <1>1, <1>t, Sizes DEF Task
  <2>3. dl[t].pos + 1 \in Nat \ {0} BY <1>t DEF Task
  <2>4. Append(inode[i], dl[t].next) \in Seq(0 .. NChunks) BY <2>1, <2>2
  <2> QED BY <2>1, <2>2, <2>3, <2>4, WriteType
<1>4. Content => wrote = Upto(dl[t].pos + 1) /\ dl[t].pos + 1 <= NChunks
  <2> SUFFICES ASSUME Content PROVE wrote = Upto(dl[t].pos + 1) /\ dl[t].pos + 1 <= NChunks
      OBVIOUS
  <2>1. /\ inode[i] = Upto(dl[t].pos) /\ dl[t].next = dl[t].pos + 1
        BY <1>1 DEF Content, Beginnings
  <2>2. dl[t].pos \in Nat BY <1>t DEF Task
  <2> QED BY <1>1, <2>1, <2>2, UptoFacts
<1> HIDE DEF wrote
<1>5. /\ dl'[t] = [dl[t] EXCEPT !.pos = dl[t].pos + 1, !.next = dl[t].next + 1]
      /\ dl'[t].pc = "body" /\ dl'[t].last = dl[t].last /\ dl'[t].file = dl[t].file
      /\ dl'[t].fd = i /\ dl'[t].pos = dl[t].pos + 1 /\ dl'[t].next = dl[t].next + 1
      /\ \A u \in Tasks : u # t => dl'[u] = dl[u]
      BY <1>1, <1>t DEF Inv, TypeOK, Task
<1>6. inode'[i] = wrote /\ \A j : j # i => inode'[j] = inode[j]
      BY <1>1, <1>2 DEF Inv, TypeOK
<1>7. TypeOK'
  <2>1. dl'[t] \in Task
    <3>1. dl[t].pos + 1 \in Nat /\ dl[t].next + 1 \in Nat BY <1>t DEF Task
    <3>2. dl'[t] = [dl[t] EXCEPT !.pos = dl[t].pos + 1, !.next = dl[t].next + 1] BY <1>5
    <3> QED BY <1>t, <3>1, <3>2 DEF Task
  <2> QED BY <1>1, <1>3, <2>1 DEF Inv, TypeOK
<1>8. Listing'
      BY <1>1, <1>5 DEF Inv, Listing, Alive, Fetching, Downloading
<1>9. Spent'
      BY <1>1, <1>2, <1>5 DEF Inv, Spent, Fetching
<1>10. ASSUME Content PROVE Content'
  <2>1. i = part[dl[t].file] /\ dl[t].file \in Files
        BY <1>1, <1>10 DEF Content, Beginnings, Inv, Spent
  <2>2. i # None BY <1>2, Sizes DEF Inodes, None
  <2>3. \A g \in Files : final[g] # i /\ (g # dl[t].file => part[g] # i)
        BY <2>1, <2>2, <1>10 DEF Content, Apart
  <2>4. Apart' BY <1>1, <1>10 DEF Content, Apart
  <2>5. Wholes' BY <1>1, <1>6, <2>3, <1>10 DEF Content, Wholes, Whole
  <2>6. InPlace' BY <1>1, <1>5, <1>10 DEF Content, InPlace
  <2>7. \A g \in Files : part'[g] # None =>
           \E n \in 0 .. NChunks : inode'[part'[g]] = Upto(n)
    <3>1. dl[t].pos + 1 \in 0 .. NChunks BY <1>4, <1>10, <1>t, Sizes DEF Task
    <3> QED BY <1>1, <1>4, <1>6, <2>1, <2>3, <3>1, <1>10 DEF Content, Beginnings
  <2>8. \A u \in Tasks : u # t => dl'[u].pc \notin {"get", "body"}
        BY <1>1, <1>5 DEF Inv, Listing, Alive
  <2>9. /\ dl'[t].fd = part'[dl'[t].file]
        /\ inode'[dl'[t].fd] = Upto(dl'[t].pos)
        /\ dl'[t].next = dl'[t].pos + 1 /\ dl'[t].pos <= NChunks
        BY <1>1, <1>4, <1>5, <1>6, <2>1, <1>10 DEF Content, Beginnings
  <2>10. Beginnings' BY <1>5, <2>7, <2>8, <2>9 DEF Beginnings, Upto
  <2> QED BY <2>4, <2>5, <2>6, <2>10 DEF Content
<1> QED BY <1>7, <1>8, <1>9, <1>10 DEF Inv

(* What is renamed at the end of a shard is the whole shard.               *)
LEMMA RenameStep ==
    ASSUME Inv, NEW t \in Tasks, Rename(t), UNCHANGED ops
    PROVE  Inv'
<1> DEFINE f == dl[t].file
<1>t. dl[t] \in Task BY DEF Inv, TypeOK
<1>0. dl[t].pc = "body" /\ dl[t].next > NChunks /\ f \in Files
      BY DEF Rename, EOF, Inv, Spent
<1>1. CASE part[f] = None
      BY <1>0, <1>1, EndStep DEF Rename, Fetching, fVars
<1>2. CASE part[f] # None
  <2>1. /\ final' = [final EXCEPT ![f] = part[f]]
        /\ part' = [part EXCEPT ![f] = None]
        /\ dl' = [dl EXCEPT ![t] = [dl[t] EXCEPT !.pc = "file", !.file = f + 1, !.fd = None]]
        /\ UNCHANGED <<entry, sweep, started, call, inode, made, crashes>>
        BY <1>2, <1>t DEF Rename, Inv, TypeOK
  <2>2. /\ dl'[t] = [dl[t] EXCEPT !.pc = "file", !.file = f + 1, !.fd = None]
        /\ dl'[t].pc = "file" /\ dl'[t].last = dl[t].last /\ dl'[t].file = f + 1
        /\ \A u \in Tasks : u # t => dl'[u] = dl[u]
        BY <2>1, <1>t DEF Inv, TypeOK, Task
  <2>3. TypeOK'
    <3>1. dl'[t] \in Task
      <4>1. f + 1 \in 1 .. NFiles + 1 BY <1>0, Sizes DEF Files
      <4>2. dl'[t] = [dl[t] EXCEPT !.pc = "file", !.file = f + 1, !.fd = None] BY <2>2
      <4> HIDE DEF f
      <4> QED BY <1>t, <4>1, <4>2 DEF Task, TaskPCs
    <3>2. part[f] \in Inodes BY <1>0, <1>2 DEF Inv, TypeOK
    <3> QED BY <1>0, <2>1, <3>1, <3>2 DEF Inv, TypeOK
  <2>4. Listing'
        BY <1>0, <2>1, <2>2 DEF Inv, Listing, Alive, Fetching, Downloading
  <2>5. Spent'
    <3>1. (started - 1) * NFiles \in Int /\ made \in Nat /\ f \in Nat
          BY <1>0, Sizes DEF Inv, TypeOK, Files
    <3>2. made + 1 <= (started - 1) * NFiles + f + 1
          BY <1>0 DEF Inv, Spent, Fetching
    <3>3. made + 1 <= (started - 1) * NFiles + (f + 1) + 0
          BY <3>1, <3>2
    <3> QED BY <1>0, <2>1, <2>2, <3>3 DEF Inv, Spent, Fetching
  <2>6. ASSUME Content PROVE Content'
    <3>1. inode[part[f]] = Whole
      <4>1. /\ inode[part[f]] = Upto(dl[t].pos) /\ dl[t].next = dl[t].pos + 1
            /\ dl[t].pos <= NChunks
            BY <1>0, <2>6 DEF Content, Beginnings
      <4>2. dl[t].pos = NChunks BY <1>0, <4>1, <1>t, Sizes DEF Task
      <4> QED BY <4>1, <4>2 DEF Upto, Whole
    <3>2. /\ final'[f] = part[f] /\ part'[f] = None
          /\ \A g \in Files : g # f => final'[g] = final[g] /\ part'[g] = part[g]
          BY <1>0, <2>1 DEF Inv, TypeOK
    <3>3. Apart'
      <4>1. \A g \in Files : part'[g] <= made' /\ final'[g] <= made'
            BY <1>0, <2>1, <3>2, <2>6 DEF Content, Apart, None, Inv, TypeOK
      <4> QED BY <1>0, <1>2, <2>1, <3>2, <4>1, <2>6 DEF Content, Apart
    <3>4. Wholes' BY <1>0, <2>1, <3>1, <3>2, <2>6 DEF Content, Wholes, Whole
    <3>5. Beginnings'
      <4>1. \A u \in Tasks : dl'[u].pc \notin {"get", "body"}
            BY <1>0, <2>2 DEF Inv, Listing, Alive
      <4>2. \A g \in Files : part'[g] # None =>
               \E n \in 0 .. NChunks : inode'[part'[g]] = Upto(n)
            BY <2>1, <3>2, <2>6 DEF Content, Beginnings
      <4> QED BY <4>1, <4>2 DEF Beginnings, Upto
    <3>6. InPlace'
      <4>1. Downloading(t) BY <1>0 DEF Inv, Listing, Fetching
      <4>2. \A g \in Files : g < f + 1 => g < f \/ g = f
            BY <1>0 DEF Files
      <4>3. \A g \in Files : final[g] # None => final'[g] # None
            BY <1>2, <3>2
      <4>4. final'[f] # None BY <1>2, <3>2
      <4>5. \A g \in Files : g < dl'[t].file => final'[g] # None
            BY <2>2, <4>2, <4>3, <4>4, <2>6 DEF Content, InPlace
      <4>6. dl'[t].last # "complete" BY <2>2, <4>1 DEF Downloading
      <4> HIDE DEF f
      <4> QED BY <2>2, <4>3, <4>5, <4>6, <2>6 DEF Content, InPlace
    <3> QED BY <3>3, <3>4, <3>5, <3>6 DEF Content
  <2> QED BY <2>3, <2>4, <2>5, <2>6 DEF Inv
<1> QED BY <1>1, <1>2

(* Requests: a new goroutine begins when there is no entry, so when none   *)
(* is at work.                                                             *)
LEMMA CallerStep ==
    ASSUME Inv, "early" \notin ops, NEW c \in Callers, CallerNext(c), UNCHANGED ops
    PROVE  Inv'
<1>1. CASE StartNew(c)
  <2> DEFINE n == started + 1
  <2>1. /\ entry = None /\ started < MaxTasks
        /\ started' = n /\ entry' = n
        /\ dl' = [dl EXCEPT ![n] = Seed]
        /\ UNCHANGED <<sweep, call, fVars, crashes>>
        BY <1>1 DEF StartNew, Spawn
  <2>2. n \in Tasks /\ n # None /\ started \in Nat
        BY <2>1, Sizes DEF Inv, TypeOK, Tasks, None
  <2>3. Seed \in Task /\ Seed.pc = "begin" /\ Seed.last = "downloading" /\ Seed.file = 1
    <3>1. "begin" \in TaskPCs /\ "downloading" \in Statuses
          BY DEF TaskPCs, Statuses
    <3> QED BY <3>1, NoTaskType DEF Seed, Task
  <2>4. dl'[n] = Seed /\ \A u \in Tasks : u # n => dl'[u] = dl[u]
        BY <2>1, <2>2 DEF Inv, TypeOK
  <2>5. TypeOK'
        BY <2>1, <2>2, <2>3, Sizes DEF Inv, TypeOK, fVars, Tasks
  <2>6. \A u \in Tasks : ~Alive(u) /\ u \notin sweep
        BY <2>1, Sizes DEF Inv, Listing, Tasks, None
  <2>7. Listing'
        BY <2>1, <2>2, <2>3, <2>4, <2>6
           DEF Inv, TypeOK, Listing, Alive, Fetching, Downloading
  <2>8. Spent'
    <3>1. made <= started * NFiles /\ started * NFiles \in Nat /\ made \in Nat
          BY <2>2, Sizes DEF Inv, TypeOK, Spent
    <3>2. n * NFiles = started * NFiles + NFiles
          BY <2>2, Sizes
    <3>3. made' <= started' * NFiles
          BY <2>1, <3>1, <3>2, Sizes DEF fVars
    <3>4. made' + 1 <= (started' - 1) * NFiles + dl'[n].file + 0
          BY <2>1, <2>2, <2>3, <2>4, <3>1 DEF fVars
    <3>5. \A u \in Tasks : u # n => dl'[u].pc \notin {"begin", "file", "get", "body"}
          BY <2>4, <2>6 DEF Alive
    <3> QED BY <2>2, <2>3, <2>4, <3>3, <3>4, <3>5 DEF Spent, Fetching
  <2>9. ASSUME Content PROVE Content'
    <3>1. UNCHANGED <<inode, made, part, final>> BY <2>1 DEF fVars
    <3>2. Apart' /\ Wholes' BY <3>1, <2>9 DEF Content, Apart, Wholes, Whole
    <3>3. Beginnings' BY <2>3, <2>4, <3>1, <2>9 DEF Content, Beginnings, Upto
    <3>4. InPlace' BY <2>2, <2>3, <2>4, <3>1, <2>9 DEF Content, InPlace, Files
    <3> QED BY <3>2, <3>3, <3>4 DEF Content
  <2> QED BY <2>5, <2>7, <2>8, <2>9 DEF Inv
<1>2. CASE StartEvict(c) \/ StartEvicted(c)
      BY <1>2 DEF StartEvict, StartEvicted, Inv, Listing
<1>3. CASE Cancel(c)
  <2>1. /\ entry # None
        /\ dl' = [dl EXCEPT ![entry].cancelled = TRUE]
        /\ call' = [call EXCEPT ![c] = [pc |-> "join", old |-> entry]]
        /\ UNCHANGED <<entry, sweep, started, fVars, crashes>>
        BY <1>3 DEF Cancel
  <2>2. \A u \in Tasks :
           /\ dl'[u] \in Task
           /\ dl'[u].pc = dl[u].pc /\ dl'[u].last = dl[u].last
           /\ dl'[u].file = dl[u].file /\ dl'[u].had = dl[u].had /\ dl'[u].fd = dl[u].fd
           /\ dl'[u].pos = dl[u].pos /\ dl'[u].next = dl[u].next
        BY <2>1 DEF Inv, TypeOK, Task
  <2>3. TypeOK' BY <2>1, <2>2 DEF Inv, TypeOK, fVars
  <2>4. Listing' BY <2>1, <2>2 DEF Inv, TypeOK, Listing, Alive, Fetching, Downloading
  <2>5. Spent' BY <2>1, <2>2 DEF Inv, Spent, Fetching, fVars
  <2>6. ASSUME Content PROVE Content'
    <3>1. UNCHANGED <<inode, made, part, final>> BY <2>1 DEF fVars
    <3>2. Apart' /\ Wholes' BY <3>1, <2>6 DEF Content, Apart, Wholes, Whole
    <3>3. Beginnings'
      <4>1. \A g \in Files : part'[g] # None =>
               \E n \in 0 .. NChunks : inode'[part'[g]] = Upto(n)
            BY <3>1, <2>6 DEF Content, Beginnings
      <4>2. \A u \in Tasks : dl'[u].pc = "get" =>
               LET p == part'[dl'[u].file]
               IN  IF p = None THEN dl'[u].had = 0 ELSE inode'[p] = Upto(dl'[u].had)
            BY <2>2, <3>1, <2>6 DEF Content, Beginnings
      <4>3. \A u \in Tasks : dl'[u].pc = "body" =>
               /\ dl'[u].fd = part'[dl'[u].file]
               /\ inode'[dl'[u].fd] = Upto(dl'[u].pos)
               /\ dl'[u].next = dl'[u].pos + 1
               /\ dl'[u].pos <= NChunks
            BY <2>2, <3>1, <2>6 DEF Content, Beginnings
      <4> QED BY <4>1, <4>2, <4>3 DEF Beginnings, Upto
    <3>4. InPlace' BY <2>2, <3>1, <2>6 DEF Content, InPlace
    <3> QED BY <3>2, <3>3, <3>4 DEF Content
  <2> QED BY <2>3, <2>4, <2>5, <2>6 DEF Inv
<1>4. CASE CancelReturn(c)
  <2>1. /\ call' = [call EXCEPT ![c] = NoCall]
        /\ UNCHANGED <<dVars, fVars, crashes>>
        BY <1>4 DEF CancelReturn
  <2>2. TypeOK' BY <2>1 DEF Inv, TypeOK, dVars, fVars, NoCall
  <2>3. Listing'
        BY <2>1 DEF Inv, TypeOK, Listing, Alive, Fetching, Downloading, dVars, NoCall
  <2>4. Spent' BY <2>1 DEF Inv, Spent, Fetching, dVars, fVars
  <2>5. Content => Content'
        BY <2>1 DEF Content, Apart, Beginnings, Wholes, InPlace, Whole, Upto, dVars, fVars
  <2> QED BY <2>2, <2>3, <2>4, <2>5 DEF Inv
<1> QED BY <1>1, <1>2, <1>3, <1>4 DEF CallerNext

LEMMA DiscardStep ==
    ASSUME Inv, Discard, UNCHANGED ops
    PROVE  Inv'
<1>1. TypeOK' BY DEF Inv, Discard, TypeOK, dVars
<1>2. Listing'
      BY DEF Inv, Discard, Listing, Alive, Fetching, Downloading, dVars
<1>3. Spent' BY DEF Inv, Discard, Spent, Fetching, dVars
<1> QED BY <1>1, <1>2, <1>3 DEF Inv, Discard

(* What a crash leaves are the files.                                      *)
LEMMA CrashStep ==
    ASSUME Inv, Crash, UNCHANGED ops
    PROVE  Inv'
<1> DEFINE Dead == [NoTask EXCEPT !.pc = "gone"]
<1>1. \A u \in Tasks : dl'[u] \in {Dead, NoTask}
      BY DEF Crash
<1>2. /\ Dead \in Task /\ NoTask \in Task /\ Dead.pc = "gone" /\ NoTask.pc = "none"
      /\ Dead.last = "none" /\ NoTask.last = "none" /\ Dead.file = 1 /\ NoTask.file = 1
  <2>1. "gone" \in TaskPCs BY DEF TaskPCs
  <2> QED BY <2>1, NoTaskType DEF Task
<1> HIDE DEF Dead
<1>3. \A u \in Tasks :
         /\ dl'[u] \in Task /\ dl'[u].pc \in {"none", "gone"}
         /\ dl'[u].last = "none" /\ dl'[u].file = 1
      BY <1>1, <1>2
<1>4. /\ entry' = None /\ sweep' = {} /\ call' = [c \in Callers |-> NoCall]
      /\ crashes < MaxCrashes /\ crashes' = crashes + 1
      /\ UNCHANGED <<started, inode, made, part, final>>
      BY DEF Crash, fVars
<1>5. TypeOK'
  <2>1. dl' \in [Tasks -> Task] BY <1>3 DEF Crash
  <2>2. crashes' \in 0 .. MaxCrashes BY <1>4, Sizes DEF Inv, TypeOK
  <2>3. call' \in [Callers -> [pc : {"idle", "evicted", "join"}, old : Tasks \cup {None}]]
        BY <1>4 DEF NoCall
  <2> QED BY <1>4, <2>1, <2>2, <2>3 DEF Inv, TypeOK
<1>6. Listing' BY <1>3, <1>4 DEF Listing, Alive, Fetching, NoCall
<1>7. Spent' BY <1>3, <1>4 DEF Inv, Spent, Fetching
<1>8. ASSUME Content PROVE Content'
  <2>1. Apart' /\ Wholes' BY <1>4, <1>8 DEF Content, Apart, Wholes, Whole
  <2>2. Beginnings' BY <1>3, <1>4, <1>8 DEF Content, Beginnings, Upto
  <2>3. InPlace'
    <3>1. \A f \in Files : ~(f < 1) BY Sizes DEF Files
    <3> QED BY <1>3, <3>1 DEF InPlace
  <2> QED BY <2>1, <2>2, <2>3 DEF Content
<1> QED BY <1>5, <1>6, <1>7, <1>8 DEF Inv

THEOREM Invariance == Spec => []IInv
<1>1. ASSUME IInv, Next PROVE IInv'
  <2> SUFFICES ASSUME "early" \notin ops PROVE Inv' BY <1>1 DEF IInv, Next
  <2>1. Inv /\ Step /\ UNCHANGED ops BY <1>1 DEF IInv, Next
  <2>2. CASE \E c \in Callers : CallerNext(c) BY <2>1, <2>2, CallerStep
  <2>3. CASE \E t \in Tasks : TaskNext(t)
    <3> PICK t \in Tasks : TaskNext(t) BY <2>3
    <3>1. CASE \E reply \in {"206", "200range", "200"} : Respond(t, reply)
          BY <2>1, <3>1, RespondStep
    <3>2. CASE Chunk(t) BY <2>1, <3>2, ChunkStep
    <3>3. CASE Rename(t) BY <2>1, <3>3, RenameStep
    <3> QED BY <2>1, <3>1, <3>2, <3>3, QuietStep DEF TaskNext
  <2>4. CASE Discard BY <2>1, <2>4, DiscardStep
  <2>5. CASE Crash BY <2>1, <2>5, CrashStep
  <2> QED BY <2>1, <2>2, <2>3, <2>4, <2>5 DEF Step
<1>2. IInv /\ UNCHANGED <<vars, ops>> => IInv'
      BY DEF IInv, Inv, vars, TypeOK, Listing, Alive, Fetching, Downloading, Spent,
             Content, Apart, Beginnings, Wholes, InPlace, Whole, Upto
<1> QED BY InitIInv, <1>1, <1>2, PTL DEF Spec

(* A goroutine that fetches is listed as downloading, unless downloads are *)
(* started again while the entry of their last run is still there.         *)
THEOREM Listed == Spec => []ListedUnlessEarly
<1>1. IInv => ListedUnlessEarly
      BY DEF IInv, Inv, Listing, ListedUnlessEarly, RunningIsListed, Alive, Fetching
<1> QED BY <1>1, Invariance, PTL

(* Under the same condition the state has its type, what is under a final  *)
(* name is the whole shard, and a download reported complete has them all. *)
THEOREM Sound == Spec => []("early" \notin ops => FilesAreSound)
<1>1. IInv => ("early" \notin ops => FilesAreSound)
  <2> SUFFICES ASSUME Inv PROVE FilesAreSound BY DEF IInv
  <2>1. TypeOK BY DEF Inv
  <2>2. FinalIsWhole BY DEF Inv, FinalIsWhole, Content, Wholes
  <2>3. CompleteIsOnDisk
        BY Sizes DEF Inv, CompleteIsOnDisk, Content, InPlace, Files
  <2> QED BY <2>1, <2>2, <2>3 DEF FilesAreSound
<1> QED BY <1>1, Invariance, PTL
=============================================================================
