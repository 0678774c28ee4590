------------------------------ MODULE Builder ------------------------------
(***************************************************************************)
(* Builds of llama.cpp (internal/builder/builder.go, external.go,          *)
(* flag_presets.go, and their handlers in internal/api/build*.go).         *)
(*                                                                         *)
(* A request fetches and checks out in its own handler, in the one clone   *)
(* all builds share, then registers an entry and leaves the rest to a      *)
(* goroutine that works in a directory all builds of its profile share.    *)
(* The lock covers single steps of it.  Nothing is saved until a build     *)
(* ends.  A binary is what went into it: the refs the clone was at while   *)
(* it was compiled, and the flags it was configured with.                  *)
(***************************************************************************)
EXTENDS Toolchain

CONSTANTS
    Refs,       \* what can be checked out
    Latest,     \* what "latest" resolves to: the newest b-tag, else v-tag, else HEAD
    CommitCount,\* [Refs -> Nat], 0 when counting failed
    TagNumber,  \* [Refs -> Nat], the N of a bN tag, 0 for any other ref
    Machines,
    Requests,   \* [prof, ref, tag, toggles, extra]: what the form or a JSON body sends
    Externals,  \* ids of registered builds of another tool
    Slots,      \* build requests in flight at once
    Pages,      \* pages that follow a build's log
    Names,      \* names of saved flag sets
    Scenarios,  \* sets of what a behaviour may do
    MaxOps      \* bound: requests, deletions, registrations and crashes

ASSUME OpsAssumption == MaxOps \in Nat
\* What a request may check out.  Registered builds are named apart from the
\* builds made here: the code leaves that to whoever names them.
ASSUME RefsAssumption ==
    /\ Latest \in Refs /\ "external" \notin Refs
    /\ \A r \in Requests :
         /\ r = [prof |-> r.prof, ref |-> r.ref, tag |-> r.tag, toggles |-> r.toggles, extra |-> r.extra]
         /\ r.ref \in Refs \union {"latest"}

VARIABLES
    sc, ops, m, \* the scenario, operations so far, the machine (no step changes sc and m)
    builds,     \* b.builds: id -> entry
    file,       \* builds.json
    tree,       \* the ref the shared clone is at
    objs,       \* [profile -> build directory]
    out,        \* builds/<id>: id -> binary
    slot,       \* [Slots -> a request and its goroutine]
    stream,     \* logBcasts: id -> the build (by the number of its request) it is of
    page,       \* [Pages -> the stream it follows]
    sets,       \* flagPresets: name -> saved flag set
    asked,      \* ids whose "already exists. Rebuild it?" is on a page, with the request
    cut         \* history: ids whose replacement a crash interrupted

diskVars == <<file, tree, objs, out>>
bVars    == <<builds, diskVars>>
uiVars   == <<stream, page, sets, asked>>
builderVars == <<sc, ops, m, bVars, slot, uiVars, cut>>

Idle    == [pc |-> "idle"]
NoPage  == <<>>
NoBin   == [src |-> {}, flags |-> NoFlags]
Without(f, k) == [x \in DOMAIN f \ {k} |-> f[x]]
Id(ref, prof, tag, hash) == [ref |-> ref, prof |-> prof, tag |-> tag, hash |-> hash]
NoId == Id("", "", "", NoFlags)
ExtId(e) == Id("external", e, "", NoFlags)

InPipeline == {s \in Slots : slot[s].pc # "idle"}
Compiling  == {s \in Slots : slot[s].pc = "compile"}
Built      == {"stream", "configure", "compile", "install", "finish", "close"}
Live(n)    == \E s \in InPipeline : slot[s].n = n

Does(what) == what \in sc /\ ops < MaxOps /\ ops' = ops + 1 /\ UNCHANGED <<sc, m>>
At(s, pc) == slot[s].pc = pc /\ UNCHANGED <<sc, ops, m>>

BuilderInit ==
    /\ sc \in Scenarios /\ ops = 0 /\ m \in Machines
    /\ builds = <<>> /\ file = <<>> /\ tree \in Refs
    /\ objs = [p \in Profiles |-> NoBin] /\ out = <<>>
    /\ slot = [s \in Slots |-> Idle] /\ stream = <<>> /\ page = [p \in Pages |-> NoPage]
    /\ sets = <<>> /\ asked = {} /\ cut = {}

----------------------------------------------------------------------------
\* Build, in the handler.

\* A request that is refused outright changes nothing.
Valid(r) == r.prof \in Profiles /\ ~(r.prof = "vulkan" /\ m.container)

Enter(s, r, force, want) ==
    /\ slot[s] = Idle /\ Valid(r)
    /\ "overlap" \notin sc => InPipeline = {}
    /\ slot' = [slot EXCEPT ![s] =
         [ pc |-> "fetch", n |-> ops, req |-> r, ref |-> r.ref, force |-> force, want |-> want,
           flags |-> Effective(m, r.prof, r.toggles, r.extra),
           id |-> NoId, src |-> {}, args |-> NoFlags, sha |-> "" ]]

Trigger(s, r) == Does("build") /\ Enter(s, r, FALSE, NoId) /\ UNCHANGED <<bVars, uiVars, cut>>
\* A JSON body may carry force with any request.
TriggerForce(s, r) == Does("force") /\ Enter(s, r, TRUE, NoId) /\ UNCHANGED <<bVars, uiVars, cut>>

\* handleTriggerBuild renders the prompt as a form with the profile, ref and tag
\* of the request; it has no option and no extra flags.
Unchecked(prof) == [o \in DOMAIN Options(m, prof) |-> FALSE]
Rebuild(s) ==
    /\ Does("rebuild")
    /\ \E q \in asked :
         Enter(s, [q.r EXCEPT !.toggles = Unchecked(q.r.prof), !.extra = NoFlags], TRUE, q.id)
    /\ asked' = {} /\ UNCHANGED <<bVars, stream, page, sets, cut>>

Leave(s) == slot' = [slot EXCEPT ![s] = Idle]
To(s, pc) == slot' = [slot EXCEPT ![s].pc = pc]

EnsureRepo(s) ==
    /\ At(s, "fetch")
    /\ To(s, "checkout") \/ ("fail" \in sc /\ Leave(s))
    /\ UNCHANGED <<bVars, uiVars, cut>>

\* Whatever is compiling in the clone sees the new ref from here on.
Seen(t) == [s \in Slots |-> IF s \in Compiling THEN [slot[s] EXCEPT !.src = @ \union {t}] ELSE slot[s]]
CheckoutRef(s) ==
    /\ At(s, "checkout")
    /\ LET ref == IF slot[s].ref = "latest" THEN Latest ELSE slot[s].ref
       IN tree' = ref /\ slot' = [Seen(ref) EXCEPT ![s].ref = ref, ![s].pc = "sha"]
    /\ UNCHANGED <<builds, file, objs, out, uiVars, cut>>
RevParse(s) ==
    /\ At(s, "sha")
    /\ slot' = [slot EXCEPT ![s].sha = tree, ![s].pc = "name"]
    /\ UNCHANGED <<bVars, uiVars, cut>>

\* The id: a tag is part of it; an untagged one whose plain id other flags hold
\* gets the hash of its own.
Name(s) ==
    /\ At(s, "name")
    /\ LET plain == Id(slot[s].ref, slot[s].req.prof, slot[s].req.tag, NoFlags)
           taken == slot[s].req.tag = "" /\ plain \in DOMAIN builds /\ builds[plain].flags # slot[s].flags
       IN slot' = [slot EXCEPT ![s].id = IF taken THEN [plain EXCEPT !.hash = slot[s].flags] ELSE plain,
                               ![s].pc = "register"]
    /\ UNCHANGED <<bVars, uiVars, cut>>

Entry(s, status) ==
    [ status |-> status, own |-> TRUE, sha |-> slot[s].sha, ref |-> slot[s].ref,
      flags |-> slot[s].flags, n |-> slot[s].n ]

Replace(id) == out' = Without(out, id)

Register(s) ==
    LET id == slot[s].id IN
    /\ At(s, "register")
    /\ \/ /\ id \in DOMAIN builds /\ ~slot[s].force     \* DuplicateBuildError
          /\ Leave(s)
          /\ asked' = IF slot[s].req.toggles # NoFlags THEN {[id |-> id, r |-> slot[s].req]} ELSE asked
          /\ UNCHANGED <<bVars, stream, page, sets>>
       \/ /\ id \in DOMAIN builds => slot[s].force
          /\ IF id \in DOMAIN builds THEN Replace(id) ELSE out' = out
          /\ builds' = [i \in DOMAIN builds \union {id} |-> IF i = id THEN Entry(s, "building") ELSE builds[i]]
          /\ To(s, "stream") /\ UNCHANGED <<file, tree, objs, uiVars>>
    /\ cut' = cut

\* The new log stream takes the place of an earlier one of the same id.
OpenStream(s) ==
    /\ At(s, "stream")
    /\ stream' = [i \in DOMAIN stream \union {slot[s].id} |-> IF i = slot[s].id THEN slot[s].n ELSE stream[i]]
    /\ To(s, "configure") /\ UNCHANGED <<bVars, page, sets, asked, cut>>

----------------------------------------------------------------------------
\* runBuild.

Save(bs) == builds' = bs /\ file' = bs

\* finishBuild: whatever entry has the id becomes this result.
FinishBuild(s, status) ==
    /\ Save([i \in DOMAIN builds |-> IF i = slot[s].id THEN Entry(s, status) ELSE builds[i]])
    /\ cut' = cut \ {slot[s].id}
Fail(s) == FinishBuild(s, "failed") /\ To(s, "close")

\* A bug: a build directory left by a failure is configured over.
RunCMakeOver(s) ==
    /\ At(s, "configure")
    /\ LET c == Configure(m, slot[s].req.prof, slot[s].flags)
       IN slot' = [slot EXCEPT ![s].src = {tree}, ![s].args = c.args, ![s].pc = "compile"]
    /\ objs' = [objs EXCEPT ![slot[s].req.prof] = [src |-> {}, flags |-> Overlay(@.flags, slot[s].flags)]]
    /\ UNCHANGED <<builds, file, cut, tree, out, uiVars>>
\* The directory is removed first, under whoever else is building in it.
RunCMake(s) ==
    /\ At(s, "configure")
    /\ \/ /\ LET c == Configure(m, slot[s].req.prof, slot[s].flags)
             IN slot' = [slot EXCEPT ![s].src = {tree}, ![s].args = c.args, ![s].pc = "compile"]
          /\ objs' = [objs EXCEPT ![slot[s].req.prof] = [src |-> {}, flags |-> slot[s].flags]]
          /\ UNCHANGED <<builds, file, cut>>
       \/ "fail" \in sc /\ objs' = [objs EXCEPT ![slot[s].req.prof] = NoBin] /\ Fail(s)
    /\ UNCHANGED <<tree, out, uiVars>>

RunNinja(s) ==
    /\ At(s, "compile")
    /\ \/ /\ objs[slot[s].req.prof] # NoBin
          /\ objs' = [objs EXCEPT ![slot[s].req.prof].src = slot[s].src]
          /\ To(s, "install") /\ UNCHANGED <<builds, file, cut>>
       \/ ("fail" \in sc \/ objs[slot[s].req.prof] = NoBin) /\ Fail(s) /\ objs' = objs
    /\ UNCHANGED <<tree, out, uiVars>>

\* The binary found in the build directory is copied, libraries and tools with it.
Install(s) ==
    LET bin == objs[slot[s].req.prof] IN
    /\ At(s, "install")
    /\ \/ /\ bin.src # {}
          /\ out' = [i \in DOMAIN out \union {slot[s].id} |-> IF i = slot[s].id THEN bin ELSE out[i]]
          /\ objs' = [objs EXCEPT ![slot[s].req.prof] = NoBin]
          /\ To(s, "finish") /\ UNCHANGED <<builds, file, cut>>
       \/ (bin.src = {} \/ "fail" \in sc) /\ Fail(s) /\ UNCHANGED <<out, objs>>
    /\ UNCHANGED <<tree, uiVars>>

\* The build that succeeded becomes its entry.
Succeed(s) ==
    /\ At(s, "finish") /\ To(s, "close")
    /\ FinishBuild(s, "success") /\ UNCHANGED <<tree, objs, out, uiVars>>

\* CloseSubscribers of the stream the id has now; the raw channel is the build's own.
Closed(s, p) ==
    /\ page[p] # NoPage /\ page[p].id = slot[s].id
    /\ page[p].of = IF page[p].raw THEN slot[s].n ELSE stream[slot[s].id]
\* A bug: the stream is closed only when the build is listed.
CloseListed(s) ==
    /\ At(s, "close") /\ Leave(s)
    /\ page' = [p \in Pages |-> IF Closed(s, p) /\ slot[s].id \in DOMAIN builds THEN NoPage ELSE page[p]]
    /\ UNCHANGED <<bVars, stream, sets, asked, cut>>

Close(s) ==
    /\ At(s, "close") /\ Leave(s)
    /\ page' = [p \in Pages |-> IF Closed(s, p) THEN NoPage ELSE page[p]]
    /\ UNCHANGED <<bVars, stream, sets, asked, cut>>

----------------------------------------------------------------------------
\* Requests that do not build.

Delete(id) ==
    /\ Does("delete") /\ id \in DOMAIN builds
    /\ Save(Without(builds, id)) /\ out' = Without(out, id)
    /\ cut' = cut \ {id} /\ UNCHANGED <<tree, objs, slot, uiVars>>

ExternalEntry == [status |-> "success", own |-> FALSE, sha |-> "", ref |-> "external", flags |-> NoFlags, n |-> ops]
Imported(bs, e) == [i \in DOMAIN bs \union {ExtId(e)} |-> IF i = ExtId(e) THEN ExternalEntry ELSE bs[i]]
RegisterExternalBuild(e, replace) ==
    /\ Does("import")
    /\ ExtId(e) \in DOMAIN builds => replace
    /\ Save(Imported(builds, e))
    /\ UNCHANGED <<tree, objs, out, slot, uiVars, cut>>

\* A bug: builds without a directory of their own are dropped.
LoadedOnDisk(bs) ==
    LET kept == {i \in DOMAIN bs : bs[i].status # "building" /\ (bs[i].status = "success" => i \in DOMAIN out)}
    IN [i \in kept |-> bs[i]]
\* loadBuilds drops what was building; the command-line importer starts the
\* same way, adds its entry and saves.
Loaded(bs) == LET kept == {i \in DOMAIN bs : bs[i].status # "building"} IN [i \in kept |-> bs[i]]
Restart ==
    /\ Does("crash")
    /\ \/ Save(Loaded(file))
       \/ \E e \in Externals : ExtId(e) \notin DOMAIN file /\ Save(Imported(Loaded(file), e))
    /\ cut' = cut \union {slot[s].id : s \in InPipeline}
    /\ slot' = [s \in Slots |-> Idle] /\ stream' = <<>> /\ page' = [p \in Pages |-> NoPage]
    /\ asked' = {} /\ UNCHANGED <<tree, objs, out, sets>>

\* handleBuildLogs: the stream of the id, or the channel of a build that has none yet.
SubscribeLogs(p, id) ==
    /\ Does("watch") /\ page[p] = NoPage
    /\ \/ id \in DOMAIN stream
          /\ page' = [page EXCEPT ![p] = [id |-> id, of |-> stream[id], raw |-> FALSE, late |-> ~Live(stream[id])]]
       \/ /\ id \notin DOMAIN stream
          /\ \E s \in InPipeline : slot[s].pc = "stream" /\ slot[s].id = id
                /\ page' = [page EXCEPT ![p] = [id |-> id, of |-> slot[s].n, raw |-> TRUE, late |-> FALSE]]
    /\ UNCHANGED <<bVars, slot, stream, sets, asked, cut>>
UnsubscribeLogs(p) ==
    /\ page[p] # NoPage /\ page' = [page EXCEPT ![p] = NoPage]
    /\ UNCHANGED <<sc, ops, m, bVars, slot, stream, sets, asked, cut>>

\* A saved set is found by its name, whatever its profile.
SaveFlagPreset(n, r) ==
    /\ Does("sets")
    /\ LET options == [o \in DOMAIN Options(m, r.prof) |-> Has(r.toggles, o) /\ r.toggles[o]]
           set == [ prof |-> r.prof, options |-> options, extra |-> r.extra,
                    was |-> Effective(m, r.prof, options, r.extra) ]
       IN sets' = [k \in DOMAIN sets \union {n} |-> IF k = n THEN set ELSE sets[k]]
    /\ UNCHANGED <<bVars, slot, stream, page, asked, cut>>
DeleteFlagPreset(n) ==
    /\ Does("sets") /\ n \in DOMAIN sets /\ sets' = Without(sets, n)
    /\ UNCHANGED <<bVars, slot, stream, page, asked, cut>>

\* handleProfileOptions with a saved set: the form it fills.
Applied(set) == [o \in DOMAIN Options(m, set.prof) |-> Has(set.options, o) /\ set.options[o]]
BuildFromSet(s, n, ref) ==
    /\ Does("sets") /\ n \in DOMAIN sets
    /\ Enter(s, [prof |-> sets[n].prof, ref |-> ref, tag |-> n, toggles |-> Applied(sets[n]), extra |-> sets[n].extra], FALSE, NoId)
    /\ UNCHANGED <<bVars, uiVars, cut>>

Work(s) ==
    \/ EnsureRepo(s) \/ CheckoutRef(s) \/ RevParse(s) \/ Name(s) \/ Register(s) \/ OpenStream(s)
    \/ RunCMake(s) \/ RunNinja(s) \/ Install(s) \/ Succeed(s) \/ Close(s)

BuilderNext ==
    \/ \E s \in Slots : Work(s) \/ Rebuild(s)
    \/ \E s \in Slots, r \in Requests : Trigger(s, r) \/ TriggerForce(s, r)
    \/ \E s \in Slots, n \in Names, ref \in Refs : BuildFromSet(s, n, ref)
    \/ \E n \in Names : DeleteFlagPreset(n) \/ \E r \in Requests : SaveFlagPreset(n, r)
    \/ \E id \in DOMAIN builds : Delete(id)
    \/ \E e \in Externals, replace \in BOOLEAN : RegisterExternalBuild(e, replace)
    \/ \E p \in Pages : UnsubscribeLogs(p) \/ \E id \in DOMAIN builds : SubscribeLogs(p, id)
    \/ Restart

BuilderSpec == BuilderInit /\ [][BuilderNext]_builderVars

----------------------------------------------------------------------------
\* resolveBuild: the selected build if it can run, else the newest code; builds
\* without a place on upstream's scale come last, newest first.
Successful == {i \in DOMAIN builds : builds[i].status = "success"}
Rank(i) == LET r == builds[i].ref IN
    IF r \notin Refs THEN 0 ELSE IF CommitCount[r] > 0 THEN CommitCount[r] ELSE TagNumber[r]
Newer(i, j) == Rank(i) > Rank(j) \/ (Rank(i) = Rank(j) /\ builds[i].n > builds[j].n)
Resolve(active) ==
    IF active \in Successful THEN {active}
    ELSE {i \in Successful : ~\E j \in Successful : Newer(j, i)}

----------------------------------------------------------------------------
\* Entries, binaries and log pages are what they are declared to be: of a
\* build of this module's requests or of another tool.
BuilderTypeOK ==
    /\ tree \in Refs /\ ops \in 0..MaxOps
    /\ \A i \in DOMAIN builds : builds[i].status \in {"building", "success", "failed"}
    /\ \A i \in DOMAIN file : file[i].status \in {"building", "success", "failed"}
    /\ \A i \in DOMAIN out : out[i].src \subseteq Refs
    /\ \A s \in Slots : slot[s].pc \in Built \union {"idle", "fetch", "checkout", "sha", "name", "register"}

\* A build that is listed as a success was compiled from the commit and with
\* the flags its entry records (every benchmark result copies them), whatever
\* was rebuilt, deleted or interrupted before; builds one at a time.
BuiltAsRecorded ==
    "overlap" \notin sc => \A i \in Successful : builds[i].own /\ i \notin cut =>
        i \in DOMAIN out /\ out[i] = [src |-> {builds[i].sha}, flags |-> builds[i].flags]

\* Requests whose builds cannot lose their entry to another one while they run.
Careful == sc \cap {"force", "rebuild", "delete"} = {}

\* What the router would be launched on has its binary, also when builds of two
\* requests run at once, unless the entry of a running one is deleted or replaced
\* or a crash cut a replacement short.
LaunchableIsThere ==
    ("overlap" \in sc => Careful) =>
        \A active \in DOMAIN builds \union {NoId} : \A i \in Resolve(active) :
            builds[i].own /\ i \notin cut => i \in DOMAIN out

\* A flag the user gave reaches cmake as given: neither the profile, nor a
\* toggle, nor a compiler found on the machine overrides it.
UserFlagWins ==
    \A s \in Slots : slot[s].pc \in {"compile", "install", "finish"} =>
        \A f \in DOMAIN slot[s].req.extra : Has(slot[s].args, f) /\ slot[s].args[f] = slot[s].req.extra[f]

\* A page that began to follow a build while it ran is told when it ends, also
\* beside another build, unless that one takes over its id.
PageIsTold ==
    ("overlap" \in sc => Careful) =>
        \A p \in Pages : page[p] # NoPage /\ ~page[p].late => Live(page[p].of)

\* A saved flag set builds what it built when it was saved.
SavedSetReplays ==
    \A n \in DOMAIN sets : Effective(m, sets[n].prof, Applied(sets[n]), sets[n].extra) = sets[n].was

\* What a registered build of another tool is called stays listed, over
\* restarts too, until it is deleted.
ImportIsKept ==
    [][\A e \in Externals : ExtId(e) \in DOMAIN builds /\ ExtId(e) \notin DOMAIN builds'
          => "delete" \in sc /\ ops' = ops + 1]_builderVars

\* What is listed as built is there, and was built as it says.
BuildsAreAsListed == BuilderTypeOK /\ BuiltAsRecorded /\ LaunchableIsThere

\* The user's flags are what a build is configured with, now and when a saved
\* set of them is used again.
FlagsAreTheUsers == UserFlagWins /\ SavedSetReplays
=============================================================================
