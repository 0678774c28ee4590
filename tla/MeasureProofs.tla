--------------------------- MODULE MeasureProofs ---------------------------
(***************************************************************************)
(* What is measured and shown.  Evaluation, for any models, requests,      *)
(* settings, card requests and bounds: the cache and the dataset are never *)
(* half done, and what a score says of its measurement is so.              *)
(*                                                                         *)
(* MemoryReport, for any models, ports, configs and bounds.  A line of the *)
(* log carries nothing but a port, so what matters is the order: the spawn *)
(* line of a load comes before its other lines and after every line of the *)
(* loads that had its port before.                                         *)
(***************************************************************************)
EXTENDS Evaluation, MemoryReport, SequenceTheorems, FiniteSetTheorems, TLAPS

PCs == {"idle", "prepare", "dataset", "fetched", "resolve", "key", "refdata",
        "generate", "generating", "generated", "cut", "flags", "eval"}

(* While the tool writes, and until its file is renamed or removed.        *)
Writing == pc \in {"generating", "generated", "cut"}

(* The job, and the downloads of the dataset: one at most is the cell's.   *)
Jobs ==
    /\ TypeOK
    /\ job \in Job \cup {None}
    /\ temps \subseteq {"left", "dataset", "refdata"} \X {"whole", "damaged"}

(* One file is written, by the cell; the ticker lives while it is, so its  *)
(* late save cannot reopen a run that was settled.                         *)
Files ==
    /\ \A k \in DOMAIN base : base[k].whole = TRUE
    /\ ~Writing => partial = <<>>
    /\ pc \in {"generating", "cut"} => partial = [k \in {cell.key} |-> Made(FALSE)]
    /\ pc = "generated" => partial = [k \in {cell.key} |-> Made(TRUE)]
    /\ ticker # "off" => Writing
    /\ RunIsSettled

(* What a card request holds.                                              *)
Held(q) == q = [at |-> q.at, file |-> q.file, saw |-> q.saw]
Shaped == reader = [r \in Readers |-> reader[r]] /\ \A r \in Readers : Held(reader[r])

(* What it has seen is the dataset that is there, or is of an older file.  *)
Seen(q) ==
    q.at \in {"hash", "store"} =>
        /\ dataset # None
        /\ q.file.mtime \in Nat /\ q.file.mtime < stamp
        /\ q.at = "store" /\ q.file.mtime = dataset.mtime =>
              (q.saw = "whole") = (dataset.content = "whole")

(* A modification time tells two files apart: a verdict, and what a reader *)
(* has hashed, is of the dataset that is there or of no later one.         *)
Verdicts ==
    /\ stamp \in Nat
    /\ dataset # None => dataset \in Dataset /\ dataset.mtime < stamp /\ dataset.content # "damaged"
    /\ verdicts # None =>
          /\ verdicts \in [mtime : Nat, ok : BOOLEAN]
          /\ verdicts.mtime < stamp
          /\ dataset # None /\ verdicts.mtime = dataset.mtime =>
                verdicts.ok = (dataset.content = "whole")
    /\ Shaped
    /\ \A r \in Readers : Seen(reader[r])

IInv == Jobs /\ Files /\ Verdicts

LEMMA Facts ==
    /\ Installed \subseteq Models
    /\ MaxOps \in Nat /\ MaxJobs \in Nat
    /\ None \notin Job /\ None \notin Dataset /\ None # "running"
    /\ \A r \in Requests : r.models \subseteq Models /\ r.asked \in Models \cup {None}
                           /\ r.mode \in Modes /\ r.chunks \in Nat
BY ConstantsAssumption, NoneAssumption

LEMMA InitIInv == Init => IInv
<1> SUFFICES ASSUME Init PROVE IInv OBVIOUS
<1>1. Jobs
      BY Facts DEF Init, Jobs, TypeOK, NoRun
<1>2. Files
      BY Facts DEF Init, Files, Writing, RunIsSettled, NoRun
<1>3. Verdicts
      BY DEF Init, Verdicts, Shaped, Held, Seen, IdleReader, Request
<1> QED BY <1>1, <1>2, <1>3 DEF IInv

(* The request of a job makes a job.                                       *)
LEMMA CreateJobs ==
    ASSUME Jobs, NEW req \in Requests, CreateJob(req)
    PROVE  job' \in Job
<1>1. req.models \in SUBSET Models /\ req.mode \in Modes /\ req.asked \in Models \cup {None} /\ req.chunks \in Nat
      BY Facts
<1>2. req.ov \in {r.ov : r \in Requests}
      OBVIOUS
<1>3. job' = [todo |-> req.models, mode |-> req.mode, asked |-> req.asked, ov |-> req.ov,
               chunks |-> req.chunks, refs |-> {}]
      BY DEF CreateJob
<1> QED BY <1>1, <1>2, <1>3 DEF Job

LEMMA JobsStep ==
    ASSUME Jobs, Next
    PROVE  Jobs'
<1> USE DEF Jobs, TypeOK, regVars, cellVars, fileVars, dataVars, cardVars, Goto, CellDone, Fail, Busy
<1>1. CASE \E req \in Requests : CreateJob(req)
  <2> PICK req \in Requests : CreateJob(req) BY <1>1
  <2>1. job' \in Job BY CreateJobs
  <2> QED BY <2>1, Facts DEF CreateJob
<1>2. CASE Cancel
      BY <1>2 DEF Cancel
<1>3. CASE EndJob
      BY <1>3 DEF EndJob
<1>4. CASE \E m \in Models : BeginCell(m)
  <2> PICK m \in Models : BeginCell(m) BY <1>4
  <2>1. job' \in Job BY DEF BeginCell, Job
  <2> QED BY <2>1, Facts DEF BeginCell, NoRun
<1>5. CASE Prepare \/ DataPresent \/ FetchBroken
      BY <1>5 DEF Prepare, DataPresent, FetchBroken, AfterData, NoRun
<1>6. CASE Fetch
      BY <1>6 DEF Fetch
<1>7. CASE InstallDataset
      BY <1>7 DEF InstallDataset, NoRun
<1>8. CASE ResolveKLReference
  <2>1. job # None /\ UNCHANGED <<regVars, jobs, dataVars, ops, ticker>>
        BY <1>8 DEF ResolveKLReference
  <2>2. CASE Fail /\ UNCHANGED job
        BY <2>1, <2>2 DEF NoRun
  <2>3. CASE \E r \in References(cell.model, job.asked) :
                /\ job' = [job EXCEPT !.refs = @ \cup {r}]
                /\ pc' \in {"idle", "key"} /\ run' \in {run, NoRun}
    <3> PICK r \in References(cell.model, job.asked) :
                /\ job' = [job EXCEPT !.refs = @ \cup {r}]
                /\ pc' \in {"idle", "key"} /\ run' \in {run, NoRun}
        BY <2>3
    <3>1. r \in Models BY DEF References, Largest, SameRepo
    <3>2. job' \in Job BY <3>1, <2>1 DEF Job
    <3>3. run'.status \in {None, "running", "completed", "failed"} BY DEF NoRun
    <3>4. job' # None BY <3>2, Facts
    <3> HIDE DEF NoRun, Fail, Goto, CellDone
    <3> QED BY <3>2, <3>3, <3>4, <2>1
  <2> QED BY <1>8, <2>2, <2>3 DEF ResolveKLReference
<1>9. CASE LookUpBase
      BY <1>9 DEF LookUpBase, NoRun
<1>10. CASE Generate \/ Generated \/ NotGenerated
      BY <1>10 DEF Generate, Generated, NotGenerated
<1>11. CASE Tick \/ TickSave \/ TickEnd
      BY <1>11 DEF Tick, TickSave, TickEnd, NoRun
<1>12. CASE InstallBase \/ DiscardPartial \/ CellFlags
      BY <1>12 DEF InstallBase, DiscardPartial, CellFlags, NoRun
<1>13. CASE Evaluated \/ EvalFailed
      BY <1>13 DEF Evaluated, EvalFailed, NoRun
<1>14. CASE \E m \in Models : Arrive(m) \/ Depart(m) \/ \E c \in Configs : EditConfig(m, c)
      BY <1>14, Facts DEF Arrive, Depart, EditConfig, Change
<1>15. CASE CopyDataset
      BY <1>15, Facts DEF CopyDataset, Change
<1>16. CASE Crash
  <2>1. temps' \subseteq {"left", "dataset", "refdata"} \X {"whole", "damaged"}
        BY <1>16 DEF Crash
  <2> QED BY <2>1, <1>16, Facts DEF Crash, Change, NoRun
<1>17. CASE \E r \in Readers : \/ Look(r) \/ Hash(r) \/ Remember(r) \/ DeleteKLBaseFile(r)
                               \/ \E key \in DOMAIN base : DeleteCheck(r, key)
      BY <1>17 DEF Look, Hash, Remember, DeleteKLBaseFile, DeleteCheck
<1> QED BY <1>1, <1>2, <1>3, <1>4, <1>5, <1>6, <1>7, <1>8, <1>9, <1>10, <1>11, <1>12,
           <1>13, <1>14, <1>15, <1>16, <1>17 DEF Next, Code, Ticker, World

(* A step that leaves the files, the writing cell and the run's end alone. *)
LEMMA FilesFrame ==
    ASSUME Files, UNCHANGED fileVars, ~Writing, ~(Writing'), ticker' = ticker,
           pc' = "idle" => run'.status # "running"
    PROVE  Files'
BY DEF Files, Writing, fileVars, RunIsSettled

LEMMA FilesStep ==
    ASSUME IInv, Next
    PROVE  Files'
<1> USE Facts DEF cellVars, fileVars, Goto, CellDone, Fail, NoRun
<1>0. Files /\ Jobs /\ TypeOK BY DEF IInv, Jobs
<1>1. CASE UNCHANGED <<fileVars, pc, cell, run, ticker>> /\ (UNCHANGED job \/ pc = "idle")
      BY <1>0, <1>1 DEF Files, Writing, Made, RunIsSettled
<1>2. CASE \E m \in Models : BeginCell(m)
  <2> PICK m \in Models : BeginCell(m) BY <1>2
  <2>1. pc' = "idle" => run' = run BY DEF BeginCell
  <2> QED BY <1>0, <2>1, FilesFrame DEF BeginCell, Files, RunIsSettled, Writing
<1>3. CASE Prepare \/ DataPresent \/ FetchBroken \/ Fetch \/ InstallDataset
      BY <1>0, <1>3, FilesFrame DEF Prepare, DataPresent, FetchBroken, Fetch, InstallDataset, Writing,
         AfterData, Jobs
<1>4. CASE ResolveKLReference \/ LookUpBase \/ CellFlags \/ Evaluated \/ EvalFailed
  <2>1. UNCHANGED <<fileVars, ticker>> /\ ~Writing
        BY <1>4 DEF ResolveKLReference, LookUpBase, CellFlags, Evaluated, EvalFailed, Writing
  <2>2. pc' \in {"idle", "key", "flags", "refdata", "eval"}
        BY <1>4 DEF ResolveKLReference, LookUpBase, CellFlags, Evaluated, EvalFailed
  <2>3. pc' = "idle" => run' \in {NoRun, [NoRun EXCEPT !.status = "failed"], [status |-> "completed", score |-> Score]}
        BY <1>4 DEF ResolveKLReference, LookUpBase, CellFlags, Evaluated, EvalFailed
  <2>4. pc' = "idle" => run'.status # "running" BY <2>3
  <2> QED BY <1>0, <2>1, <2>2, <2>4, FilesFrame DEF Writing
<1>5. CASE Generate
  <2>1. partial = <<>> BY <1>0, <1>5 DEF Generate, Files, Writing
  <2>2. partial' = [k \in {cell.key} |-> Made(FALSE)] BY <2>1, <1>5 DEF Generate, WritePartial, Put
  <2>3. Made(FALSE)' = Made(FALSE) BY <1>5 DEF Generate, Made
  <2> QED BY <1>0, <1>5, <2>2, <2>3 DEF Generate, WritePartial, Files, Writing, RunIsSettled
<1>6. CASE Generated
  <2>1. DOMAIN partial = {cell.key} BY <1>0, <1>6 DEF Generated, Files
  <2>2. partial' = [k \in {cell.key} |-> Made(TRUE)] BY <2>1, <1>6 DEF Generated, Put
  <2>3. Made(TRUE)' = Made(TRUE) BY <1>6 DEF Generated, Made
  <2> QED BY <1>0, <1>6, <2>2, <2>3 DEF Generated, Files, Writing, RunIsSettled
<1>7. CASE NotGenerated \/ Tick \/ TickSave \/ TickEnd
      BY <1>0, <1>7 DEF NotGenerated, Tick, TickSave, TickEnd, Files, Writing, Made, RunIsSettled
<1>8. CASE InstallBase \/ DiscardPartial
  <2>1. DOMAIN partial = {cell.key} BY <1>0, <1>8 DEF InstallBase, DiscardPartial, Files, Writing
  <2>2. DOMAIN partial \ {cell.key} = {} BY <2>1
  <2>3. partial' = [x \in {} |-> partial[x]] BY <2>2, <1>8 DEF InstallBase, DiscardPartial, Drop
  <2>4. partial' = <<>> BY <2>3
  <2>5. \A k \in DOMAIN base' : base'[k].whole = TRUE
        BY <1>0, <1>8 DEF InstallBase, DiscardPartial, Put, Made, Files
  <2>6. ticker' = "off" /\ ~(Writing') /\ (pc' = "idle" => run'.status # "running")
        BY <1>8 DEF InstallBase, DiscardPartial, AwaitTicker, Writing
  <2> QED BY <2>4, <2>5, <2>6 DEF Files, RunIsSettled, Writing
<1>9. CASE \E r \in Readers : DeleteKLBaseFile(r)
  <2>1. UNCHANGED <<partial, cellVars, ticker>> BY <1>9 DEF DeleteKLBaseFile
  <2>2. Made(TRUE)' = Made(TRUE) /\ Made(FALSE)' = Made(FALSE) BY <1>9 DEF DeleteKLBaseFile, Made
  <2>3. \A k \in DOMAIN base' : base'[k].whole = TRUE BY <1>0, <1>9 DEF DeleteKLBaseFile, Drop, Files
  <2> QED BY <1>0, <2>1, <2>2, <2>3 DEF Files, Writing, RunIsSettled
<1>10. CASE Crash
      BY <1>0, <1>10 DEF Crash, CleanStalePartials, Files, Writing, RunIsSettled
<1>11. CASE \/ Cancel \/ CopyDataset
            \/ \E m \in Models : Arrive(m) \/ Depart(m) \/ \E c \in Configs : EditConfig(m, c)
            \/ \E r \in Readers : \/ Look(r) \/ Hash(r) \/ Remember(r)
                                  \/ \E key \in DOMAIN base : DeleteCheck(r, key)
  <2>1. UNCHANGED <<fileVars, pc, cell, run, ticker, job>>
        BY <1>11 DEF Cancel, CopyDataset, Arrive, Depart, EditConfig, Look, Hash, Remember, DeleteCheck
  <2> QED BY <1>1, <2>1
<1>12. CASE EndJob \/ \E req \in Requests : CreateJob(req)
  <2>1. pc = "idle" BY <1>0, <1>12 DEF EndJob, CreateJob, Busy, TypeOK
  <2>2. UNCHANGED <<fileVars, pc, cell, run, ticker>> BY <1>12 DEF EndJob, CreateJob
  <2> QED BY <1>1, <2>1, <2>2
<1> QED BY <1>2, <1>3, <1>4, <1>5, <1>6, <1>7, <1>8, <1>9, <1>10, <1>11, <1>12 DEF Next, Code, Ticker, World

LEMMA ReaderPut ==
    ASSUME Shaped, NEW r \in Readers, NEW v, Held(v), reader' = [reader EXCEPT ![r] = v]
    PROVE  /\ Shaped' /\ reader'[r] = v
           /\ \A q \in Readers : q # r => reader'[q] = reader[q]
<1>1. reader'[r] = v /\ \A q \in Readers : q # r => reader'[q] = reader[q]
      BY DEF Shaped
<1>2. reader' = [q \in Readers |-> reader'[q]]
      BY DEF Shaped
<1> QED BY <1>1, <1>2 DEF Shaped, Held

LEMMA SeenPut ==
    ASSUME Shaped, \A q \in Readers : Seen(reader[q]), NEW r \in Readers, NEW v, Held(v), Seen(v),
           reader' = [reader EXCEPT ![r] = v], UNCHANGED <<dataset, stamp>>
    PROVE  Shaped' /\ \A q \in Readers : Seen(reader[q])'
<1> SUFFICES ASSUME NEW q \in Readers PROVE Seen(reader[q])' BY ReaderPut
<1>1. CASE q = r
  <2>1. reader'[q] = v BY <1>1, ReaderPut
  <2> QED BY <2>1 DEF Seen
<1>2. CASE q # r
  <2>1. reader'[q] = reader[q] BY <1>2, ReaderPut
  <2>2. Seen(reader[q]) OBVIOUS
  <2> QED BY <2>1, <2>2 DEF Seen
<1> QED BY <1>1, <1>2

LEMMA VerdictsStep ==
    ASSUME IInv, Next
    PROVE  Verdicts'
<1> USE Facts DEF dataVars, cardVars, Change
<1>0. Verdicts /\ Jobs BY DEF IInv
<1>1. CASE UNCHANGED <<dataset, stamp, verdicts, reader>>
      BY <1>0, <1>1 DEF Verdicts, Shaped, Held, Seen
<1>2. CASE InstallDataset \/ CopyDataset
  <2>1. CASE UNCHANGED <<dataset, stamp>>
        BY <2>1, <1>1, <1>2 DEF InstallDataset, CopyDataset
  <2>2. CASE \E c \in {"whole", "other"} : dataset' = [content |-> c, mtime |-> stamp] /\ stamp' = stamp + 1
    <3>1. PICK c \in {"whole", "other"} : dataset' = [content |-> c, mtime |-> stamp] /\ stamp' = stamp + 1
          BY <2>2
    <3>2. UNCHANGED cardVars BY <1>2 DEF InstallDataset, CopyDataset
    <3>3. stamp \in Nat BY <1>0 DEF Verdicts
    <3>4. dataset' \in Dataset /\ dataset' # None BY <3>1, <3>3 DEF Dataset
    <3> QED BY <1>0, <3>1, <3>2, <3>3, <3>4 DEF Verdicts, Shaped, Held, Seen
  <2> QED BY <1>2, <2>1, <2>2 DEF InstallDataset, CopyDataset, Accept
<1>3. CASE \E r \in Readers : Look(r)
  <2> PICK r \in Readers : Look(r) BY <1>3
  <2> DEFINE v == [at |-> "hash", file |-> dataset, saw |-> None]
  <2>1. CASE UNCHANGED reader BY <1>1, <2>1 DEF Look
  <2>2. CASE reader' = [reader EXCEPT ![r] = v]
    <3>1. Held(v) BY DEF Held
    <3>2. Seen(v) BY <1>0 DEF Seen, Look, Verdicts, Dataset
    <3> HIDE DEF v
    <3>3. UNCHANGED <<dataset, stamp, verdicts>> BY DEF Look
    <3> QED BY <1>0, <2>2, <3>1, <3>2, <3>3, SeenPut DEF Verdicts
  <2> QED BY <2>1, <2>2 DEF Look, Request
<1>4. CASE \E r \in Readers : Hash(r)
  <2> PICK r \in Readers : Hash(r) BY <1>4
  <2> DEFINE v == [at |-> "store", file |-> reader[r].file, saw |-> dataset.content]
  <2>2. reader' = [reader EXCEPT ![r] = v] BY DEF Hash, Request
  <2>3. Held(v) BY DEF Held
  <2>4. Seen(v) BY <1>0 DEF Hash, Verdicts, Seen
  <2> HIDE DEF v
  <2>5. UNCHANGED <<dataset, stamp, verdicts>> BY DEF Hash
  <2> QED BY <1>0, <2>2, <2>3, <2>4, <2>5, SeenPut DEF Verdicts
<1>5. CASE \E r \in Readers : Remember(r)
  <2> PICK r \in Readers : Remember(r) BY <1>5
  <2>1. Held(IdleReader) /\ Seen(IdleReader) BY DEF Held, Seen, IdleReader, Request
  <2>2. verdicts' = [mtime |-> reader[r].file.mtime, ok |-> reader[r].saw = "whole"] BY DEF Remember
  <2>3. Seen(reader[r]) /\ reader[r].at = "store" BY <1>0 DEF Remember, Verdicts
  <2>4. UNCHANGED <<dataset, stamp>> /\ reader' = [reader EXCEPT ![r] = IdleReader] BY DEF Remember
  <2>5. Shaped' /\ \A q \in Readers : Seen(reader[q])' BY <1>0, <2>1, <2>4, SeenPut DEF Verdicts
  <2>6. verdicts' \in [mtime : Nat, ok : BOOLEAN] BY <2>2, <2>3 DEF Seen
  <2> QED BY <1>0, <2>2, <2>3, <2>4, <2>5, <2>6 DEF Verdicts, Seen
<1>6. CASE \E r \in Readers : DeleteKLBaseFile(r) \/ \E key \in DOMAIN base : DeleteCheck(r, key)
  <2>1. PICK r \in Readers : DeleteKLBaseFile(r) \/ \E key \in DOMAIN base : DeleteCheck(r, key)
        BY <1>6
  <2>2. PICK v : reader' = [reader EXCEPT ![r] = v] /\ Held(v) /\ Seen(v)
    <3>1. CASE DeleteKLBaseFile(r)
      <4>1. Held(IdleReader) /\ Seen(IdleReader) BY DEF Held, Seen, IdleReader, Request
      <4> QED BY <4>1, <3>1 DEF DeleteKLBaseFile
    <3>2. CASE \E key \in DOMAIN base : DeleteCheck(r, key)
      <4>1. PICK key \in DOMAIN base : DeleteCheck(r, key) BY <3>2
      <4> DEFINE v == [at |-> "delete", file |-> key, saw |-> None]
      <4>2. Held(v) /\ Seen(v) BY DEF Held, Seen
      <4>4. reader' = [reader EXCEPT ![r] = v] BY <4>1 DEF DeleteCheck, Request
      <4> HIDE DEF v
      <4> QED BY <4>2, <4>4
    <3> QED BY <2>1, <3>1, <3>2
  <2>3. UNCHANGED <<dataset, stamp, verdicts>> BY <2>1 DEF DeleteKLBaseFile, DeleteCheck
  <2> QED BY <1>0, <2>2, <2>3, SeenPut DEF Verdicts
<1>7. CASE Crash
      BY <1>0, <1>7 DEF Crash, Verdicts, Shaped, Held, Seen, IdleReader, Request
<1>8. CASE \/ Code /\ ~InstallDataset
           \/ Ticker
           \/ \E req \in Requests : CreateJob(req)
           \/ Cancel \/ Fetch \/ FetchBroken \/ Generated \/ NotGenerated \/ Tick
           \/ Evaluated \/ EvalFailed
           \/ \E m \in Models : Arrive(m) \/ Depart(m) \/ \E c \in Configs : EditConfig(m, c)
      BY <1>1, <1>8 DEF Code, Ticker, CreateJob, Cancel, Fetch, FetchBroken, Generated, NotGenerated, Tick,
         Evaluated, EvalFailed, Arrive, Depart, EditConfig, EndJob, BeginCell, Prepare, DataPresent,
         ResolveKLReference, LookUpBase, Generate, InstallBase, DiscardPartial, CellFlags, TickSave, TickEnd
<1> QED BY <1>2, <1>3, <1>4, <1>5, <1>6, <1>7, <1>8 DEF Next, Code, Ticker, World

LEMMA InvStep == IInv /\ [Next]_vars => IInv'
<1> SUFFICES ASSUME IInv, [Next]_vars PROVE IInv' OBVIOUS
<1>1. CASE Next
      BY <1>1, JobsStep, FilesStep, VerdictsStep DEF IInv
<1>2. CASE UNCHANGED vars
  <2> USE DEF vars, regVars, cellVars, fileVars, dataVars, cardVars
  <2>1. Jobs' BY <1>2 DEF IInv, Jobs, TypeOK
  <2>2. Files'
    <3>1. Made(TRUE)' = Made(TRUE) /\ Made(FALSE)' = Made(FALSE) BY <1>2 DEF Made
    <3> QED BY <1>2, <3>1 DEF IInv, Files, Writing, RunIsSettled
  <2>3. Verdicts' BY <1>2 DEF IInv, Verdicts, Shaped, Held, Seen
  <2> QED BY <2>1, <2>2, <2>3 DEF IInv
<1> QED BY <1>1, <1>2

THEOREM Invariance == Spec => []IInv
BY InitIInv, InvStep, PTL DEF Spec

(* Whatever is cancelled, fails, is deleted, replaced or cut short by a    *)
(* crash: no unfinished file is taken for a finished one, no verdict shown *)
(* for another file than its own, and no run left running.                 *)
THEOREM NothingHalfDone == Spec => []NothingIsHalfDone
<1>1. IInv => NothingIsHalfDone
  <2> SUFFICES ASSUME IInv PROVE NothingIsHalfDone OBVIOUS
  <2>1. TypeOK /\ RunIsSettled BY DEF IInv, Jobs, Files
  <2>2. CacheIsSound BY DEF IInv, Files, Writing, CacheIsSound
  <2>3. DatasetIsVerified BY DEF IInv, Verdicts, DatasetIsVerified, Known
  <2> QED BY <2>1, <2>2, <2>3 DEF NothingIsHalfDone
<1> QED BY <1>1, Invariance, PTL

----------------------------------------------------------------------------
(* What a score says of its measurement.                                   *)

Fingerprint(c) == KLFlagFingerprint(MapConfigFlags(c))

(* The cell is making the reference that its key names.                    *)
Making ==
    \/ pc \in {"refdata", "generate", "generating", "generated", "cut"}
    \/ pc = "fetched" /\ \E t \in temps : t[1] = "refdata"
Comparing == pc \in {"flags", "eval"} /\ job.mode = "kl-divergence"

Keyed ==
    /\ cell.ref \in Models
    /\ cell.key = [model |-> Info[cell.ref].repo, quant |-> Info[cell.ref].quant,
                   chunks |-> job.chunks, fingerprint |-> Fingerprint(cell.cfg)]

(* A key says of the file it names how it was made, and of the cell that   *)
(* asks for it how it measures.                                            *)
Measures ==
    /\ DOMAIN cell = DOMAIN NoCell
    /\ \A s, t \in temps : s[1] # "left" => pc = "fetched" /\ (t[1] # "left" => s = t)
    /\ \A k \in DOMAIN base : /\ base[k].model \in Models
                              /\ k = KLBaseKey(base[k].model, base[k].chunks, base[k].flags)
    /\ pc # "idle" => (cell.cfg["kv"] # F16 => "kv" \in DOMAIN job.ov)
    /\ pc = "key" => cell.ref \in Models
    /\ Making \/ Comparing => Keyed
    /\ Making => KLFlagFingerprint(cell.flags) = Fingerprint(cell.cfg)
    /\ pc = "eval" => cell.flags = MapConfigFlags(cell.cfg)

(* No two files of a repository have one quantization.                     *)
DistinctFiles ==
    \A m, n \in Models : Info[m].repo = Info[n].repo /\ Info[m].quant = Info[n].quant => m = n

Shown == BothSidesAgree /\ F16UnlessAsked /\ (DistinctFiles => ComparedWithItsReference)

(* The snapshot decides the flags, whatever the saved config is now.       *)
LEMMA SnapshotFlags ==
    ASSUME NEW b, NEW c
    PROVE  MapConfigFlags(ApplySnapshot(b, c)) = MapConfigFlags(c)
<1>1. \A f \in Fields : ApplySnapshot(b, c)[f] = c[f]
      BY DEF ApplySnapshot
<1>2. Emitted(ApplySnapshot(b, c)) = Emitted(c)
      BY <1>1 DEF Emitted
<1>3. \A f \in Emitted(c) : ApplySnapshot(b, c)[f] = c[f]
      BY <1>1 DEF Emitted
<1> QED BY <1>2, <1>3 DEF MapConfigFlags

(* What the reference is computed with is what the cell is.                *)
LEMMA ReferenceFlags ==
    ASSUME NEW r, NEW c
    PROVE  Fingerprint(EvalReferenceConfig(r, c)) = Fingerprint(c)
<1> DEFINE x == EvalReferenceConfig(r, c)
<1>1. \A f \in Arithmetic : f \in Fields /\ x[f] = c[f]
      BY DEF EvalReferenceConfig, Arithmetic, Fields
<1>2. Emitted(x) \cap Arithmetic = Emitted(c) \cap Arithmetic
      BY <1>1 DEF Emitted
<1>3. \A y : DOMAIN MapConfigFlags(y) = Emitted(y) /\ \A f \in Emitted(y) : MapConfigFlags(y)[f] = y[f]
      BY DEF MapConfigFlags
<1> HIDE DEF x
<1>4. \A f \in Emitted(x) \cap Arithmetic : MapConfigFlags(x)[f] = MapConfigFlags(c)[f]
      BY <1>1, <1>2, <1>3
<1>5. Fingerprint(x) = [f \in Emitted(x) \cap Arithmetic |-> MapConfigFlags(x)[f]]
      BY <1>3 DEF Fingerprint, KLFlagFingerprint
<1>6. Fingerprint(c) = [f \in Emitted(c) \cap Arithmetic |-> MapConfigFlags(c)[f]]
      BY <1>3 DEF Fingerprint, KLFlagFingerprint
<1>7. Fingerprint(x) = Fingerprint(c)
      BY <1>2, <1>4, <1>5, <1>6
<1> QED BY <1>7 DEF x

(* Equal fingerprints are equal arithmetic.                                *)
LEMMA SameComputation ==
    ASSUME NEW a, NEW b, KLFlagFingerprint(a) = KLFlagFingerprint(b)
    PROVE  Computes(a) = Computes(b)
<1>1. DOMAIN a \cap Arithmetic = DOMAIN b \cap Arithmetic
      BY DEF KLFlagFingerprint
<1>2. \A f \in DOMAIN a \cap Arithmetic : KLFlagFingerprint(a)[f] = a[f] /\ KLFlagFingerprint(b)[f] = b[f]
      BY <1>1 DEF KLFlagFingerprint
<1> QED BY <1>1, <1>2 DEF Computes

(* A step that leaves what is measured as it is.                           *)
LEMMA MeasuresFrame ==
    ASSUME Measures, UNCHANGED <<cell, base, temps>>, pc' = pc,
           pc # "idle" => job'.ov = job.ov /\ job'.mode = job.mode /\ job'.chunks = job.chunks
    PROVE  Measures'
<1>1. UNCHANGED <<Making, pc, cell, base, temps>> BY DEF Making
<1>2. Making => pc # "idle" BY DEF Making
<1>3. Keyed /\ pc # "idle" => Keyed' BY <1>1 DEF Keyed
<1>4. (pc # "idle" => UNCHANGED Comparing) /\ (Comparing' => pc # "idle") BY DEF Comparing
<1> QED BY <1>1, <1>2, <1>3, <1>4 DEF Measures

LEMMA MeasuresStep ==
    ASSUME IInv, Measures, Next
    PROVE  Measures'
<1> USE Facts DEF regVars, cellVars, fileVars, dataVars, cardVars, Goto, Change
<1>0. Files /\ Jobs /\ TypeOK BY DEF IInv, Jobs
<1>1. CASE CellDone /\ UNCHANGED <<base, temps>> /\ pc # "fetched"
      BY <1>1 DEF Measures, CellDone, Making, Comparing
<1>2. CASE \/ \E req \in Requests : CreateJob(req)
           \/ Cancel \/ EndJob \/ Tick \/ TickSave \/ TickEnd \/ CopyDataset
           \/ \E m \in Models : Arrive(m) \/ Depart(m) \/ \E c \in Configs : EditConfig(m, c)
           \/ \E r \in Readers : \/ Look(r) \/ Hash(r) \/ Remember(r)
                                 \/ \E key \in DOMAIN base : DeleteCheck(r, key)
  <2>1. UNCHANGED <<cell, base, temps, pc>>
        BY <1>2 DEF CreateJob, Cancel, EndJob, Tick, TickSave, TickEnd, CopyDataset, Arrive, Depart,
           EditConfig, Look, Hash, Remember, DeleteCheck
  <2>2. pc # "idle" => UNCHANGED job
        BY <1>0, <1>2 DEF CreateJob, Cancel, EndJob, Tick, TickSave, TickEnd, CopyDataset, Arrive, Depart,
           EditConfig, Look, Hash, Remember, DeleteCheck, Busy, TypeOK
  <2> QED BY <2>1, <2>2, MeasuresFrame
<1>3. CASE \E m \in Models : BeginCell(m)
  <2> PICK m \in Models : BeginCell(m) BY <1>3
  <2>1. job \in Job /\ job'.ov = job.ov BY <1>0 DEF BeginCell, Busy, Jobs, Job
  <2>2. UNCHANGED <<base, temps>> /\ pc = "idle" BY DEF BeginCell
  <2>3. CASE UNCHANGED cellVars
        BY <2>2, <2>3 DEF Measures, Making, Comparing
  <2>4. CASE pc' = "prepare" /\ cell' = [NoCell EXCEPT !.model = m, !.cfg = EvalConfigSnapshot(config[m], job.ov)]
    <3>1. DOMAIN cell' = DOMAIN NoCell /\ cell'.cfg = EvalConfigSnapshot(config[m], job.ov)
          BY <2>4 DEF NoCell
    <3>2. cell'.cfg["kv"] # F16 => "kv" \in DOMAIN job.ov
          BY <3>1 DEF EvalConfigSnapshot, Overridden, Fields
    <3> QED BY <2>1, <2>2, <2>4, <3>1, <3>2 DEF Measures, Making, Comparing
  <2> QED BY <2>3, <2>4 DEF BeginCell
<1>4. CASE Prepare \/ DataPresent
  <2>1. UNCHANGED <<job, cell, base, temps>> \/ CellDone
        BY <1>4 DEF Prepare, DataPresent, Fail
  <2>2. UNCHANGED <<job, base, temps>> /\ pc # "fetched" /\ (CellDone \/ pc' \in {"dataset", "generate", "resolve", "flags"})
        BY <1>4 DEF Prepare, DataPresent, AfterData, Fail
  <2>3. ~CellDone /\ pc' = "generate" => pc = "refdata" BY <1>4 DEF Prepare, DataPresent, AfterData, Fail, CellDone
  <2>4. pc' = "flags" => job.mode # "kl-divergence" BY <1>4 DEF Prepare, DataPresent, AfterData, Fail, CellDone
  <2>5. CASE ~CellDone
        BY <1>4, <2>1, <2>2, <2>3, <2>4, <2>5 DEF Measures, Making, Comparing, Keyed, Prepare, DataPresent
  <2> QED BY <1>1, <2>2, <2>5
<1>5. CASE FetchBroken
  <2>1. CASE Fail BY <1>1, <1>5, <2>1 DEF FetchBroken, Fail
  <2>2. CASE cell' = [cell EXCEPT !.tries = @ + 1] /\ UNCHANGED pc
    <3>1. /\ cell'.ref = cell.ref /\ cell'.key = cell.key /\ cell'.cfg = cell.cfg /\ cell'.flags = cell.flags
          /\ DOMAIN cell' = DOMAIN cell
          BY <2>2 DEF Measures, NoCell
    <3> QED BY <1>5, <2>2, <3>1 DEF FetchBroken, Measures, Making, Comparing, Keyed
  <2> QED BY <1>5, <2>1, <2>2 DEF FetchBroken
<1>6. CASE Fetch
  <2>1. PICK body \in {"whole", "damaged"} : temps' = temps \cup {<<pc, body>>} BY <1>6 DEF Fetch
  <2>2. \A t \in temps : t[1] = "left" BY <1>6 DEF Fetch, Measures
  <2>3. UNCHANGED <<job, cell, base>> /\ pc' = "fetched" /\ pc \in {"dataset", "refdata"} BY <1>6 DEF Fetch
  <2>4. \A s, t \in temps' : s[1] # "left" => (t[1] # "left" => s = t) BY <2>1, <2>2
  <2>5. Making' => Making
    <3>1. (\E t \in temps' : t[1] = "refdata") => pc = "refdata" BY <2>1, <2>2
    <3> QED BY <2>3, <3>1 DEF Making
  <2>6. Keyed => Keyed' BY <2>3 DEF Keyed
  <2> QED BY <2>3, <2>4, <2>5, <2>6 DEF Measures, Comparing
<1>7. CASE InstallDataset
  <2>1. PICK t \in temps : /\ t[1] # "left" /\ temps' = temps \ {t}
                           /\ (pc' = t[1] /\ UNCHANGED <<cell, run>>) \/ Fail
        BY <1>7 DEF InstallDataset
  <2>2. UNCHANGED <<job, base>> /\ pc = "fetched" BY <1>7 DEF InstallDataset
  <2>3. \A s \in temps' : s[1] = "left"
    <3>1. \A x, y \in temps : x[1] # "left" /\ y[1] # "left" => x = y BY DEF Measures
    <3> QED BY <2>1, <3>1
  <2>4. t[1] \in {"left", "dataset", "refdata"} BY <1>0 DEF Jobs
  <2>5. CASE pc' = t[1] /\ UNCHANGED <<cell, run>>
    <3>1. Making' => Making BY <2>1, <2>2, <2>3, <2>4, <2>5 DEF Making
    <3>2. Keyed => Keyed' BY <2>2, <2>5 DEF Keyed
    <3> QED BY <2>1, <2>2, <2>3, <2>4, <2>5, <3>1, <3>2 DEF Measures, Comparing
  <2>6. CASE Fail
        BY <2>2, <2>3, <2>6 DEF Fail, CellDone, Measures, Making, Comparing
  <2> QED BY <2>1, <2>5, <2>6
<1>8. CASE ResolveKLReference
  <2>1. UNCHANGED <<base, temps>> /\ pc = "resolve" BY <1>8 DEF ResolveKLReference
  <2>2. CASE CellDone BY <1>1, <2>1, <2>2
  <2>3. CASE \E r \in References(cell.model, job.asked) :
                /\ job' = [job EXCEPT !.refs = @ \cup {r}]
                /\ cell' = [cell EXCEPT !.ref = r, !.refcfg = config[r]]
                /\ pc' = "key"
    <3> PICK r \in References(cell.model, job.asked) :
                /\ job' = [job EXCEPT !.refs = @ \cup {r}]
                /\ cell' = [cell EXCEPT !.ref = r, !.refcfg = config[r]]
                /\ pc' = "key"
        BY ONLY <2>3
    <3>1. r \in Models BY <1>0 DEF References, Largest, SameRepo, TypeOK
    <3>2. job'.ov = job.ov BY <1>0, <2>1 DEF Jobs, TypeOK, Job
    <3>3. cell'.ref = r /\ cell'.cfg = cell.cfg /\ DOMAIN cell' = DOMAIN cell BY DEF Measures, NoCell
    <3> QED BY <2>1, <3>1, <3>2, <3>3 DEF Measures, Making, Comparing
  <2> QED BY <1>8, <2>2, <2>3 DEF ResolveKLReference, Fail
<1>9. CASE LookUpBase
  <2> DEFINE flags == EvalFlags(cell.ref, ReferenceSnapshot)
             key == KLBaseKey(cell.ref, job.chunks, flags)
  <2>1. UNCHANGED <<job, base, temps>> /\ pc = "key" BY <1>9 DEF LookUpBase
  <2>2. CASE Fail BY <1>1, <2>1, <2>2 DEF Fail
  <2>3. CASE cell' = [cell EXCEPT !.key = key, !.flags = flags, !.tries = 0] /\ pc' \in {"flags", "refdata"}
    <3>1. KLFlagFingerprint(flags) = Fingerprint(cell.cfg)
          BY SnapshotFlags, ReferenceFlags DEF EvalFlags, ReferenceSnapshot, Fingerprint
    <3>2. key = [model |-> Info[cell.ref].repo, quant |-> Info[cell.ref].quant,
                 chunks |-> job.chunks, fingerprint |-> Fingerprint(cell.cfg)]
          BY <3>1 DEF KLBaseKey
    <3> HIDE DEF flags, key
    <3>3. /\ cell'.key = key /\ cell'.flags = flags /\ cell'.ref = cell.ref /\ cell'.cfg = cell.cfg
          /\ DOMAIN cell' = DOMAIN cell
          BY <2>3 DEF Measures, NoCell
    <3>4. Keyed' BY <2>1, <3>2, <3>3 DEF Keyed, Measures
    <3> QED BY <2>1, <2>3, <3>1, <3>3, <3>4 DEF Measures, Making, Comparing
  <2> QED BY <1>9, <2>2, <2>3 DEF LookUpBase
<1>10. CASE Generate \/ Generated \/ NotGenerated
  <2>1. UNCHANGED <<job, cell, base, temps>> /\ Making /\ pc' \in {"generating", "generated", "cut"}
        BY <1>10, <1>0 DEF Generate, Generated, NotGenerated, WritePartial, Making
  <2>2. Keyed => Keyed' BY <2>1 DEF Keyed
  <2>3. pc # "fetched" /\ pc # "idle" BY <1>10 DEF Generate, Generated, NotGenerated
  <2> QED BY <2>1, <2>2, <2>3 DEF Measures, Making, Comparing
<1>11. CASE InstallBase \/ DiscardPartial
  <2>1. UNCHANGED <<job, temps>> /\ pc \in {"generated", "cut"} BY <1>11 DEF InstallBase, DiscardPartial
  <2>2. CASE UNCHANGED base /\ Fail BY <1>1, <2>1, <2>2 DEF Fail
  <2>3. CASE base' = Put(base, cell.key, partial[cell.key]) /\ Goto("flags") /\ pc = "generated"
    <3>1. partial[cell.key] = Made(TRUE) BY <1>0, <2>3 DEF Files
    <3>2. Keyed /\ KLFlagFingerprint(cell.flags) = Fingerprint(cell.cfg) BY <2>3 DEF Measures, Making
    <3>3. cell.key = KLBaseKey(cell.ref, job.chunks, cell.flags) BY <3>2 DEF Keyed, KLBaseKey
    <3>4. \A k \in DOMAIN base' : /\ base'[k].model \in Models
                                 /\ k = KLBaseKey(base'[k].model, base'[k].chunks, base'[k].flags)
          BY <2>3, <3>1, <3>2, <3>3, SMTT(30) DEF Put, Made, Measures, Keyed
    <3>5. Keyed' BY <2>1, <2>3, <3>2 DEF Keyed
    <3> QED BY <2>1, <2>3, <3>4, <3>5 DEF Measures, Making, Comparing
  <2> QED BY <1>11, <2>2, <2>3 DEF InstallBase, DiscardPartial
<1>12. CASE CellFlags
  <2>1. UNCHANGED <<job, base, temps>> /\ pc = "flags" BY <1>12 DEF CellFlags
  <2>2. CASE Fail BY <1>1, <2>1, <2>2 DEF Fail
  <2>3. CASE cell' = [cell EXCEPT !.flags = EvalFlags(cell.model, cell.cfg)] /\ pc' = "eval"
    <3>1. /\ cell'.key = cell.key /\ cell'.ref = cell.ref /\ cell'.cfg = cell.cfg
          /\ cell'.flags = EvalFlags(cell.model, cell.cfg) /\ DOMAIN cell' = DOMAIN cell
          BY <2>3 DEF Measures, NoCell
    <3>2. cell'.flags = MapConfigFlags(cell.cfg) BY <3>1, SnapshotFlags DEF EvalFlags
    <3>3. Keyed => Keyed' BY <2>1, <3>1 DEF Keyed
    <3> QED BY <2>1, <2>3, <3>1, <3>2, <3>3 DEF Measures, Making, Comparing
  <2> QED BY <1>12, <2>2, <2>3 DEF CellFlags
<1>13. CASE Evaluated \/ EvalFailed
      BY <1>13, <1>1 DEF Evaluated, EvalFailed, Fail
<1>14. CASE \E r \in Readers : DeleteKLBaseFile(r)
  <2>1. UNCHANGED <<job, cell, temps, pc>> BY <1>14 DEF DeleteKLBaseFile
  <2>2. \A k \in DOMAIN base' : k \in DOMAIN base /\ base'[k] = base[k] BY <1>14 DEF DeleteKLBaseFile, Drop
  <2>3. UNCHANGED <<Making, Comparing, Keyed>> BY <2>1 DEF Making, Comparing, Keyed
  <2> QED BY <2>1, <2>2, <2>3 DEF Measures
<1>15. CASE Crash
  <2>1. UNCHANGED base /\ CellDone /\ \A t \in temps' : t[1] = "left" BY <1>15 DEF Crash
  <2> QED BY <2>1 DEF Measures, CellDone, Making, Comparing
<1> QED BY <1>2, <1>3, <1>4, <1>5, <1>6, <1>7, <1>8, <1>9, <1>10, <1>11, <1>12, <1>13, <1>14, <1>15
       DEF Next, Code, Ticker, World

(* What is shown changes when a cell is evaluated, and only then a run     *)
(* becomes complete.                                                       *)
LEMMA ShownStep ==
    ASSUME IInv, Measures, Shown, Next
    PROVE  Shown'
<1> USE Facts DEF cellVars, CellDone, Fail, NoRun
<1>1. CASE UNCHANGED run
      BY <1>1 DEF Shown, BothSidesAgree, F16UnlessAsked, ComparedWithItsReference
<1>2. CASE run'.status # "completed"
      BY <1>2 DEF Shown, BothSidesAgree, F16UnlessAsked, ComparedWithItsReference
<1>3. CASE Evaluated
  <2>1. pc = "eval" /\ run' = [status |-> "completed", score |-> Score]
        BY <1>3 DEF Evaluated
  <2>2. cell.flags = MapConfigFlags(cell.cfg) /\ (cell.cfg["kv"] # F16 => "kv" \in DOMAIN job.ov)
        BY <2>1 DEF Measures
  <2>3. run'.status = "completed" /\ run'.score = Score
        BY <2>1
  <2>4. /\ Score.flags = cell.flags /\ Score.cfg = cell.cfg /\ Score.asked = DOMAIN job.ov
        /\ Score.ref = cell.ref /\ Score.chunks = job.chunks
        /\ Score.base = IF job.mode = "kl-divergence" THEN base[cell.key] ELSE None
        BY DEF Score
  <2>5. CASE job.mode # "kl-divergence"
        BY <2>2, <2>3, <2>4, <2>5 DEF Shown, BothSidesAgree, F16UnlessAsked, ComparedWithItsReference
  <2>6. CASE job.mode = "kl-divergence"
    <3> DEFINE b == base[cell.key]
    <3>1. cell.key \in DOMAIN base BY <1>3, <2>6 DEF Evaluated
    <3>2. b.whole = TRUE BY <3>1 DEF IInv, Files
    <3>3. b.model \in Models /\ cell.key = KLBaseKey(b.model, b.chunks, b.flags)
          BY <3>1 DEF Measures
    <3>4. /\ cell.ref \in Models
          /\ cell.key = [model |-> Info[cell.ref].repo, quant |-> Info[cell.ref].quant,
                         chunks |-> job.chunks, fingerprint |-> Fingerprint(cell.cfg)]
          BY <2>1, <2>6 DEF Measures, Comparing, Keyed
    <3> HIDE DEF b
    <3>5. /\ Info[b.model].repo = Info[cell.ref].repo /\ Info[b.model].quant = Info[cell.ref].quant
          /\ b.chunks = job.chunks /\ KLFlagFingerprint(b.flags) = Fingerprint(cell.cfg)
          BY <3>3, <3>4 DEF KLBaseKey
    <3>6. Computes(b.flags) = Computes(cell.flags)
          BY <2>2, <3>5, SameComputation DEF Fingerprint
    <3>7. DistinctFiles => b.model = cell.ref BY <3>3, <3>4, <3>5 DEF DistinctFiles
    <3>8. Score.base = b BY <2>4, <2>6 DEF b
    <3>9. BothSidesAgree' BY <2>2, <2>3, <2>4, <3>2, <3>5, <3>6, <3>8 DEF BothSidesAgree
    <3>10. F16UnlessAsked' BY <2>2, <2>3, <2>4 DEF F16UnlessAsked
    <3>11. DistinctFiles => ComparedWithItsReference'
           BY <2>3, <2>4, <3>7, <3>8 DEF ComparedWithItsReference
    <3> QED BY <3>9, <3>10, <3>11 DEF Shown
  <2> QED BY <2>5, <2>6
<1> DEFINE Open == run' \in {NoRun, [NoRun EXCEPT !.status = "failed"], [NoRun EXCEPT !.status = "running"]}
<1>4. CASE Open
  <2>1. run'.status \in {None, "failed", "running"} BY <1>4
  <2> QED BY <2>1, <1>2, NoneAssumption
<1>5. CASE \/ \E req \in Requests : CreateJob(req)
           \/ Cancel \/ EndJob \/ Tick \/ TickEnd \/ CopyDataset
           \/ Fetch \/ Generate \/ Generated \/ NotGenerated
           \/ \E m \in Models : Arrive(m) \/ Depart(m) \/ \E c \in Configs : EditConfig(m, c)
           \/ \E r \in Readers : \/ Look(r) \/ Hash(r) \/ Remember(r) \/ DeleteKLBaseFile(r)
                                 \/ \E key \in DOMAIN base : DeleteCheck(r, key)
  <2>1. UNCHANGED run
        BY <1>5 DEF CreateJob, Cancel, EndJob, Tick, TickEnd, CopyDataset, Fetch, Generate, Generated,
           NotGenerated, Goto, Arrive, Depart, EditConfig, Look, Hash, Remember, DeleteKLBaseFile, DeleteCheck
  <2> QED BY <1>1, <2>1
<1>6. CASE Prepare \/ DataPresent \/ FetchBroken \/ InstallDataset
  <2>1. UNCHANGED run \/ Open
        BY <1>6 DEF Prepare, DataPresent, FetchBroken, InstallDataset, Goto
  <2> QED BY <1>1, <1>4, <2>1
<1>7. CASE ResolveKLReference \/ LookUpBase \/ CellFlags \/ EvalFailed
  <2>1. UNCHANGED run \/ Open
        BY <1>7 DEF ResolveKLReference, LookUpBase, CellFlags, EvalFailed
  <2> QED BY <1>1, <1>4, <2>1
<1>8. CASE TickSave \/ InstallBase \/ DiscardPartial \/ Crash \/ \E m \in Models : BeginCell(m)
  <2>1. UNCHANGED run \/ Open
        BY <1>8 DEF TickSave, InstallBase, DiscardPartial, Crash, BeginCell, Goto
  <2> QED BY <1>1, <1>4, <2>1
<1> HIDE DEF Open
<1> QED BY <1>3, <1>5, <1>6, <1>7, <1>8 DEF Next, Code, Ticker, World

(* A completed run was measured with the settings it records, through a    *)
(* compressed cache only if it was asked for, and a comparison had the same*)
(* arithmetic, as many chunks and a finished file on its other side; where *)
(* no two files of a repository have one quantization, that file is of the *)
(* model the run names.  This whatever is edited, deleted or arrives.      *)
THEOREM MeasuredAlike ==
    Spec => [](BothSidesAgree /\ F16UnlessAsked /\ (DistinctFiles => ComparedWithItsReference))
<1>1. Init => Measures /\ Shown
      BY NoneAssumption DEF Init, Measures, Making, Comparing, Shown, BothSidesAgree, F16UnlessAsked,
         ComparedWithItsReference, NoRun
<1>2. ASSUME IInv, Measures, Shown, [Next]_vars PROVE Measures' /\ Shown'
  <2>1. CASE Next BY <1>2, <2>1, MeasuresStep, ShownStep
  <2>2. CASE UNCHANGED vars
    <3> USE DEF vars, regVars, cellVars, fileVars, dataVars, cardVars
    <3>1. Measures' BY <1>2, <2>2, MeasuresFrame
    <3>2. Shown' BY <1>2, <2>2 DEF Shown, BothSidesAgree, F16UnlessAsked, ComparedWithItsReference
    <3> QED BY <3>1, <3>2
  <2> QED BY <1>2, <2>1, <2>2
<1> QED BY <1>1, <1>2, Invariance, PTL DEF Spec, Shown

----------------------------------------------------------------------------
(* The references of a job, while no model comes or goes.                  *)

Chosen(x) ==
    IF job.asked # None THEN x = job.asked
    ELSE x \in installed /\ \A y \in installed : Info[y].repo = Info[x].repo => Info[y].size <= Info[x].size

Shared ==
    job # None /\ act \cap {"arrive", "depart"} = {} => \A x \in job.refs : Chosen(x)

LEMMA ReferenceIsChosen ==
    ASSUME NEW m, NEW x \in References(m, job.asked)
    PROVE  Chosen(x)
<1>1. CASE job.asked # None
      BY <1>1 DEF References, Chosen
<1>2. CASE job.asked = None
  <2>1. x \in Largest(m) BY <1>2 DEF References
  <2> QED BY <1>2, <2>1 DEF Largest, SameRepo, Chosen
<1> QED BY <1>1, <1>2

LEMMA SharedStep ==
    ASSUME IInv, Shared, Next
    PROVE  Shared'
<1> USE DEF Busy, regVars, cellVars, fileVars, dataVars, cardVars
<1> SUFFICES ASSUME job' # None, act \cap {"arrive", "depart"} = {}, NEW x \in job'.refs
             PROVE  Chosen(x)'
    BY DEF Shared, Next
<1>1. UNCHANGED act BY DEF Next
<1>2. job # None => job \in Job BY DEF IInv, Jobs
<1>3. CASE \E req \in Requests : CreateJob(req)
      BY <1>3 DEF CreateJob
<1>4. CASE EndJob \/ Crash
      BY <1>4 DEF EndJob, Crash
<1>5. CASE \E m \in Models : Arrive(m) \/ Depart(m)
      BY <1>5 DEF Arrive, Depart, Change
<1>6. CASE \E m \in Models : BeginCell(m)
  <2> PICK m \in Models : BeginCell(m) BY <1>6
  <2>1. /\ job # None /\ installed' = installed
        /\ job' = [job EXCEPT !.todo = @ \ {m}]
        BY DEF BeginCell
  <2>2. job'.refs = job.refs /\ job'.asked = job.asked BY <1>2, <2>1 DEF Job
  <2>3. Chosen(x) BY <2>1, <2>2 DEF Shared
  <2> QED BY <2>1, <2>2, <2>3 DEF Chosen
<1>7. CASE ResolveKLReference
  <2>1. job # None BY <1>7 DEF ResolveKLReference, IInv, Jobs, TypeOK
  <2>2. installed' = installed BY <1>7 DEF ResolveKLReference
  <2>3. CASE UNCHANGED job
        BY <2>1, <2>2, <2>3 DEF Shared, Chosen
  <2>4. CASE \E r \in References(cell.model, job.asked) : job' = [job EXCEPT !.refs = @ \cup {r}]
    <3> PICK r \in References(cell.model, job.asked) : job' = [job EXCEPT !.refs = @ \cup {r}]
        BY <2>4
    <3>1. job'.refs = job.refs \cup {r} /\ job'.asked = job.asked BY <1>2, <2>1 DEF Job
    <3>2. Chosen(r) BY ReferenceIsChosen
    <3>3. Chosen(x) BY <2>1, <3>1, <3>2 DEF Shared
    <3> QED BY <2>2, <3>1, <3>3 DEF Chosen
  <2> QED BY <1>7, <2>3, <2>4 DEF ResolveKLReference
<1>8. CASE UNCHANGED <<job, installed>>
      BY <1>8 DEF Shared, Chosen
<1>9. CASE \/ Prepare \/ DataPresent \/ FetchBroken \/ InstallDataset \/ LookUpBase \/ Generate
           \/ NotGenerated \/ InstallBase \/ DiscardPartial \/ CellFlags \/ EvalFailed
           \/ TickSave \/ TickEnd \/ Cancel \/ Fetch \/ Generated \/ Tick \/ Evaluated \/ CopyDataset
           \/ \E m \in Models : \E c \in Configs : EditConfig(m, c)
           \/ \E r \in Readers : \/ Look(r) \/ Hash(r) \/ Remember(r) \/ DeleteKLBaseFile(r)
                                 \/ \E key \in DOMAIN base : DeleteCheck(r, key)
  <2>1. UNCHANGED <<job, installed>>
        BY <1>9 DEF Prepare, DataPresent, FetchBroken, InstallDataset, LookUpBase, Generate,
           NotGenerated, InstallBase, DiscardPartial, CellFlags, EvalFailed, TickSave, TickEnd, Cancel,
           Fetch, Generated, Tick, Evaluated, CopyDataset, EditConfig, Look, Hash, Remember,
           DeleteKLBaseFile, DeleteCheck
  <2> QED BY <1>8, <2>1
<1> QED BY <1>3, <1>4, <1>5, <1>6, <1>7, <1>9 DEF Next, Code, Ticker, World

LEMMA SharedReference ==
    ASSUME IInv, Shared
    PROVE  ReferenceIsShared
<1> SUFFICES ASSUME Busy, act \cap {"arrive", "depart"} = {}, NEW x \in job.refs, NEW y \in job.refs,
                    Info[x].repo = Info[y].repo
             PROVE  x = y \/ (job.asked = None /\ Info[x].size = Info[y].size)
    BY DEF ReferenceIsShared
<1>1. Chosen(x) /\ Chosen(y) BY DEF Shared, Busy
<1>2. CASE job.asked # None
      BY <1>1, <1>2 DEF Chosen
<1>3. CASE job.asked = None
  <2>1. x \in Models /\ y \in Models BY DEF IInv, Jobs, Job, Busy
  <2>2. Info[x].size \in Nat /\ Info[y].size \in Nat BY <2>1, ConstantsAssumption
  <2>3. Info[x].size <= Info[y].size /\ Info[y].size <= Info[x].size BY <1>1, <1>3 DEF Chosen
  <2> QED BY <1>3, <2>2, <2>3
<1> QED BY <1>2, <1>3

(* The cells of a job on a repository are measured against one reference,  *)
(* or against equally large ones, whatever else happens meanwhile.         *)
THEOREM OneReference == Spec => []ReferenceIsShared
<1>1. Init => Shared BY DEF Init, Shared
<1>2. ASSUME IInv, Shared, [Next]_vars PROVE Shared'
  <2>1. CASE UNCHANGED vars
        BY <1>2, <2>1 DEF vars, regVars, Shared, Chosen
  <2> QED BY <1>2, <2>1, SharedStep
<1>3. IInv /\ Shared => ReferenceIsShared BY SharedReference
<1> QED BY <1>1, <1>2, <1>3, Invariance, PTL DEF Spec

(* Scores shown side by side are comparable: ScoresAreComparable, when no  *)
(* two files of a repository have one quantization (Known gaps).           *)
THEOREM Comparable == DistinctFiles => (Spec => []ScoresAreComparable)
<1> SUFFICES ASSUME DistinctFiles PROVE Spec => []ScoresAreComparable OBVIOUS
<1>1. /\ BothSidesAgree /\ F16UnlessAsked /\ (DistinctFiles => ComparedWithItsReference)
      /\ ReferenceIsShared
      => ScoresAreComparable
      BY DEF ScoresAreComparable
<1> QED BY <1>1, MeasuredAlike, OneReference, PTL

-----------------------------------------------------------------------------
(* The memory a load took.                                                 *)
Kinds == {"spawn", "buffers", "ready"}
Lines == [kind : Kinds, load : Loads]
Recorder == [model : Served, port : Ports, pc : {"wait", "got"}, seen : SUBSET Loads]

ReportTypeOK ==
    /\ saved \in [Served -> Launchable]
    /\ running \in [Served -> Launchable] \union {Nothing}
    /\ load \in Seq(Load) /\ Len(load) <= MaxLoads
    /\ used \subseteq Spawned
    /\ log \in Seq(Lines) /\ lost \subseteq Spawned
    /\ rec \in [Loads -> Measured \union {Nothing}]
    /\ byPort \in [Ports -> Loads \union {0}] /\ byModel \in [Served -> Loads \union {0}]
    /\ spawned \in Loads \union {0}
    /\ recorders \subseteq Recorder
    /\ sample \in (SUBSET Spawned) \union {Nothing} /\ midway \subseteq Loads

Recorded(l) == rec[l] # Nothing
Port(l) == load[l].port
Logged == 1 .. Len(log)

(* An instance that lives runs what the router was started with, is the     *)
(* last on its port, and holds its memory when it has loaded.               *)
Instances ==
    \A l \in Spawned :
        /\ Live(l) => running # Nothing /\ running[load[l].model] = load[l].cfg
        /\ Live(l) => \A k \in Spawned : k > l => Port(k) # Port(l)
        /\ load[l].stage \in {"filled", "ready"} => l \in used

(* The collector knows loads that were spawned, under their own port and    *)
(* model, and on a port the latest it was told of, until the next start.    *)
Collected ==
    /\ \A l \in Loads : Recorded(l) => /\ l \in Spawned
                                       /\ byPort[Port(l)] = 0 \/ byPort[Port(l)] >= l
    /\ \A p \in Ports : byPort[p] # 0 =>
           byPort[p] \in Spawned /\ Recorded(byPort[p]) /\ Port(byPort[p]) = p
    /\ \A m \in Served : byModel[m] # 0 =>
           byModel[m] \in Spawned /\ Recorded(byModel[m]) /\ load[byModel[m]].model = m

(* Between the spawn line and its note the record is as it was made.        *)
Opened ==
    spawned # 0 =>
        /\ Recorded(spawned) /\ ~rec[spawned].ready /\ rec[spawned].buffers = {}
        /\ byPort[Port(spawned)] \in {0, spawned}
        /\ Live(spawned) => byPort[Port(spawned)] = spawned

(* The order of the log.                                                    *)
Ordered ==
    /\ \A i \in Logged : log[i].load \in Spawned
    /\ \A i, j \in Logged : i < j /\ log[j].kind = "spawn" => log[i].load < log[j].load
    /\ \A i, j \in Logged :
           /\ j < i /\ log[i].kind = "buffers" /\ log[j].kind = "spawn"
           /\ Port(log[j].load) = Port(log[i].load)
           => log[j].load <= log[i].load

(* The log against the collector: a spawn line still to be read is of a     *)
(* load later than all those recorded, and a buffer line of one no earlier  *)
(* than those recorded on its port.  Every spawn was read, lost or is there.*)
Pending ==
    /\ \A i \in Logged : log[i].kind = "spawn" =>
           log[i].load \notin lost /\ \A r \in Loads : Recorded(r) => r < log[i].load
    /\ \A i \in Logged : log[i].kind = "buffers" =>
           \A r \in Loads : Recorded(r) /\ Port(r) = Port(log[i].load) => r <= log[i].load
    /\ \A k \in Spawned :
           \/ k \in lost \/ Recorded(k)
           \/ \E j \in Logged : log[j].kind = "spawn" /\ log[j].load = k

(* The only load its port has had.                                          *)
Alone(l) == l \in Spawned /\ Live(l) /\ FirstOnPort(l)

(* The note of such a load is of its launch once it is written.             *)
Noted ==
    \A l \in Loads : Alone(l) /\ Recorded(l) /\ spawned # l => rec[l].note.cfg = load[l].cfg

(* The reading that a recorder has or is about to have counts a load, or was *)
(* begun before the load was ready.                                         *)
Counted(g, l) ==
    LET S == IF g.pc = "got" THEN g.seen ELSE sample
    IN  S = Nothing \/ l \in S \/ l \in midway

(* Who records the reading of such a load came after it was ready.          *)
Awaited ==
    /\ \A i \in Logged : LET l == log[i].load
                         IN  log[i].kind = "ready" /\ Live(l) /\ ~load[l].slept =>
                             load[l].stage = "ready"
    /\ \A g \in recorders : \E k \in Spawned : Port(k) = g.port
    /\ \A g \in recorders, l \in Loads :
           Alone(l) /\ ~load[l].slept /\ g.port = Port(l) =>
               load[l].stage = "ready" /\ Counted(g, l)
    /\ \A l \in Loads :
           Alone(l) /\ ~load[l].slept /\ Recorded(l) =>
               rec[l].note.loaded = Nothing \/ l \in rec[l].note.loaded \/ l \in midway

(* A noted load met on the way by one still loading is marked.              *)
Crossed(l, k) ==
    /\ Recorded(l) /\ Recorded(k) /\ k < l /\ spawned # l /\ rec[l].note.model # Nothing
    /\ byPort[Port(l)] = l /\ byPort[Port(k)] = k /\ ~rec[k].ready
Marked == \A l, k \in Loads : Crossed(l, k) => rec[l].note.contended

ReportInv == /\ ReportTypeOK /\ Instances /\ Collected /\ Opened /\ Ordered /\ Pending
        /\ BuffersAreTheirOwn /\ Noted /\ Awaited /\ Marked

----------------------------------------------------------------------------
(* Operators of the model.                                                 *)

LEMMA Sizes == MaxLoads \in Nat /\ Loads = 1 .. MaxLoads
  BY MemoryAssumption DEF Loads

(* A line is at the end of the log or lost.                                *)
LEMMA Published ==
    ASSUME log \in Seq(Lines), NEW kind \in Kinds, NEW l \in Loads, Publish(kind, l)
    PROVE  /\ log' \in Seq(Lines)
           /\ \/ /\ lost' = lost /\ Len(log') = Len(log) + 1
                 /\ \A i \in Logged : i \in Logged' /\ log'[i] = log[i]
                 /\ log'[Len(log')].kind = kind /\ log'[Len(log')].load = l
              \/ /\ log' = log
                 /\ lost' = IF kind = "spawn" THEN lost \union {l} ELSE lost
<1> DEFINE line == [kind |-> kind, load |-> l]
<1>1. line \in Lines
  BY DEF Lines
<1>2. CASE Len(log) < LogCap
  <2>1. log' = Append(log, line) /\ lost' = lost
    BY <1>2 DEF Publish
  <2>2. /\ log' \in Seq(Lines) /\ Len(log') = Len(log) + 1
        /\ \A i \in Logged : log'[i] = log[i]
        /\ log'[Len(log) + 1] = line
    BY <1>1, <2>1, AppendProperties DEF Logged
  <2> QED BY <2>1, <2>2, LenProperties DEF Logged
<1>3. CASE ~(Len(log) < LogCap)
  BY <1>3 DEF Publish
<1> QED BY <1>2, <1>3

(* The watcher takes the first line.                                       *)
LEMMA Taken ==
    ASSUME log \in Seq(Lines), NEW kind, Reading(kind)
    PROVE  /\ 1 \in Logged /\ log[1] = Line /\ Line.kind = kind /\ Line \in Lines
           /\ spawned = 0
           /\ log' \in Seq(Lines) /\ Len(log') = Len(log) - 1
           /\ \A i \in Logged' : i + 1 \in Logged /\ log'[i] = log[i + 1]
           /\ \A i \in Logged : i # 1 => i - 1 \in Logged' /\ log'[i - 1] = log[i]
<1>1. log # <<>> /\ log' = Tail(log) /\ Line.kind = kind /\ spawned = 0
  BY DEF Reading
<1>2. /\ Head(log) \in Lines /\ Tail(log) \in Seq(Lines) /\ Len(Tail(log)) = Len(log) - 1
      /\ \A i \in 1 .. Len(Tail(log)) : Tail(log)[i] = log[i + 1]
  BY <1>1, HeadTailProperties
<1>3. Len(log) \in Nat \ {0} /\ log[1] = Head(log)
  BY <1>1
<1> QED BY <1>1, <1>2, <1>3 DEF Line, Logged

(* One instance changes its stage.                                         *)
LEMMA Staged ==
    ASSUME ReportTypeOK, NEW l \in Spawned, NEW e \in Load, load' = [load EXCEPT ![l] = e]
    PROVE  /\ load' \in Seq(Load) /\ Len(load') = Len(load) /\ Spawned' = Spawned
           /\ \A k \in Spawned : k # l => load'[k] = load[k]
           /\ load'[l] = e
<1>1. load \in Seq(Load) /\ l \in 1 .. Len(load)
  BY DEF ReportTypeOK, Spawned
<1>2. /\ [load EXCEPT ![l] = e] \in Seq(Load) /\ Len([load EXCEPT ![l] = e]) = Len(load)
      /\ \A k \in 1 .. Len(load) : [load EXCEPT ![l] = e][k] = IF k = l THEN e ELSE load[k]
  BY <1>1, ExceptSeq
<1> QED BY <1>1, <1>2 DEF Spawned

LEMMA LoadType == ReportTypeOK => /\ \A l \in Spawned : load[l] \in Load /\ l \in Loads
                            /\ Len(load) \in Nat
  BY Sizes, ElementOfSeq, LenProperties DEF ReportTypeOK, Spawned

Stages == {"spawned", "filled", "ready", "asleep", "gone"}

(* The steps of an instance, and the stop that ends them all.               *)
LEMMA LoadSteps ==
    ASSUME ReportTypeOK, [ReportNext]_reportVars
    PROVE  \/ load' = load /\ used' = used /\ (running' = running \/ StartRouter)
           \/ \E m \in Served, p \in Ports : Spawn(m, p)
           \/ StopRouter
           \/ \E l \in Spawned : Fill(l) \/ BeReady(l) \/ Sleep(l) \/ Wake(l) \/ Exit(l)
  BY DEF ReportNext, reportVars, routerVars, StartRouter, Edit, AddSpawn, NoteSpawn, AddBuffers, AddReady,
         Collect, Deliver, RecordCounters, GiveUp

(* What the step of an instance does to it.                                *)
Steps(l, before, after) ==
    /\ load[l].stage \in before /\ load'[l].stage = after
    /\ after = "asleep" => load'[l].slept
    /\ after \in {"filled", "ready", "gone"} => load'[l].slept = load[l].slept

LEMMA StageStep ==
    ASSUME ReportTypeOK, NEW l \in Spawned, Fill(l) \/ BeReady(l) \/ Sleep(l) \/ Wake(l) \/ Exit(l)
    PROVE  /\ load' \in Seq(Load) /\ Len(load') = Len(load) /\ Spawned' = Spawned
           /\ \A k \in Spawned : k # l => load'[k] = load[k]
           /\ load'[l].model = load[l].model /\ load'[l].port = load[l].port
           /\ load'[l].cfg = load[l].cfg
           /\ \/ Fill(l) /\ Steps(l, {"spawned"}, "filled")
              \/ BeReady(l) /\ Steps(l, {"filled"}, "ready")
              \/ Sleep(l) /\ Steps(l, {"ready"}, "asleep")
              \/ Wake(l) /\ Steps(l, {"asleep"}, "ready")
              \/ Exit(l) /\ Steps(l, Stages \ {"gone"}, "gone")
<1>1. load[l] \in Load /\ load \in Seq(Load)
  BY LoadType DEF ReportTypeOK
<1> DEFINE Became(s, b) == load' = [load EXCEPT ![l] = [load[l] EXCEPT !.stage = s, !.slept = b]]
<1>2. ASSUME NEW s \in Stages, NEW b \in BOOLEAN, Became(s, b)
      PROVE  /\ load' \in Seq(Load) /\ Len(load') = Len(load) /\ Spawned' = Spawned
             /\ \A k \in Spawned : k # l => load'[k] = load[k]
             /\ load'[l].model = load[l].model /\ load'[l].port = load[l].port
             /\ load'[l].cfg = load[l].cfg /\ load'[l].stage = s /\ load'[l].slept = b
  <2> DEFINE e == [load[l] EXCEPT !.stage = s, !.slept = b]
  <2>1. e \in Load /\ e.stage = s /\ e.slept = b /\ e.model = load[l].model
        /\ e.port = load[l].port /\ e.cfg = load[l].cfg
    BY <1>1 DEF Load, Stages
  <2> HIDE DEF e
  <2>2. load' = [load EXCEPT ![l] = e]
    BY <1>2 DEF e
  <2> QED BY <2>1, <2>2, Staged
<1>3. ASSUME NEW s, load' = [load EXCEPT ![l].stage = s]
      PROVE  Became(s, load[l].slept) /\ load[l].slept \in BOOLEAN
  BY <1>1, <1>3 DEF Load
<1> HIDE DEF Became
<1>4. CASE Fill(l)
  <2>1. load' = [load EXCEPT ![l].stage = "filled"] /\ load[l].stage = "spawned"
    BY <1>4 DEF Fill
  <2> QED BY <1>2, <1>3, <1>4, <2>1 DEF Stages, Steps
<1>5. CASE BeReady(l)
  <2>1. load' = [load EXCEPT ![l].stage = "ready"] /\ load[l].stage = "filled"
    BY <1>5 DEF BeReady
  <2> QED BY <1>2, <1>3, <1>5, <2>1 DEF Stages, Steps
<1>6. CASE Sleep(l)
  <2>1. load' = [load EXCEPT ![l].stage = "asleep", ![l].slept = TRUE] /\ load[l].stage = "ready"
    BY <1>6 DEF Sleep
  <2>2. Became("asleep", TRUE)
    BY <1>1, <2>1 DEF Became, Load
  <2> QED BY <1>2, <1>6, <2>1, <2>2 DEF Stages, Steps
<1>7. CASE Wake(l)
  <2>1. load' = [load EXCEPT ![l].stage = "ready"] /\ load[l].stage = "asleep"
    BY <1>7 DEF Wake
  <2> QED BY <1>2, <1>3, <1>7, <2>1 DEF Stages, Steps
<1>8. CASE Exit(l)
  <2>1. load' = [load EXCEPT ![l].stage = "gone"] /\ load[l].stage # "gone"
    BY <1>8 DEF Exit, Live
  <2>2. load[l].stage \in Stages \ {"gone"}
    BY <1>1, <2>1 DEF Load, Stages
  <2> QED BY <1>2, <1>3, <1>8, <2>1, <2>2 DEF Stages, Steps
<1> QED BY <1>4, <1>5, <1>6, <1>7, <1>8

LEMMA StopStep ==
    ASSUME ReportTypeOK, StopRouter
    PROVE  /\ load' \in Seq(Load) /\ Len(load') = Len(load) /\ Spawned' = Spawned
           /\ \A k \in Spawned : /\ load'[k].model = load[k].model /\ load'[k].port = load[k].port
                                 /\ load'[k].cfg = load[k].cfg /\ load'[k].slept = load[k].slept
                                 /\ load'[k].stage = "gone"
<1> DEFINE n == Len(load)
           Gone(k) == [load[k] EXCEPT !.stage = "gone"]
<1>1. n \in Nat /\ load' = [k \in 1 .. n |-> Gone(k)]
  BY LoadType DEF StopRouter, Spawned
<1>2. \A k \in 1 .. n : /\ Gone(k) \in Load /\ Gone(k).model = load[k].model
                        /\ Gone(k).port = load[k].port /\ Gone(k).cfg = load[k].cfg
                        /\ Gone(k).slept = load[k].slept /\ Gone(k).stage = "gone"
  BY LoadType DEF Load, Spawned
<1> HIDE DEF Gone
<1>3. load' \in [1 .. n -> Load]
  BY <1>1, <1>2
<1>4. load' \in Seq(Load) /\ Len(load') = n
  BY <1>1, <1>3, LenProperties
<1>5. \A k \in 1 .. n : load'[k] = Gone(k)
  BY <1>1
<1> QED BY <1>2, <1>4, <1>5 DEF Spawned

LEMMA SpawnStep ==
    ASSUME ReportTypeOK, NEW m \in Served, NEW p \in Ports, Spawn(m, p)
    PROVE  /\ load' \in Seq(Load) /\ Len(load') = Len(load) + 1 /\ Len(load') <= MaxLoads
           /\ Len(load) + 1 \in Loads
           /\ Spawned' = Spawned \union {Len(load) + 1} /\ Len(load) + 1 \notin Spawned
           /\ \A k \in Spawned : load'[k] = load[k] /\ k < Len(load) + 1
           /\ load'[Len(load) + 1] = [model |-> m, port |-> p, cfg |-> running[m],
                                      stage |-> "spawned", slept |-> FALSE]
<1> DEFINE e == [model |-> m, port |-> p, cfg |-> running[m], stage |-> "spawned", slept |-> FALSE]
<1>1. running # Nothing /\ running[m] \in Launchable /\ Len(load) < MaxLoads
  BY DEF Spawn, ReportTypeOK
<1>2. e \in Load
  BY <1>1 DEF Load
<1> HIDE DEF e
<1>3. load' = Append(load, e) /\ load \in Seq(Load) /\ Len(load) \in Nat
  BY LoadType DEF Spawn, e, ReportTypeOK
<1>4. /\ load' \in Seq(Load) /\ Len(load') = Len(load) + 1
      /\ \A k \in 1 .. Len(load) : load'[k] = load[k]
      /\ load'[Len(load) + 1] = e
  BY <1>2, <1>3, AppendProperties
<1> QED BY <1>1, <1>3, <1>4, Sizes DEF Spawned, e
(* What is spawned keeps its model, port and config, and once gone is gone. *)
Kept(l) ==
    /\ l \in Spawned'
    /\ load'[l].model = load[l].model /\ load'[l].port = load[l].port
    /\ load'[l].cfg = load[l].cfg
    /\ Live(l)' => Live(l)
    /\ ~load'[l].slept => ~load[l].slept

LEMMA KeptStep ==
    ASSUME ReportTypeOK, [ReportNext]_reportVars
    PROVE  \A l \in Spawned : Kept(l)
<1>1. CASE load' = load
  BY <1>1 DEF Kept, Spawned, Live
<1>2. CASE StopRouter
  BY <1>2, StopStep DEF Kept, Live
<1>3. ASSUME NEW m \in Served, NEW p \in Ports, Spawn(m, p)
      PROVE  \A l \in Spawned : Kept(l)
  BY <1>3, SpawnStep DEF Kept, Live
<1>4. ASSUME NEW k \in Spawned, Fill(k) \/ BeReady(k) \/ Sleep(k) \/ Wake(k) \/ Exit(k),
             NEW l \in Spawned
      PROVE  Kept(l)
  <2>1. CASE l = k
    BY <1>4, <2>1, StageStep, LoadType DEF Kept, Live, Steps, Load
  <2>2. CASE l # k
    BY <1>4, <2>2, StageStep DEF Kept, Live
  <2> QED BY <2>1, <2>2
<1> QED BY <1>1, <1>2, <1>3, <1>4, LoadSteps

----------------------------------------------------------------------------
(* Types.                                                                  *)

LEMMA TypeInit == ReportInit => ReportTypeOK
<1> SUFFICES ASSUME ReportInit PROVE ReportTypeOK
  OBVIOUS
<1>1. saved \in [Served -> Launchable]
  BY DEF ReportInit, Uniform
<1>2. load \in Seq(Load) /\ Len(load) = 0 /\ log \in Seq(Lines)
  BY EmptySeq DEF ReportInit
<1> QED BY <1>1, <1>2, Sizes DEF ReportInit, ReportTypeOK

LEMMA NoneNotMeasured == Nothing \notin Measured
  BY NothingAssumption

LEMMA NoteType == NoNote \in Note
  BY DEF NoNote, Note

(* Annotate replaces the note of one record.                               *)
LEMMA Annotated ==
    ASSUME ReportTypeOK, Collected, NEW p \in Ports, NEW note \in Note, Annotate(p, note)
    PROVE  /\ rec' \in [Loads -> Measured \union {Nothing}]
           /\ \A l \in Loads :
                /\ Recorded(l)' <=> Recorded(l)
                /\ l # byPort[p] => rec'[l] = rec[l]
                /\ Recorded(l) => rec'[l].ready = rec[l].ready /\ rec'[l].buffers = rec[l].buffers
           /\ byPort[p] # 0 => rec'[byPort[p]].note = note
<1>1. CASE byPort[p] = 0
  BY <1>1 DEF Annotate, ReportTypeOK, Recorded
<1>2. CASE byPort[p] # 0
  <2> DEFINE r == byPort[p]
             e == [rec[r] EXCEPT !.note = note]
  <2>1. r \in Loads /\ rec[r] \in Measured
    BY <1>2 DEF ReportTypeOK, Collected, Recorded
  <2>2. rec' = [rec EXCEPT ![r] = e]
    BY <1>2 DEF Annotate
  <2>3. e \in Measured /\ e.note = note /\ e.ready = rec[r].ready /\ e.buffers = rec[r].buffers
    BY <2>1 DEF Measured
  <2> HIDE DEF e
  <2> QED BY <2>1, <2>2, <2>3, NothingAssumption DEF ReportTypeOK, Recorded
<1> QED BY <1>1, <1>2

LEMMA RecType ==
    ASSUME ReportTypeOK, NEW l \in Loads, Recorded(l)
    PROVE  /\ rec[l] \in Measured /\ rec[l].note \in Note /\ rec[l].buffers \subseteq Loads
  BY DEF ReportTypeOK, Recorded, Measured

(* Fill, BeReady and Wake publish a line of their load.                     *)
LEMMA TypeLoads ==
    ASSUME ReportTypeOK, [ReportNext]_reportVars
    PROVE  load' \in Seq(Load) /\ Len(load') <= MaxLoads /\ Spawned \subseteq Spawned'
<1>1. ASSUME NEW m \in Served, NEW p \in Ports, Spawn(m, p)
      PROVE  load' \in Seq(Load) /\ Len(load') <= MaxLoads /\ Spawned \subseteq Spawned'
  BY <1>1, SpawnStep
<1>2. ASSUME NEW l \in Spawned, Fill(l) \/ BeReady(l) \/ Sleep(l) \/ Wake(l) \/ Exit(l)
      PROVE  load' \in Seq(Load) /\ Len(load') <= MaxLoads /\ Spawned \subseteq Spawned'
  BY <1>2, StageStep DEF ReportTypeOK
<1>3. CASE StopRouter
  BY <1>3, StopStep DEF ReportTypeOK
<1> QED BY <1>1, <1>2, <1>3, LoadSteps DEF ReportTypeOK, Spawned

(* Who publishes what.                                                     *)
LEMMA LogSteps ==
    ASSUME ReportTypeOK, [ReportNext]_reportVars
    PROVE  \/ log' = log /\ lost' = lost
           \/ \E m \in Served, p \in Ports : Spawn(m, p) /\ Publish("spawn", Len(load) + 1)
           \/ \E l \in Spawned : Fill(l) /\ Publish("buffers", l)
           \/ \E l \in Spawned : (BeReady(l) \/ Wake(l)) /\ Publish("ready", l)
           \/ \E kind \in Kinds : Reading(kind) /\ lost' = lost
                                  /\ (AddSpawn \/ AddBuffers \/ AddReady)
  BY DEF ReportNext, reportVars, routerVars, logVars, collectorVars, watchVars, StartRouter, StopRouter, Edit,
         Spawn, Fill, BeReady, Sleep, Wake, Exit, AddSpawn, NoteSpawn, AddBuffers, AddReady,
         Collect, Deliver, RecordCounters, GiveUp, Kinds

LEMMA TypeLog ==
    ASSUME ReportTypeOK, [ReportNext]_reportVars
    PROVE  log' \in Seq(Lines) /\ lost' \subseteq Spawned'
<1>1. CASE log' = log /\ lost' = lost
  BY <1>1, TypeLoads DEF ReportTypeOK
<1>2. ASSUME NEW m \in Served, NEW p \in Ports, Spawn(m, p), Publish("spawn", Len(load) + 1)
      PROVE  log' \in Seq(Lines) /\ lost' \subseteq Spawned'
  BY <1>2, SpawnStep, Published DEF ReportTypeOK, Kinds
<1>3. ASSUME NEW l \in Spawned, NEW kind \in Kinds \ {"spawn"}, Publish(kind, l)
      PROVE  log' \in Seq(Lines) /\ lost' \subseteq Spawned'
  BY <1>3, TypeLoads, LoadType, Published DEF ReportTypeOK
<1>4. ASSUME NEW kind \in Kinds, Reading(kind), lost' = lost
      PROVE  log' \in Seq(Lines) /\ lost' \subseteq Spawned'
  BY <1>4, TypeLoads, Taken DEF ReportTypeOK
<1> QED BY <1>1, <1>2, <1>3, <1>4, LogSteps DEF Kinds
(* The line the watcher takes.                                              *)
LEMMA LineType ==
    ASSUME ReportTypeOK, Ordered, NEW kind, Reading(kind)
    PROVE  Line.load \in Spawned /\ Line.load \in Loads /\ load[Line.load] \in Load
           /\ Port(Line.load) \in Ports
  BY Taken, LoadType DEF ReportTypeOK, Ordered, Port, Load

(* The steps that change the collector's records.                          *)
LEMMA RecSteps ==
    ASSUME ReportTypeOK, [ReportNext]_reportVars
    PROVE  \/ rec' = rec
           \/ AddSpawn \/ NoteSpawn \/ AddBuffers \/ AddReady
           \/ \E g \in recorders : RecordCounters(g)
  BY DEF ReportNext, reportVars, routerVars, logVars, collectorVars, watchVars, StartRouter, StopRouter, Edit,
         Spawn, Fill, BeReady, Sleep, Wake, Exit, Collect, Deliver, GiveUp

LEMMA NoteSpawnNote ==
    ASSUME ReportInv, NoteSpawn
    PROVE  /\ spawned \in Spawned /\ spawned \in Loads /\ Port(spawned) \in Ports /\ spawned' = 0
           /\ \E note \in Note :
                /\ Annotate(Port(spawned), note)
                /\ note.cfg = LaunchConfig(load[spawned].model)
                /\ note.loaded = Nothing /\ note.contended = Contended
<1>1. spawned # 0 /\ spawned \in Spawned /\ spawned \in Loads /\ load[spawned] \in Load
  BY LoadType DEF NoteSpawn, ReportInv, Opened, ReportTypeOK, Collected
<1> DEFINE m == load[spawned].model
           note == [model |-> m, cfg |-> LaunchConfig(m), loaded |-> Nothing, contended |-> Contended]
<1>2. m \in Served /\ LaunchConfig(m) \in Launchable
  BY <1>1 DEF Load, LaunchConfig, ReportInv, ReportTypeOK
<1>3. Contended \in BOOLEAN
  BY DEF Contended
<1>4. note \in Note
  BY <1>2, <1>3 DEF Note
<1>5. Annotate(Port(spawned), note) /\ spawned' = 0
  BY DEF NoteSpawn, Port
<1> QED BY <1>1, <1>4, <1>5 DEF Load, Port

LEMMA RecordNote ==
    ASSUME ReportInv, NEW g \in recorders, RecordCounters(g)
    PROVE  /\ g \in Recorder /\ g.pc = "got"
           /\ \/ rec' = rec
              \/ \E r \in Loads, note \in Note :
                    /\ r = byModel[g.model] /\ Recorded(r) /\ Port(r) = g.port /\ r \in Spawned
                    /\ Annotate(g.port, note)
                    /\ note.cfg = rec[r].note.cfg /\ note.loaded = g.seen
                    /\ InFlight # {} => note.contended
<1> DEFINE r == byModel[g.model]
           note == [rec[r].note EXCEPT !.loaded = g.seen, !.contended = @ \/ InFlight # {}]
<1>1. g \in Recorder /\ g.pc = "got"
  BY DEF RecordCounters, ReportInv, ReportTypeOK
<1>2. CASE r = 0 \/ load[r].port # g.port
  BY <1>1, <1>2 DEF RecordCounters
<1>3. CASE ~(r = 0 \/ load[r].port # g.port)
  <2>1. /\ r \in Loads /\ r \in Spawned /\ Recorded(r) /\ Port(r) = g.port
        /\ Annotate(g.port, note)
    BY <1>1, <1>3 DEF RecordCounters, ReportInv, ReportTypeOK, Collected, Recorder, Port
  <2>2. rec[r].note \in Note /\ g.seen \in SUBSET Loads
    BY <1>1, <2>1, RecType DEF ReportInv, Recorder
  <2>3. (rec[r].note.contended \/ InFlight # {}) \in BOOLEAN
    OBVIOUS
  <2>4. /\ note \in Note /\ note.cfg = rec[r].note.cfg /\ note.loaded = g.seen
        /\ note.contended = (rec[r].note.contended \/ InFlight # {})
    BY <2>2, <2>3 DEF Note
  <2>5. InFlight # {} => note.contended
    BY <2>4
  <2> HIDE DEF r, note
  <2>6. r = byModel[g.model]
    BY DEF r
  <2> QED BY <1>1, <2>1, <2>4, <2>5, <2>6
<1> QED BY <1>2, <1>3

(* What each step of the watcher does to the records.                       *)
LEMMA AddSpawnStep ==
    ASSUME ReportInv, AddSpawn
    PROVE  /\ Line.load \in Spawned /\ Line.load \in Loads /\ Port(Line.load) \in Ports
           /\ spawned = 0 /\ spawned' = Line.load
           /\ rec' \in [Loads -> Measured \union {Nothing}]
           /\ rec'[Line.load] # Nothing /\ rec'[Line.load].ready = FALSE /\ rec'[Line.load].buffers = {}
           /\ rec'[Line.load].note = NoNote
           /\ \A l \in Loads : l # Line.load => rec'[l] = rec[l]
           /\ byPort' = [byPort EXCEPT ![Port(Line.load)] = Line.load]
           /\ byModel' = [byModel EXCEPT ![load[Line.load].model] = Line.load]
           /\ load[Line.load].model \in Served /\ load' = load
<1>1. Reading("spawn") /\ load' = load
  BY DEF AddSpawn, routerVars
<1>2. Line.load \in Spawned /\ Line.load \in Loads /\ load[Line.load] \in Load
  BY <1>1, LineType DEF ReportInv
<1> DEFINE e == [ready |-> FALSE, note |-> NoNote, buffers |-> {}]
<1>3. e \in Measured /\ e.ready = FALSE /\ e.note = NoNote /\ e.buffers = {}
  BY NoteType DEF Measured
<1>4. rec' = [rec EXCEPT ![Line.load] = e]
  BY DEF AddSpawn
<1> HIDE DEF e
<1>5. /\ rec' \in [Loads -> Measured \union {Nothing}] /\ rec'[Line.load] = e
      /\ \A l \in Loads : l # Line.load => rec'[l] = rec[l]
  BY <1>2, <1>3, <1>4 DEF ReportInv, ReportTypeOK
<1>6. rec'[Line.load] # Nothing
  BY <1>3, <1>5, NoneNotMeasured
<1> QED BY <1>1, <1>2, <1>3, <1>5, <1>6 DEF AddSpawn, Attributed, Port, Load, Reading

LEMMA AddBuffersStep ==
    ASSUME ReportInv, AddBuffers
    PROVE  LET l == Line.load  r == byPort[Port(l)]
           IN  /\ l \in Spawned /\ l \in Loads /\ Port(l) \in Ports /\ spawned = 0 /\ load' = load
               /\ rec' \in [Loads -> Measured \union {Nothing}]
               /\ \A k \in Loads : k # r => rec'[k] = rec[k]
               /\ r # 0 => /\ r \in Loads /\ Recorded(r) /\ rec'[r] # Nothing
                           /\ rec'[r].ready = rec[r].ready /\ rec'[r].note = rec[r].note
                           /\ rec'[r].buffers = rec[r].buffers \union {l}
<1> DEFINE l == Line.load
           r == byPort[Port(l)]
<1>1. Reading("buffers") /\ load' = load
  BY DEF AddBuffers, routerVars
<1>2. l \in Spawned /\ l \in Loads /\ Port(l) \in Ports /\ spawned = 0
  BY <1>1, LineType DEF ReportInv, Reading
<1>3. CASE r = 0
  BY <1>1, <1>2, <1>3 DEF AddBuffers, ReportInv, ReportTypeOK, Port
<1>4. CASE r # 0
  <2> DEFINE e == [rec[r] EXCEPT !.buffers = @ \union {l}]
  <2>1. r \in Loads /\ Recorded(r)
    BY <1>2, <1>4 DEF ReportInv, ReportTypeOK, Collected
  <2>2. rec[r] \in Measured
    BY <2>1, RecType DEF ReportInv
  <2>3. /\ e \in Measured /\ e.ready = rec[r].ready /\ e.note = rec[r].note
        /\ e.buffers = rec[r].buffers \union {l}
    BY <1>2, <2>2 DEF Measured
  <2>4. rec' = [rec EXCEPT ![r] = e]
    BY <1>4 DEF AddBuffers, Port
  <2> HIDE DEF e
  <2>5. /\ rec' \in [Loads -> Measured \union {Nothing}] /\ rec'[r] = e
        /\ \A k \in Loads : k # r => rec'[k] = rec[k]
    BY <2>1, <2>3, <2>4 DEF ReportInv, ReportTypeOK
  <2>6. rec'[r] # Nothing
    BY <2>1, <2>3, <2>5, NoneNotMeasured
  <2> HIDE DEF l, r
  <2>7. l = Line.load /\ r = byPort[Port(l)]
    BY DEF l, r
  <2> QED BY <1>1, <1>2, <1>4, <2>1, <2>3, <2>5, <2>6, <2>7
<1> QED BY <1>3, <1>4

LEMMA AddReadyStep ==
    ASSUME ReportInv, AddReady
    PROVE  LET l == Line.load  r == byPort[Port(l)]
           IN  /\ l \in Spawned /\ l \in Loads /\ Port(l) \in Ports /\ spawned = 0 /\ load' = load
               /\ rec' \in [Loads -> Measured \union {Nothing}]
               /\ \A k \in Loads : k # r => rec'[k] = rec[k]
               /\ sample' = sample /\ midway \subseteq midway' /\ midway' \subseteq Loads
               /\ r = 0 => recorders' = recorders
               /\ r # 0 => /\ sample = Nothing \/ r \in sample \/ r \in midway'
                           /\ r \in Loads /\ r \in Spawned /\ Recorded(r) /\ rec'[r] # Nothing
                           /\ rec'[r].ready = TRUE /\ rec'[r].note = rec[r].note
                           /\ rec'[r].buffers = rec[r].buffers
                           /\ recorders' = recorders \union {[model |-> load[r].model,
                                  port |-> Port(l), pc |-> "wait", seen |-> {}]}
                           /\ load[r].model \in Served
<1> DEFINE l == Line.load
           r == byPort[Port(l)]
<1>1. Reading("ready") /\ load' = load /\ sample' = sample
  BY DEF AddReady, routerVars
<1>2. l \in Spawned /\ l \in Loads /\ Port(l) \in Ports /\ spawned = 0
  BY <1>1, LineType DEF ReportInv, Reading
<1>3. CASE r = 0
  BY <1>1, <1>2, <1>3 DEF AddReady, ReportInv, ReportTypeOK, Port
<1>4. CASE r # 0
  <2> DEFINE e == [rec[r] EXCEPT !.ready = TRUE]
  <2>1. r \in Loads /\ Recorded(r) /\ r \in Spawned
    BY <1>2, <1>4 DEF ReportInv, ReportTypeOK, Collected
  <2>2. rec[r] \in Measured /\ load[r].model \in Served
    BY <2>1, RecType, LoadType DEF ReportInv, Load
  <2>3. /\ e \in Measured /\ e.ready = TRUE /\ e.note = rec[r].note
        /\ e.buffers = rec[r].buffers
    BY <2>2 DEF Measured
  <2>4. /\ rec' = [rec EXCEPT ![r] = e]
        /\ recorders' = recorders \union {[model |-> load[r].model,
                                  port |-> Port(l), pc |-> "wait", seen |-> {}]}
        /\ midway' = midway \union {k \in {r} : sample # Nothing /\ k \notin sample}
    BY <1>4 DEF AddReady, Port
  <2> HIDE DEF e
  <2>5. /\ rec' \in [Loads -> Measured \union {Nothing}] /\ rec'[r] = e
        /\ \A k \in Loads : k # r => rec'[k] = rec[k]
    BY <2>1, <2>3, <2>4 DEF ReportInv, ReportTypeOK
  <2>6. rec'[r] # Nothing
    BY <2>1, <2>3, <2>5, NoneNotMeasured
  <2>8. /\ midway \subseteq midway' /\ midway' \subseteq Loads
        /\ sample = Nothing \/ r \in sample \/ r \in midway'
    BY <2>1, <2>4 DEF ReportInv, ReportTypeOK
  <2> HIDE DEF l, r
  <2>7. l = Line.load /\ r = byPort[Port(l)]
    BY DEF l, r
  <2> QED BY <1>1, <1>2, <1>4, <2>1, <2>2, <2>3, <2>4, <2>5, <2>6, <2>7, <2>8
<1> QED BY <1>3, <1>4
LEMMA TypeRec ==
    ASSUME ReportInv, [ReportNext]_reportVars
    PROVE  rec' \in [Loads -> Measured \union {Nothing}]
<1>1. CASE rec' = rec
  BY <1>1 DEF ReportInv, ReportTypeOK
<1>2. CASE AddSpawn \/ AddBuffers \/ AddReady
  BY <1>2, AddSpawnStep, AddBuffersStep, AddReadyStep
<1>3. CASE NoteSpawn
  BY <1>3, NoteSpawnNote, Annotated DEF ReportInv
<1>4. ASSUME NEW g \in recorders, RecordCounters(g)
      PROVE  rec' \in [Loads -> Measured \union {Nothing}]
  BY <1>4, RecordNote, Annotated DEF ReportInv, Recorder, ReportTypeOK
<1> QED BY <1>1, <1>2, <1>3, <1>4, RecSteps DEF ReportInv

LEMMA TypeStep ==
    ASSUME ReportInv, [ReportNext]_reportVars
    PROVE  ReportTypeOK'
<1> USE DEF ReportInv, ReportTypeOK
<1>1. saved' \in [Served -> Launchable] /\ running' \in [Served -> Launchable] \union {Nothing}
  BY ZenonT(60) DEF ReportNext, reportVars, routerVars, StartRouter, StopRouter, Edit, Spawn, Fill, BeReady, Sleep, Wake,
         Exit, AddSpawn, NoteSpawn, AddBuffers, AddReady, Collect, Deliver, RecordCounters, GiveUp, Uniform
<1>2. used' \subseteq Spawned'
  <2>1. \/ used' \subseteq used
        \/ \E l \in Spawned : used' = used \union {l}
    BY DEF ReportNext, reportVars, routerVars, StartRouter, StopRouter, Edit, Spawn, Fill, BeReady, Sleep, Wake,
           Exit, AddSpawn, NoteSpawn, AddBuffers, AddReady, Collect, Deliver, RecordCounters, GiveUp
  <2> QED BY <2>1, TypeLoads
<1>3. sample' \in (SUBSET Spawned') \union {Nothing} /\ midway' \subseteq Loads
  <2>1. sample' \in {sample, used, Nothing} /\ (midway' = midway \/ AddReady)
    BY DEF ReportNext, reportVars, watchVars, StartRouter, StopRouter, Edit, Spawn, Fill, BeReady, Sleep, Wake,
           Exit, AddSpawn, NoteSpawn, AddBuffers, AddReady, Collect, Deliver, RecordCounters, GiveUp
  <2>2. AddReady => midway' \subseteq Loads
    BY AddReadyStep
  <2> QED BY <2>1, <2>2, TypeLoads
<1>4. /\ byPort' \in [Ports -> Loads \union {0}] /\ byModel' \in [Served -> Loads \union {0}]
      /\ spawned' \in Loads \union {0}
  <2>1. CASE AddSpawn
    BY <2>1, AddSpawnStep
  <2>2. CASE ~AddSpawn
    <3>1. /\ byPort' = byPort \/ byPort' = [p \in Ports |-> 0]
          /\ byModel' = byModel /\ spawned' \in {spawned, 0}
      BY <2>2 DEF ReportNext, reportVars, collectorVars, watchVars, StartRouter, StopRouter, Edit, Spawn, Fill,
           BeReady, Sleep, Wake, Exit, AddSpawn, NoteSpawn, AddBuffers, AddReady, Collect, Deliver,
           RecordCounters, GiveUp, Reset
    <3> QED BY <3>1
  <2> QED BY <2>1, <2>2
<1>5. recorders' \subseteq Recorder
  <2>1. CASE AddReady
    <3>1. \/ recorders' = recorders
          \/ \E m \in Served, p \in Ports :
                recorders' = recorders \union {[model |-> m, port |-> p, pc |-> "wait", seen |-> {}]}
      BY <2>1, AddReadyStep
    <3> QED BY <3>1 DEF Recorder
  <2>2. CASE Deliver
    <3>1. recorders' = {IF g.pc = "wait" THEN Delivered(g) ELSE g : g \in recorders}
      BY <2>2 DEF Deliver
    <3>2. sample \subseteq Loads
      BY <2>2, LoadType DEF Deliver
    <3>3. \A g \in recorders : Delivered(g) \in Recorder
      BY <3>2 DEF Delivered, Recorder
    <3> QED BY <3>1, <3>3
  <2>3. CASE ~AddReady /\ ~Deliver
    <3>1. recorders' \subseteq recorders
      BY <2>3 DEF ReportNext, reportVars, watchVars, StartRouter, StopRouter, Edit, Spawn, Fill,
           BeReady, Sleep, Wake, Exit, AddSpawn, NoteSpawn, AddBuffers, Collect, RecordCounters, GiveUp
    <3> QED BY <3>1
  <2> QED BY <2>1, <2>2, <2>3
<1> QED BY <1>1, <1>2, <1>3, <1>4, <1>5, TypeLoads, TypeLog, TypeRec

----------------------------------------------------------------------------
(* The instances.                                                          *)

LEMMA InstancesStep ==
    ASSUME ReportInv, [ReportNext]_reportVars
    PROVE  Instances'
<1> USE DEF ReportInv
<1>1. CASE load' = load /\ used' = used /\ (running' = running \/ StartRouter)
  <2>1. running' = running \/ running = Nothing
    BY <1>1 DEF StartRouter
  <2> QED BY <1>1, <2>1 DEF Instances, Spawned, Live, Port
<1>2. CASE StopRouter
  BY <1>2, StopStep DEF Instances, Live
<1>3. ASSUME NEW m \in Served, NEW p \in Ports, Spawn(m, p)
      PROVE  Instances'
  <2>1. /\ running' = running /\ used' = used /\ running # Nothing
        /\ \A l \in Spawned : Live(l) => Port(l) # p
    BY <1>3 DEF Spawn, Port
  <2> DEFINE n == Len(load) + 1
  <2>2. /\ Spawned' = Spawned \union {n} /\ n \notin Spawned
        /\ \A k \in Spawned : load'[k] = load[k] /\ k < n
        /\ load'[n].model = m /\ load'[n].port = p /\ load'[n].cfg = running[m]
        /\ load'[n].stage = "spawned"
    <3>1. load'[n] = [model |-> m, port |-> p, cfg |-> running[m],
                      stage |-> "spawned", slept |-> FALSE]
      BY <1>3, SpawnStep
    <3>2. /\ Spawned' = Spawned \union {n} /\ n \notin Spawned
          /\ \A k \in Spawned : load'[k] = load[k] /\ k < n
      BY <1>3, SpawnStep
    <3> HIDE DEF n
    <3> QED BY <3>1, <3>2
  <2> HIDE DEF n
  <2>3. n \in Nat /\ \A l \in Spawned : l \in Nat
    BY LoadType, Sizes DEF n, Spawned
  <2>4. ASSUME NEW l \in Spawned'
        PROVE  /\ Live(l)' => running' # Nothing /\ running'[load'[l].model] = load'[l].cfg
               /\ load'[l].stage \in {"filled", "ready"} => l \in used'
    BY <2>1, <2>2, <2>4 DEF Instances, Live
  <2>5. ASSUME NEW l \in Spawned', NEW k \in Spawned', Live(l)', k > l
        PROVE  Port(k)' # Port(l)'
    <3>1. l \in Spawned
      BY <2>2, <2>3, <2>5
    <3>2. Live(l)
      BY <2>2, <2>5, <3>1 DEF Live
    <3> QED BY <2>1, <2>2, <2>5, <3>1, <3>2 DEF Instances, Port
  <2> QED BY <2>4, <2>5 DEF Instances
<1>4. ASSUME NEW l \in Spawned, Fill(l) \/ BeReady(l) \/ Sleep(l) \/ Wake(l) \/ Exit(l)
      PROVE  Instances'
  <2>1. /\ running' = running
        /\ \A k \in used : k = l \/ k \in used'
        /\ Fill(l) \/ Wake(l) => l \in used'
        /\ BeReady(l) => used' = used
    BY <1>4 DEF Fill, BeReady, Sleep, Wake, Exit
  <2> QED BY <1>4, <2>1, StageStep DEF Instances, Live, Port, Steps
<1> QED BY <1>1, <1>2, <1>3, <1>4, LoadSteps
----------------------------------------------------------------------------
(* The collector.                                                          *)

(* Steps other than the watcher's leave the maps, or empty that of the ports. *)
LEMMA MapSteps ==
    ASSUME ReportTypeOK, [ReportNext]_reportVars
    PROVE  \/ AddSpawn
           \/ byModel' = byModel /\ byPort' = byPort
           \/ StartRouter /\ byModel' = byModel /\ byPort' = [p \in Ports |-> 0]
  BY DEF ReportNext, reportVars, collectorVars, StartRouter, StopRouter, Edit, Spawn, Fill, BeReady, Sleep, Wake,
         Exit, AddSpawn, NoteSpawn, AddBuffers, AddReady, Collect, Deliver, RecordCounters, GiveUp, Reset

(* Only a spawn line opens a record.                                        *)
LEMMA RecordedStep ==
    ASSUME ReportInv, [ReportNext]_reportVars
    PROVE  \A l \in Loads : \/ Recorded(l)' <=> Recorded(l)
                            \/ AddSpawn /\ l = Line.load /\ Recorded(l)'
<1>1. CASE AddSpawn
  BY <1>1, AddSpawnStep DEF Recorded
<1>2. CASE NoteSpawn
  BY <1>2, NoteSpawnNote, Annotated DEF ReportInv
<1>3. CASE AddBuffers
  <2> DEFINE r == byPort[Port(Line.load)]
  <2>1. /\ r # 0 => rec[r] # Nothing /\ rec'[r] # Nothing
        /\ \A l \in Loads : l # r => rec'[l] = rec[l]
    BY <1>3, AddBuffersStep DEF Recorded
  <2>2. 0 \notin Loads
    BY Sizes
  <2> HIDE DEF r
  <2> QED BY <2>1, <2>2 DEF Recorded
<1>4. CASE AddReady
  <2> DEFINE r == byPort[Port(Line.load)]
  <2>1. /\ r # 0 => rec[r] # Nothing /\ rec'[r] # Nothing
        /\ \A l \in Loads : l # r => rec'[l] = rec[l]
    BY <1>4, AddReadyStep DEF Recorded
  <2>2. 0 \notin Loads
    BY Sizes
  <2> HIDE DEF r
  <2> QED BY <2>1, <2>2 DEF Recorded
<1>5. ASSUME NEW g \in recorders, RecordCounters(g), NEW l \in Loads
      PROVE  Recorded(l)' <=> Recorded(l)
  <2>1. CASE rec' = rec
    BY <2>1 DEF Recorded
  <2>2. ASSUME NEW note \in Note, Annotate(g.port, note)
        PROVE  Recorded(l)' <=> Recorded(l)
    BY <1>5, <2>2, RecordNote, Annotated DEF ReportInv, Recorder
  <2> QED BY <1>5, <2>1, <2>2, RecordNote
<1>6. CASE rec' = rec
  BY <1>6 DEF Recorded
<1> QED BY <1>1, <1>2, <1>3, <1>4, <1>5, <1>6, RecSteps DEF ReportInv

LEMMA CollectedStep ==
    ASSUME ReportInv, [ReportNext]_reportVars
    PROVE  Collected'
<1> USE DEF ReportInv
<1>1. \A l \in Spawned : Kept(l) /\ l \in Loads /\ l \in Nat
  BY KeptStep, LoadType, Sizes DEF Spawned
<1>2. CASE ~AddSpawn
  <2>1. \A l \in Loads : Recorded(l)' <=> Recorded(l)
    BY <1>2, RecordedStep
  <2>2. byModel' = byModel /\ (byPort' = byPort \/ byPort' = [p \in Ports |-> 0])
    BY <1>2, MapSteps
  <2>3. \A l \in Loads : Recorded(l)' => Port(l) \in Ports /\ Port(l)' = Port(l)
    BY <1>1, <2>1, LoadType DEF Collected, Port, Kept, Load
  <2>4. byPort \in [Ports -> Loads \union {0}] /\ byModel \in [Served -> Loads \union {0}]
    BY DEF ReportTypeOK
  <2>5. \A l \in Loads : Recorded(l)' =>
            l \in Spawned' /\ (byPort'[Port(l)'] = 0 \/ byPort'[Port(l)'] >= l)
    BY <1>1, <2>1, <2>2, <2>3 DEF Collected, Kept
  <2>6. \A p \in Ports : byPort'[p] # 0 =>
            /\ byPort'[p] \in Spawned' /\ rec'[byPort'[p]] # Nothing
            /\ load'[byPort'[p]].port = p
    <3> TAKE p \in Ports
    <3> HAVE byPort'[p] # 0
    <3>1. byPort'[p] = byPort[p] /\ byPort[p] \in Loads
      BY <2>2, <2>4
    <3> QED BY <1>1, <2>1, <2>2, <3>1 DEF Collected, Kept, Port, Recorded
  <2>7. \A m \in Served : byModel'[m] # 0 =>
            /\ byModel'[m] \in Spawned' /\ rec'[byModel'[m]] # Nothing
            /\ load'[byModel'[m]].model = m
    BY <1>1, <2>1, <2>2, <2>4 DEF Collected, Kept, Recorded
  <2> QED BY <2>5, <2>6, <2>7 DEF Collected, Recorded, Port
<1>3. CASE AddSpawn
  <2> DEFINE n == Line.load
  <2>1. /\ n \in Spawned /\ n \in Loads /\ Port(n) \in Ports /\ load' = load
        /\ byPort' = [byPort EXCEPT ![Port(n)] = n]
        /\ byModel' = [byModel EXCEPT ![load[n].model] = n] /\ load[n].model \in Served
        /\ rec'[n] # Nothing /\ \A l \in Loads : l # n => rec'[l] = rec[l]
    BY <1>3, AddSpawnStep DEF Recorded
  <2>2. \A r \in Loads : Recorded(r) => r < n
    BY <1>3, Taken DEF AddSpawn, Pending, ReportTypeOK
  <2> HIDE DEF n
  <2> QED BY <1>1, <2>1, <2>2 DEF Collected, Recorded, Port, Spawned, ReportTypeOK
<1> QED BY <1>2, <1>3
LEMMA OpenedStep ==
    ASSUME ReportInv, [ReportNext]_reportVars
    PROVE  Opened'
<1> USE DEF ReportInv
<1>1. CASE AddSpawn
  <2> DEFINE n == Line.load
  <2>1. /\ n \in Loads /\ Port(n) \in Ports /\ spawned' = n /\ load' = load
        /\ byPort' = [byPort EXCEPT ![Port(n)] = n]
        /\ rec'[n] # Nothing /\ rec'[n].ready = FALSE /\ rec'[n].buffers = {}
    BY <1>1, AddSpawnStep
  <2> HIDE DEF n
  <2> QED BY <2>1 DEF Opened, Recorded, Port, Live, ReportTypeOK
<1>2. CASE spawned' = 0
  BY <1>2 DEF Opened
<1>3. CASE ~AddSpawn /\ spawned' # 0
  <2>1. spawned' = spawned /\ spawned # 0 /\ ~AddBuffers /\ ~AddReady /\ ~NoteSpawn
    BY <1>3 DEF ReportNext, reportVars, watchVars, StartRouter, StopRouter, Edit, Spawn, Fill,
           BeReady, Sleep, Wake, Exit, AddBuffers, AddReady, NoteSpawn, Reading, Collect, Deliver,
           RecordCounters, GiveUp
  <2>2. spawned \in Loads /\ spawned \in Spawned /\ Recorded(spawned)
    BY <2>1 DEF Opened, ReportTypeOK, Collected
  <2>3. /\ Recorded(spawned)' /\ rec'[spawned].ready = rec[spawned].ready
        /\ rec'[spawned].buffers = rec[spawned].buffers
    <3>1. CASE rec' = rec
      BY <2>1, <2>2, <3>1 DEF Recorded
    <3>2. ASSUME NEW g \in recorders, RecordCounters(g)
          PROVE  /\ rec'[spawned] # Nothing /\ rec'[spawned].ready = rec[spawned].ready
                 /\ rec'[spawned].buffers = rec[spawned].buffers
      <4>1. CASE rec' = rec
        BY <2>2, <4>1 DEF Recorded
      <4>2. ASSUME NEW note \in Note, Annotate(g.port, note)
            PROVE  /\ rec'[spawned] # Nothing /\ rec'[spawned].ready = rec[spawned].ready
                   /\ rec'[spawned].buffers = rec[spawned].buffers
        <5>1. g.port \in Ports
          BY <3>2, RecordNote DEF Recorder
        <5> QED BY <2>2, <4>2, <5>1, Annotated DEF Recorded
      <4> QED BY <3>2, <4>1, <4>2, RecordNote
    <3> QED BY <1>3, <2>1, <3>1, <3>2, RecSteps DEF Recorded
  <2>4. Kept(spawned) /\ Port(spawned) \in Ports
    BY <2>2, KeptStep, LoadType DEF Port, Load
  <2>5. CASE byPort' = byPort
    BY <2>1, <2>2, <2>3, <2>4, <2>5 DEF Opened, Kept, Port, Recorded, Live
  <2>6. CASE StartRouter /\ byPort' = [p \in Ports |-> 0]
    <3>1. load' = load /\ ~Live(spawned)
      BY <2>2, <2>6 DEF StartRouter, Instances
    <3> QED BY <2>1, <2>2, <2>3, <2>4, <2>6, <3>1 DEF Opened, Port, Recorded, Live
  <2> QED BY <1>3, <2>5, <2>6, MapSteps
<1> QED BY <1>1, <1>2, <1>3

----------------------------------------------------------------------------
(* The log.                                                                *)

LEMMA OrderedStep ==
    ASSUME ReportInv, [ReportNext]_reportVars
    PROVE  Ordered'
<1> USE DEF ReportInv
<1>1. /\ \A l \in Spawned : Kept(l) /\ l \in Nat /\ l < Len(load) + 1
      /\ Len(load) \in Nat /\ Len(log) \in Nat /\ log \in Seq(Lines)
  BY KeptStep, LoadType, LenProperties DEF Spawned, ReportTypeOK
<1>2. \A l \in Spawned : l \in Spawned' /\ Port(l)' = Port(l)
  BY <1>1 DEF Kept, Port
<1>3. CASE log' = log
  BY <1>1, <1>2, <1>3, SMTT(60) DEF Ordered, Logged, Port
<1>4. ASSUME NEW kind \in Kinds, Reading(kind)
      PROVE  Ordered'
  <2>1. /\ Len(log') = Len(log) - 1
        /\ \A i \in Logged' : i \in Nat /\ i + 1 \in Logged /\ log'[i] = log[i + 1]
    BY <1>1, <1>4, Taken DEF Logged
  <2>2. \A i \in Logged' : log'[i].load \in Spawned'
    BY <1>2, <2>1 DEF Ordered
  <2>3. ASSUME NEW i \in Logged', NEW j \in Logged', i < j, log'[j].kind = "spawn"
        PROVE  log'[i].load < log'[j].load
    <3>1. i + 1 \in Logged /\ j + 1 \in Logged /\ i + 1 < j + 1
      BY <2>1, <2>3
    <3> QED BY <2>1, <2>3, <3>1 DEF Ordered
  <2>4. ASSUME NEW i \in Logged', NEW j \in Logged', j < i,
               log'[i].kind = "buffers", log'[j].kind = "spawn",
               load'[log'[j].load].port = load'[log'[i].load].port
        PROVE  log'[j].load <= log'[i].load
    <3>1. i + 1 \in Logged /\ j + 1 \in Logged /\ j + 1 < i + 1
      BY <2>1, <2>4
    <3>2. log'[i].load \in Spawned /\ log'[j].load \in Spawned
      BY <2>1 DEF Ordered
    <3>3. Port(log[j + 1].load) = Port(log[i + 1].load)
      BY <1>2, <2>1, <2>4, <3>2 DEF Port
    <3> QED BY <2>1, <2>4, <3>1, <3>3 DEF Ordered
  <2> QED BY <2>2, <2>3, <2>4 DEF Ordered, Port
<1>5. ASSUME NEW kind \in Kinds, NEW l \in Loads, Publish(kind, l), l \in Spawned', Kept(l) \/ kind = "spawn",
             kind = "spawn" => l = Len(load) + 1,
             kind = "buffers" => l \in Spawned /\ Live(l)
      PROVE  Ordered'
  <2>1. CASE log' = log
    BY <1>3, <2>1
  <2>2. CASE log' # log
    <3> DEFINE e == Len(log')
    <3>1. /\ e = Len(log) + 1 /\ \A i \in Logged : i \in Logged' /\ log'[i] = log[i] /\ i < e
          /\ log'[e].kind = kind /\ log'[e].load = l
          /\ \A i \in Logged' : i \in Nat /\ (i \in Logged \/ i = e)
          /\ e \in Nat
      BY <1>1, <1>5, <2>2, Published DEF Logged
    <3> HIDE DEF e
    <3>2. \A i \in Logged' : log'[i].load \in Spawned'
      BY <1>2, <1>5, <3>1 DEF Ordered
    <3>3. ASSUME NEW i \in Logged', NEW j \in Logged', i < j, log'[j].kind = "spawn"
          PROVE  log'[i].load < log'[j].load
      <4>1. i \in Logged
        BY <3>1, <3>3
      <4>2. CASE j \in Logged
        BY <3>1, <3>3, <4>1, <4>2 DEF Ordered
      <4>3. CASE j = e
        BY <1>1, <1>5, <3>1, <3>3, <4>1, <4>3 DEF Ordered
      <4> QED BY <3>1, <4>2, <4>3
    <3>4. ASSUME NEW i \in Logged', NEW j \in Logged', j < i,
                 log'[i].kind = "buffers", log'[j].kind = "spawn",
                 load'[log'[j].load].port = load'[log'[i].load].port
          PROVE  log'[j].load <= log'[i].load
      <4>1. j \in Logged
        BY <3>1, <3>4
      <4>2. log'[j] = log[j] /\ log[j].load \in Spawned
        BY <3>1, <4>1 DEF Ordered
      <4>3. CASE i \in Logged
        BY <1>2, <3>1, <3>4, <4>1, <4>2, <4>3 DEF Ordered, Port
      <4>4. CASE i = e
        <5>1. l \in Spawned /\ Live(l) /\ log'[i].load = l
          BY <1>5, <3>1, <3>4, <4>4
        <5>2. Port(log[j].load) = Port(l)
          BY <1>2, <3>4, <4>2, <5>1 DEF Port
        <5> QED BY <1>1, <4>2, <5>1, <5>2 DEF Instances
      <4> QED BY <3>1, <4>3, <4>4
    <3> QED BY <3>2, <3>3, <3>4 DEF Ordered, Port
  <2> QED BY <2>1, <2>2
<1>6. ASSUME NEW m \in Served, NEW p \in Ports, Spawn(m, p), Publish("spawn", Len(load) + 1)
      PROVE  Ordered'
  BY <1>5, <1>6, SpawnStep DEF Kinds
<1>7. ASSUME NEW l \in Spawned, Fill(l), Publish("buffers", l)
      PROVE  Ordered'
  BY <1>1, <1>2, <1>5, <1>7, LoadType DEF Kinds, Fill, Live
<1>8. ASSUME NEW l \in Spawned, Publish("ready", l)
      PROVE  Ordered'
  BY <1>1, <1>2, <1>5, <1>8, LoadType DEF Kinds
<1> QED BY <1>3, <1>4, <1>6, <1>7, <1>8, LogSteps
LEMMA PendingStep ==
    ASSUME ReportInv, [ReportNext]_reportVars
    PROVE  Pending'
<1> USE DEF ReportInv
<1>1. /\ \A l \in Spawned : l \in Loads /\ l \in Spawned' /\ Port(l)' = Port(l) /\ l < Len(load) + 1
      /\ \A l \in Loads : l \in Nat
      /\ Len(load) \in Nat /\ Len(log) \in Nat /\ log \in Seq(Lines)
  BY KeptStep, LoadType, LenProperties, Sizes DEF Spawned, ReportTypeOK, Kept, Port
<1>2. \A i \in Logged : log[i].load \in Spawned
  BY DEF Ordered
<1>3. \A r \in Loads : Recorded(r) => r \in Spawned
  BY DEF Collected
<1>4. CASE AddSpawn
  <2> DEFINE n == Line.load
  <2>1. /\ lost' = lost /\ load' = load /\ 1 \in Logged /\ log[1] = Line /\ Line.kind = "spawn"
        /\ \A i \in Logged' : i \in Nat /\ i + 1 \in Logged /\ log'[i] = log[i + 1]
        /\ \A i \in Logged : i # 1 => i - 1 \in Logged' /\ log'[i - 1] = log[i]
    BY <1>1, <1>4, Taken DEF AddSpawn, Logged, routerVars
  <2>2. /\ n \in Spawned /\ n \in Loads /\ log[1].load = n /\ rec'[n] # Nothing
        /\ \A r \in Loads : r # n => rec'[r] = rec[r]
    BY <1>4, <2>1, AddSpawnStep
  <2> HIDE DEF n
  <2>3. ASSUME NEW i \in Logged', log'[i].kind = "spawn"
        PROVE  log'[i].load \notin lost /\ \A r \in Loads : rec'[r] # Nothing => r < log'[i].load
    <3>1. /\ log[i + 1].kind = "spawn" /\ log'[i].load = log[i + 1].load /\ i + 1 \in Logged
          /\ 1 < i + 1
      BY <1>1, <2>1, <2>3 DEF Logged
    <3>2. n < log[i + 1].load
      BY <2>1, <2>2, <3>1 DEF Ordered
    <3> QED BY <2>2, <3>1, <3>2 DEF Pending, Recorded
  <2>4. ASSUME NEW i \in Logged', log'[i].kind = "buffers", NEW r \in Loads, rec'[r] # Nothing,
               Port(r) = Port(log'[i].load)
        PROVE  r <= log'[i].load
    <3>1. /\ log[i + 1].kind = "buffers" /\ log'[i].load = log[i + 1].load /\ i + 1 \in Logged
          /\ 1 < i + 1
      BY <1>1, <2>1, <2>4 DEF Logged
    <3>2. CASE r = n
      BY <2>1, <2>2, <2>4, <3>1, <3>2 DEF Ordered
    <3>3. CASE r # n
      BY <2>2, <2>4, <3>1, <3>3 DEF Pending, Recorded
    <3> QED BY <3>2, <3>3
  <2>5. ASSUME NEW k \in Spawned
        PROVE  \/ k \in lost \/ rec'[k] # Nothing
               \/ \E j \in Logged' : log'[j].kind = "spawn" /\ log'[j].load = k
    <3>1. CASE k = n
      BY <2>2, <3>1
    <3>2. CASE k # n
      <4>1. \A j \in Logged : log[j].load = k => j # 1
        BY <2>2, <3>2
      <4>2. \A j \in Logged : log[j].load = k => j - 1 \in Logged' /\ log'[j - 1] = log[j]
        BY <2>1, <4>1
      <4>3. Recorded(k) => rec'[k] # Nothing
        BY <1>1, <2>2, <3>2 DEF Recorded
      <4> QED BY <4>2, <4>3 DEF Pending
    <3> QED BY <3>1, <3>2
  <2> QED BY <2>1, <2>3, <2>4, <2>5 DEF Pending, Recorded, Port, Spawned
<1>5. CASE ~AddSpawn
  <2>1. \A r \in Loads : Recorded(r)' <=> Recorded(r)
    BY <1>5, RecordedStep
  <2>2. CASE log' = log /\ lost' = lost /\ Spawned' = Spawned
    BY <1>1, <1>2, <1>3, <2>1, <2>2 DEF Pending, Logged, Port
  <2>3. ASSUME NEW kind \in Kinds \ {"spawn"}, Reading(kind), lost' = lost, Spawned' = Spawned
        PROVE  Pending'
    <3>1. /\ 1 \in Logged /\ log[1].kind # "spawn"
          /\ \A i \in Logged' : i \in Nat /\ i + 1 \in Logged /\ log'[i] = log[i + 1]
          /\ \A i \in Logged : i # 1 => i - 1 \in Logged' /\ log'[i - 1] = log[i]
      BY <1>1, <2>3, Taken DEF Logged
    <3>2. ASSUME NEW i \in Logged', log'[i].kind = "spawn"
          PROVE  log'[i].load \notin lost /\ \A r \in Loads : Recorded(r) => r < log'[i].load
      BY <3>1, <3>2 DEF Pending
    <3>3. ASSUME NEW i \in Logged', log'[i].kind = "buffers", NEW r \in Loads, Recorded(r),
                 Port(r)' = load'[log'[i].load].port
          PROVE  r <= log'[i].load
      <4>1. log[i + 1].load \in Spawned /\ r \in Spawned /\ log'[i] = log[i + 1]
        BY <1>2, <1>3, <3>1, <3>3
      <4>2. Port(r) = Port(log[i + 1].load)
        BY <1>1, <3>3, <4>1 DEF Port
      <4> QED BY <3>1, <3>3, <4>1, <4>2 DEF Pending
    <3>4. ASSUME NEW k \in Spawned
          PROVE  \/ k \in lost \/ Recorded(k)
                 \/ \E j \in Logged' : log'[j].kind = "spawn" /\ log'[j].load = k
      <4>1. \A j \in Logged : log[j].kind = "spawn" => j # 1
        BY <3>1
      <4>2. \A j \in Logged : log[j].kind = "spawn" => j - 1 \in Logged' /\ log'[j - 1] = log[j]
        BY <3>1, <4>1
      <4> QED BY <4>2 DEF Pending
    <3>5. \A k \in Spawned : Recorded(k)' <=> Recorded(k)
      BY <1>1, <2>1
    <3> QED BY <2>1, <2>3, <3>2, <3>3, <3>4, <3>5 DEF Pending, Port
  <2>4. ASSUME NEW kind \in Kinds, NEW l \in Loads, Publish(kind, l), l \in Spawned',
               Spawned' = Spawned \union {l}, Port(l)' = load'[l].port,
               kind = "spawn" => l = Len(load) + 1,
               kind # "spawn" => l \in Spawned,
               kind = "buffers" => Live(l)
        PROVE  Pending'
    <3>1. CASE log' = log /\ lost' = IF kind = "spawn" THEN lost \union {l} ELSE lost
      <4>1. \A i \in Logged : log[i].load \notin lost => log[i].load \notin lost'
        BY <1>1, <1>2, <2>4, <3>1
      <4>2. \A k \in Spawned' : k \in Spawned \/ k \in lost'
        BY <2>4, <3>1
      <4>3. lost \subseteq lost'
        BY <3>1
      <4>4. \A k \in Spawned : Recorded(k)' <=> Recorded(k)
        BY <1>1, <2>1
      <4>5. \A i \in Logged, r \in Loads : Recorded(r) =>
              Port(r)' = Port(r) /\ load'[log[i].load].port = load[log[i].load].port
        BY <1>1, <1>2, <1>3 DEF Port
      <4>6. Logged' = Logged
        BY <3>1 DEF Logged
      <4>7. \A i \in Logged' : log'[i].kind = "spawn" =>
               log'[i].load \notin lost' /\ \A r \in Loads : Recorded(r)' => r < log'[i].load
        BY <2>1, <3>1, <4>1, <4>6 DEF Pending
      <4>8. \A i \in Logged' : log'[i].kind = "buffers" =>
               \A r \in Loads : Recorded(r)' /\ Port(r)' = load'[log'[i].load].port => r <= log'[i].load
        BY <2>1, <3>1, <4>5, <4>6 DEF Pending, Port
      <4>9. \A k \in Spawned' :
              \/ k \in lost' \/ Recorded(k)'
              \/ \E j \in Logged' : log'[j].kind = "spawn" /\ log'[j].load = k
        BY <3>1, <4>2, <4>3, <4>4, <4>6 DEF Pending
      <4> QED BY <4>7, <4>8, <4>9 DEF Pending, Port
    <3>2. CASE lost' = lost /\ Len(log') = Len(log) + 1
      <4> DEFINE e == Len(log')
      <4>1. /\ e = Len(log) + 1 /\ \A i \in Logged : i \in Logged' /\ log'[i] = log[i]
            /\ log'[e].kind = kind /\ log'[e].load = l /\ e \in Logged'
            /\ \A i \in Logged' : i \in Logged \/ i = e
        BY <1>1, <2>4, <3>2, Published DEF Logged
      <4> HIDE DEF e
      <4>2. ASSUME NEW i \in Logged', log'[i].kind = "spawn"
            PROVE  log'[i].load \notin lost /\ \A r \in Loads : Recorded(r) => r < log'[i].load
        <5>1. CASE i \in Logged
          BY <4>1, <4>2, <5>1 DEF Pending
        <5>2. CASE i = e
          <6>1. log'[i].load = l /\ l = Len(load) + 1
            BY <2>4, <4>1, <4>2, <5>2
          <6>2. l \notin lost
            BY <1>1, <6>1 DEF ReportTypeOK, Spawned
          <6> QED BY <1>1, <1>3, <6>1, <6>2
        <5> QED BY <4>1, <5>1, <5>2
      <4>3. ASSUME NEW i \in Logged', log'[i].kind = "buffers", NEW r \in Loads, Recorded(r),
                   Port(r)' = load'[log'[i].load].port
            PROVE  r <= log'[i].load
        <5>1. r \in Spawned
          BY <1>3, <4>3
        <5>2. CASE i \in Logged
          <6>1. log'[i] = log[i] /\ log[i].load \in Spawned
            BY <1>2, <4>1, <5>2
          <6>2. Port(r) = Port(log[i].load)
            BY <1>1, <4>3, <5>1, <6>1 DEF Port
          <6> QED BY <4>3, <5>2, <6>1, <6>2 DEF Pending
        <5>3. CASE i = e
          <6>1. log'[i].load = l /\ l \in Spawned /\ Live(l)
            BY <2>4, <4>1, <4>3, <5>3
          <6>2. Port(r) = Port(l)
            BY <1>1, <4>3, <5>1, <6>1 DEF Port
          <6> QED BY <1>1, <5>1, <6>1, <6>2 DEF Instances
        <5> QED BY <4>1, <5>2, <5>3
      <4>4. ASSUME NEW k \in Spawned'
            PROVE  \/ k \in lost \/ Recorded(k)'
                   \/ \E j \in Logged' : log'[j].kind = "spawn" /\ log'[j].load = k
        <5>1. CASE k \in Spawned
          BY <1>1, <2>1, <4>1, <5>1 DEF Pending
        <5>2. CASE k \notin Spawned
          <6>1. k = l /\ kind = "spawn"
            BY <2>4, <4>4, <5>2 DEF Kinds
          <6> QED BY <4>1, <6>1
        <5> QED BY <5>1, <5>2
      <4> QED BY <2>1, <3>2, <4>2, <4>3, <4>4 DEF Pending, Port
    <3> QED BY <1>1, <2>4, <3>1, <3>2, Published
  <2>5. ASSUME NEW m \in Served, NEW p \in Ports, Spawn(m, p), Publish("spawn", Len(load) + 1)
        PROVE  Pending'
    BY <2>4, <2>5, SpawnStep DEF Kinds, Port
  <2>6. ASSUME NEW l \in Spawned, Fill(l), Publish("buffers", l)
        PROVE  Pending'
    <3>1. Spawned' = Spawned \union {l} /\ Live(l) /\ l \in Loads /\ l \in Spawned'
      BY <1>1, <2>6, StageStep DEF Fill, Live
    <3> QED BY <2>4, <2>6, <3>1 DEF Kinds, Port
  <2>7. ASSUME NEW l \in Spawned, BeReady(l) \/ Wake(l), Publish("ready", l)
        PROVE  Pending'
    <3>1. Spawned' = Spawned \union {l} /\ l \in Loads /\ l \in Spawned'
      BY <1>1, <2>7, StageStep
    <3> QED BY <2>4, <2>7, <3>1 DEF Kinds, Port
  <2>8. CASE AddBuffers \/ AddReady
    <3>1. Spawned' = Spawned /\ lost' = lost /\ (Reading("buffers") \/ Reading("ready"))
      BY <2>8 DEF AddBuffers, AddReady, routerVars, Spawned
    <3> QED BY <2>3, <3>1 DEF Kinds
  <2>9. CASE log' = log /\ lost' = lost
    <3>1. ASSUME NEW m \in Served, NEW p \in Ports, Spawn(m, p)
          PROVE  Pending'
      BY <2>5, <3>1 DEF Spawn
    <3>2. CASE Spawned' = Spawned
      BY <2>2, <2>9, <3>2
    <3>3. ASSUME NEW l \in Spawned, Fill(l) \/ BeReady(l) \/ Sleep(l) \/ Wake(l) \/ Exit(l)
          PROVE  Spawned' = Spawned
      BY <3>3, StageStep
    <3>4. StopRouter => Spawned' = Spawned
      BY StopStep
    <3>5. load' = load => Spawned' = Spawned
      BY DEF Spawned
    <3> QED BY <3>1, <3>2, <3>3, <3>4, <3>5, LoadSteps
  <2> QED BY <1>5, <2>5, <2>6, <2>7, <2>8, <2>9, LogSteps
<1> QED BY <1>4, <1>5
----------------------------------------------------------------------------
(* What is reported.                                                       *)

(* A note does not change what its record holds besides.                    *)
LEMMA OnlyNotes ==
    ASSUME ReportInv, NoteSpawn \/ \E g \in recorders : RecordCounters(g), NEW l \in Loads
    PROVE  /\ Recorded(l)' <=> Recorded(l)
           /\ Recorded(l) => rec'[l].ready = rec[l].ready /\ rec'[l].buffers = rec[l].buffers
<1>1. CASE NoteSpawn
  BY <1>1, NoteSpawnNote, Annotated DEF ReportInv
<1>2. ASSUME NEW g \in recorders, RecordCounters(g)
      PROVE  /\ Recorded(l)' <=> Recorded(l)
             /\ Recorded(l) => rec'[l].ready = rec[l].ready /\ rec'[l].buffers = rec[l].buffers
  <2>1. g.port \in Ports
    BY <1>2, RecordNote DEF Recorder
  <2>2. CASE rec' = rec
    BY <2>2 DEF Recorded
  <2>3. ASSUME NEW note \in Note, Annotate(g.port, note)
        PROVE  /\ Recorded(l)' <=> Recorded(l)
               /\ Recorded(l) => rec'[l].ready = rec[l].ready /\ rec'[l].buffers = rec[l].buffers
    BY <2>1, <2>3, Annotated DEF ReportInv
  <2> QED BY <1>2, <2>2, <2>3, RecordNote
<1> QED BY <1>1, <1>2

(* A buffer line of a load whose spawn was read goes to that load.           *)
LEMMA BuffersReach ==
    ASSUME ReportInv, Reading("buffers"), Line.load \notin lost
    PROVE  byPort[Port(Line.load)] \in {0, Line.load}
<1> USE DEF ReportInv
<1> DEFINE k == Line.load
           r == byPort[Port(k)]
<1>1. /\ 1 \in Logged /\ log[1] = Line /\ log[1].kind = "buffers"
      /\ k \in Spawned /\ k \in Loads /\ Port(k) \in Ports
  BY Taken, LineType DEF ReportTypeOK
<1>2. \A j \in Logged : 1 <= j /\ j \in Nat
  BY LenProperties DEF Logged, ReportTypeOK
<1>3. ~\E j \in Logged : log[j].kind = "spawn" /\ log[j].load = k
  <2> SUFFICES ASSUME NEW j \in Logged, log[j].kind = "spawn", log[j].load = k PROVE FALSE
    OBVIOUS
  <2>1. j # 1 /\ 1 < j
    BY <1>1, <1>2
  <2>2. k < k
    BY <1>1, <2>1 DEF Ordered
  <2> QED BY <1>1, <2>2, Sizes
<1>4. Recorded(k)
  BY <1>1, <1>3 DEF Pending
<1>5. r = 0 \/ (r \in Loads /\ r >= k /\ Recorded(r) /\ Port(r) = Port(k))
  BY <1>1, <1>4 DEF Collected, ReportTypeOK
<1>6. CASE r # 0
  <2>1. r <= k
    BY <1>1, <1>5, <1>6 DEF Pending
  <2> QED BY <1>1, <1>5, <1>6, <2>1, Sizes
<1> QED BY <1>6

LEMMA OwnStep ==
    ASSUME ReportInv, [ReportNext]_reportVars
    PROVE  BuffersAreTheirOwn'
<1> USE DEF ReportInv
<1>1. lost \subseteq lost'
  <2>1. ASSUME NEW kind \in Kinds, NEW l \in Loads, Publish(kind, l)
        PROVE  lost \subseteq lost'
    BY <2>1, Published DEF ReportTypeOK
  <2>2. ASSUME NEW m \in Served, NEW p \in Ports, Spawn(m, p)
        PROVE  Len(load) + 1 \in Loads
    BY <2>2, SpawnStep
  <2> QED BY <2>1, <2>2, LogSteps, LoadType DEF Kinds
<1>2. \A l \in Loads : Recorded(l) => rec[l].buffers \ lost' \subseteq {l}
  BY <1>1 DEF BuffersAreTheirOwn, Recorded
<1>3. CASE rec' = rec
  BY <1>2, <1>3 DEF BuffersAreTheirOwn, Recorded
<1>4. CASE NoteSpawn \/ \E g \in recorders : RecordCounters(g)
  BY <1>2, <1>4, OnlyNotes DEF BuffersAreTheirOwn, Recorded
<1>5. CASE AddSpawn
  <2>1. /\ rec'[Line.load].buffers = {}
        /\ \A l \in Loads : l # Line.load => rec'[l] = rec[l]
    BY <1>5, AddSpawnStep
  <2> QED BY <1>2, <2>1 DEF BuffersAreTheirOwn, Recorded
<1>6. CASE AddReady
  <2> DEFINE r == byPort[Port(Line.load)]
  <2>1. /\ \A l \in Loads : l # r => rec'[l] = rec[l]
        /\ r # 0 => rec'[r].buffers = rec[r].buffers /\ Recorded(r)
    BY <1>6, AddReadyStep
  <2>2. 0 \notin Loads
    BY Sizes
  <2> HIDE DEF r
  <2> QED BY <1>2, <2>1, <2>2 DEF BuffersAreTheirOwn, Recorded
<1>7. CASE AddBuffers
  <2> DEFINE k == Line.load
             r == byPort[Port(k)]
  <2>1. /\ \A l \in Loads : l # r => rec'[l] = rec[l]
        /\ r # 0 => rec'[r].buffers = rec[r].buffers \union {k} /\ Recorded(r)
        /\ lost' = lost
    BY <1>7, AddBuffersStep DEF AddBuffers
  <2>2. k \in lost \/ r \in {0, k}
    BY <1>7, BuffersReach DEF AddBuffers
  <2>3. 0 \notin Loads
    BY Sizes
  <2> HIDE DEF k, r
  <2> QED BY <1>2, <2>1, <2>2, <2>3 DEF BuffersAreTheirOwn, Recorded
<1> QED BY <1>3, <1>4, <1>5, <1>6, <1>7, RecSteps

(* A load that is alone on its port was so before, and is running.           *)
LEMMA AloneStep ==
    ASSUME ReportInv, [ReportNext]_reportVars, NEW l \in Spawned, Alone(l)'
    PROVE  /\ Alone(l) /\ running # Nothing /\ running[load[l].model] = load[l].cfg
           /\ load'[l].cfg = load[l].cfg /\ Port(l)' = Port(l)
           /\ ~load'[l].slept => ~load[l].slept
           /\ \A k \in Spawned : Port(k) = Port(l) => k = l
<1> USE DEF ReportInv
<1>1. \A k \in Spawned : Kept(k) /\ k \in Nat /\ k \in 1 .. Len(load)
  BY KeptStep, LoadType, Sizes DEF Spawned
<1>2. Live(l) /\ load'[l].cfg = load[l].cfg /\ Port(l)' = Port(l)
      /\ (~load'[l].slept => ~load[l].slept)
  BY <1>1 DEF Kept, Alone, Port
<1>3. FirstOnPort(l)
  <2>1. \A k \in 1 .. l - 1 : k \in Spawned
    BY <1>1, LoadType DEF Spawned
  <2> QED BY <1>1, <1>2, <2>1 DEF Alone, FirstOnPort, Kept, Port
<1>4. \A k \in Spawned : Port(k) = Port(l) => k = l
  <2> SUFFICES ASSUME NEW k \in Spawned, Port(k) = Port(l), k # l PROVE FALSE
    OBVIOUS
  <2>1. k < l \/ k > l
    BY <1>1
  <2>2. CASE k < l
    BY <1>1, <1>3, <2>2 DEF FirstOnPort, Port
  <2>3. CASE k > l
    BY <1>2, <2>3 DEF Instances
  <2> QED BY <2>1, <2>2, <2>3
<1> QED BY <1>2, <1>3, <1>4 DEF Alone, Instances
(* Who has a record was spawned, also after the step.                       *)
LEMMA RecordedWas ==
    ASSUME ReportInv, [ReportNext]_reportVars, NEW l \in Loads, Recorded(l)'
    PROVE  l \in Spawned
  BY RecordedStep, AddSpawnStep DEF ReportInv, Collected

(* A note for the port of a load that is alone there is for that load.       *)
LEMMA NoteFor ==
    ASSUME ReportInv, NEW p \in Ports, byPort[p] # 0
    PROVE  byPort[p] \in Spawned /\ Port(byPort[p]) = p /\ byPort[p] \in Loads
  BY DEF ReportInv, Collected, ReportTypeOK

LEMMA NotedStep ==
    ASSUME ReportInv, [ReportNext]_reportVars
    PROVE  Noted'
<1> USE DEF ReportInv
<1> SUFFICES ASSUME NEW l \in Loads, Alone(l)', Recorded(l)', spawned' # l
             PROVE  rec'[l].note.cfg = load'[l].cfg
  BY DEF Noted, Recorded
<1>1. l \in Spawned
  BY RecordedWas
<1>2. /\ Alone(l) /\ running # Nothing /\ running[load[l].model] = load[l].cfg
      /\ load'[l].cfg = load[l].cfg
      /\ \A k \in Spawned : Port(k) = Port(l) => k = l
  BY <1>1, AloneStep
<1>3. spawned # l /\ Recorded(l) => rec[l].note.cfg = load[l].cfg
  BY <1>2 DEF Noted
<1>4. CASE NoteSpawn
  <2> DEFINE s == spawned
  <2>1. PICK note \in Note :
          /\ Annotate(Port(s), note)
          /\ note.cfg = LaunchConfig(load[s].model)
    BY <1>4, NoteSpawnNote
  <2>2. s \in Spawned /\ Port(s) \in Ports /\ Recorded(l)
    BY <1>4, NoteSpawnNote, OnlyNotes
  <2>3. /\ l # byPort[Port(s)] => rec'[l] = rec[l]
        /\ byPort[Port(s)] # 0 => rec'[byPort[Port(s)]].note = note
    BY <2>1, <2>2, Annotated
  <2>4. CASE s = l
    <3>1. byPort[Port(s)] = l /\ l # 0
      BY <1>1, <1>2, <2>4, Sizes DEF Opened, Alone
    <3>2. note.cfg = running[load[l].model]
      BY <1>2, <2>1, <2>4 DEF LaunchConfig
    <3> QED BY <1>2, <2>3, <3>1, <3>2
  <2>5. CASE s # l
    <3>1. l # byPort[Port(s)]
      BY <1>2, <2>2, <2>5, NoteFor, Sizes
    <3> QED BY <1>2, <1>3, <2>2, <2>3, <2>5, <3>1
  <2> QED BY <2>4, <2>5
<1>5. ASSUME NEW g \in recorders, RecordCounters(g)
      PROVE  rec'[l].note.cfg = load'[l].cfg
  <2>1. spawned' = spawned /\ Recorded(l) /\ g.port \in Ports
    BY <1>5, OnlyNotes, RecordNote DEF RecordCounters, Recorder
  <2>2. CASE rec' = rec
    BY <1>2, <1>3, <2>1, <2>2
  <2>3. ASSUME NEW r \in Loads, NEW note \in Note, Port(r) = g.port, r \in Spawned,
               Annotate(g.port, note), note.cfg = rec[r].note.cfg
        PROVE  rec'[l].note.cfg = load'[l].cfg
    <3>1. /\ l # byPort[g.port] => rec'[l] = rec[l]
          /\ byPort[g.port] # 0 => rec'[byPort[g.port]].note = note
      BY <2>1, <2>3, Annotated
    <3>2. CASE l = byPort[g.port]
      <4>1. l # 0 /\ Port(l) = g.port
        BY <2>1, <3>2, NoteFor, Sizes
      <4>2. r = l
        BY <1>2, <2>3, <4>1
      <4> QED BY <1>2, <1>3, <2>1, <2>3, <3>1, <3>2, <4>1, <4>2
    <3> QED BY <1>2, <1>3, <2>1, <3>1, <3>2
  <2> QED BY <1>5, <2>2, <2>3, RecordNote
<1>6. CASE AddSpawn
  <2>1. spawned = 0 /\ spawned' = Line.load /\ \A k \in Loads : k # Line.load => rec'[k] = rec[k]
    BY <1>6, AddSpawnStep
  <2>2. rec'[l] = rec[l] /\ spawned # l
    BY <2>1, Sizes
  <2> QED BY <1>2, <1>3, <2>2 DEF Recorded
<1>7. CASE AddBuffers \/ AddReady
  <2> DEFINE r == byPort[Port(Line.load)]
  <2>1. /\ \A k \in Loads : k # r => rec'[k] = rec[k]
        /\ r # 0 => rec'[r].note = rec[r].note /\ Recorded(r)
        /\ spawned = 0
    BY <1>7, AddBuffersStep, AddReadyStep
  <2>2. 0 \notin Loads
    BY Sizes
  <2> HIDE DEF r
  <2> QED BY <1>2, <1>3, <2>1, <2>2 DEF Recorded
<1>8. CASE rec' = rec /\ ~NoteSpawn /\ ~AddSpawn
  <2>1. spawned' = spawned
    BY <1>8 DEF ReportNext, reportVars, watchVars, StartRouter, StopRouter, Edit, Spawn, Fill, BeReady, Sleep,
         Wake, Exit, AddBuffers, AddReady, Collect, Deliver, RecordCounters, GiveUp
  <2> QED BY <1>2, <1>3, <1>8, <2>1 DEF Recorded
<1> QED BY <1>4, <1>5, <1>6, <1>7, <1>8, RecSteps

(* A load that is ready stays ready, or is put to sleep, or ends.             *)
LEMMA StaysReady ==
    ASSUME ReportInv, [ReportNext]_reportVars, NEW l \in Spawned,
           load[l].stage = "ready", Live(l)', ~load'[l].slept
    PROVE  load'[l].stage = "ready"
<1>1. CASE load' = load
  BY <1>1
<1>2. CASE StopRouter
  BY <1>2, StopStep DEF Live, ReportInv
<1>3. ASSUME NEW m \in Served, NEW p \in Ports, Spawn(m, p)
      PROVE  load'[l].stage = "ready"
  BY <1>3, SpawnStep DEF ReportInv
<1>4. ASSUME NEW k \in Spawned, Fill(k) \/ BeReady(k) \/ Sleep(k) \/ Wake(k) \/ Exit(k)
      PROVE  load'[l].stage = "ready"
  <2>1. CASE k = l
    BY <1>4, <2>1, StageStep DEF Live, Steps, ReportInv
  <2>2. CASE k # l
    BY <1>4, <2>2, StageStep DEF ReportInv
  <2> QED BY <2>1, <2>2
<1> QED BY <1>1, <1>2, <1>3, <1>4, LoadSteps DEF ReportInv
LEMMA ReadyLines ==
    ASSUME ReportInv, [ReportNext]_reportVars, NEW i \in Logged', log'[i].kind = "ready",
           load'[log'[i].load].stage # "gone", ~load'[log'[i].load].slept
    PROVE  load'[log'[i].load].stage = "ready"
<1> USE DEF ReportInv
<1> DEFINE l == log'[i].load
<1>1. ASSUME NEW j \in Logged, log'[i] = log[j]
      PROVE  load'[l].stage = "ready"
  <2>1. l \in Spawned /\ log[j].kind = "ready" /\ log[j].load = l
    BY <1>1 DEF Ordered
  <2>2. Live(l) /\ ~load[l].slept
    BY <2>1, KeptStep DEF Kept, Live
  <2>3. load[l].stage = "ready"
    BY <2>1, <2>2 DEF Awaited
  <2> QED BY <2>1, <2>3, StaysReady DEF Live
<1>2. ASSUME NEW kind \in Kinds, NEW k \in Loads, Publish(kind, k),
             kind = "ready" => load'[k].stage = "ready"
      PROVE  load'[l].stage = "ready"
  <2>1. \/ log' = log
        \/ /\ Len(log') = Len(log) + 1
           /\ \A j \in Logged : log'[j] = log[j]
           /\ log'[Len(log')].kind = kind /\ log'[Len(log')].load = k
    BY <1>2, Published DEF ReportTypeOK
  <2>2. Len(log) \in Nat
    BY LenProperties DEF ReportTypeOK
  <2>3. CASE log' = log
    BY <1>1, <2>3 DEF Logged
  <2>4. CASE log' # log
    <3>1. i \in Logged \/ i = Len(log')
      BY <2>1, <2>2, <2>4 DEF Logged
    <3> QED BY <1>1, <1>2, <2>1, <2>4, <3>1
  <2> QED BY <2>3, <2>4
<1>3. CASE log' = log
  BY <1>1, <1>3 DEF Logged
<1>4. ASSUME NEW kind \in Kinds, Reading(kind)
      PROVE  load'[l].stage = "ready"
  BY <1>1, <1>4, Taken DEF ReportTypeOK
<1>5. ASSUME NEW m \in Served, NEW p \in Ports, Spawn(m, p), Publish("spawn", Len(load) + 1)
      PROVE  load'[l].stage = "ready"
  BY <1>2, <1>5, SpawnStep DEF Kinds
<1>6. ASSUME NEW k \in Spawned, Fill(k), Publish("buffers", k)
      PROVE  load'[l].stage = "ready"
  BY <1>2, <1>6, LoadType DEF Kinds
<1>7. ASSUME NEW k \in Spawned, BeReady(k) \/ Wake(k), Publish("ready", k)
      PROVE  load'[l].stage = "ready"
  <2>1. load'[k].stage = "ready"
    <3>1. load[k].stage \in {"filled", "asleep"} /\ load[k] \in Load /\ load \in Seq(Load)
      BY <1>7, LoadType DEF BeReady, Wake, ReportTypeOK
    <3>2. load' = [load EXCEPT ![k].stage = "ready"]
      BY <1>7 DEF BeReady, Wake
    <3> QED BY <3>1, <3>2 DEF Spawned, Load
  <2> QED BY <1>2, <1>7, <2>1, LoadType DEF Kinds
<1> QED BY <1>3, <1>4, <1>5, <1>6, <1>7, LogSteps

(* Where recorders and the readings they get come from.                     *)
LEMMA RecorderSteps ==
    ASSUME ReportTypeOK, [ReportNext]_reportVars
    PROVE  \/ recorders' \subseteq recorders /\ sample' = sample /\ midway' = midway
           \/ AddReady \/ Collect \/ Deliver
  BY DEF ReportNext, reportVars, watchVars, StartRouter, StopRouter, Edit, Spawn, Fill, BeReady, Sleep, Wake, Exit,
         AddSpawn, AddBuffers, NoteSpawn, RecordCounters, GiveUp

LEMMA MidwayGrows ==
    ASSUME ReportInv, [ReportNext]_reportVars
    PROVE  midway \subseteq midway'
  BY RecorderSteps, AddReadyStep DEF ReportInv, Collect, Deliver

(* The recorder of a ready line is of the load on its port.                 *)
LEMMA NewRecorder ==
    ASSUME ReportInv, AddReady
    PROVE  /\ load' = load /\ Line.load \in Spawned
           /\ \A g \in recorders' : g \in recorders \/ (g.port = Port(Line.load) /\ g.pc = "wait")
           /\ Live(Line.load) /\ ~load[Line.load].slept => load[Line.load].stage = "ready"
<1>1. /\ load' = load /\ Line.load \in Spawned
      /\ \/ recorders' = recorders
         \/ \E m \in Served : recorders' = recorders \union
              {[model |-> m, port |-> Port(Line.load), pc |-> "wait", seen |-> {}]}
  BY AddReadyStep
<1>2. 1 \in Logged /\ log[1] = Line /\ Line.kind = "ready"
  BY Taken DEF ReportInv, ReportTypeOK, AddReady
<1> QED BY <1>1, <1>2 DEF ReportInv, Awaited

LEMMA Receivers ==
    ASSUME ReportTypeOK, Deliver
    PROVE  /\ midway' = midway
           /\ \A g \in recorders' :
                \/ g \in recorders /\ g.pc = "got"
                \/ g.pc = "got" /\ \E h \in recorders :
                       h.pc = "wait" /\ g.port = h.port /\ g.seen = sample
<1>1. midway' = midway /\ recorders' = {IF g.pc = "wait" THEN Delivered(g) ELSE g : g \in recorders}
  BY DEF Deliver
<1>2. \A g \in recorders : /\ Delivered(g).seen = sample /\ Delivered(g).port = g.port
                           /\ Delivered(g).pc = "got" /\ g.pc \in {"wait", "got"}
  BY DEF ReportTypeOK, Recorder, Delivered
<1> QED BY <1>1, <1>2

LEMMA Recorders ==
    ASSUME ReportInv, [ReportNext]_reportVars, NEW g \in recorders'
    PROVE  /\ \E k \in Spawned' : Port(k)' = g.port
           /\ \A l \in Loads : Alone(l)' /\ ~load'[l].slept /\ g.port = Port(l)' =>
                  load'[l].stage = "ready" /\ Counted(g, l)'
<1> USE DEF ReportInv
<1>1. \E k \in Spawned : Port(k) = g.port
  <2>1. CASE AddReady
    BY <2>1, NewRecorder DEF Awaited
  <2>2. CASE Deliver
    BY <2>2, Receivers DEF Awaited
  <2>3. CASE recorders' \subseteq recorders
    BY <2>3 DEF Awaited
  <2> QED BY <2>1, <2>2, <2>3, RecorderSteps DEF Collect
<1>2. \A k \in Spawned : k \in Spawned' /\ Port(k)' = Port(k)
  BY KeptStep DEF Kept, Port
<1>3. ASSUME NEW l \in Loads, Alone(l)', ~load'[l].slept, g.port = Port(l)'
      PROVE  load'[l].stage = "ready" /\ Counted(g, l)'
  <2>1. l \in Spawned
    <3>1. PICK k \in Spawned : Port(k) = g.port
      BY <1>1
    <3>2. Port(k)' = Port(l)' /\ k \in Nat /\ k >= 1
      BY <1>2, <1>3, <3>1, LoadType, Sizes
    <3>3. ~(k < l)
      BY <1>3, <3>2, Sizes DEF Alone, FirstOnPort, Port
    <3> QED BY <3>1, <3>2, <3>3, Sizes, LoadType DEF Spawned
  <2>2. /\ Alone(l) /\ Live(l)' /\ Port(l)' = Port(l) /\ ~load[l].slept
        /\ \A k \in Spawned : Port(k) = Port(l) => k = l
    BY <1>3, <2>1, AloneStep DEF Alone
  <2>3. ASSUME NEW h \in recorders, h.port = g.port
        PROVE  load[l].stage = "ready" /\ Counted(h, l)
    BY <1>3, <2>2, <2>3 DEF Awaited
  <2>4. load[l].stage = "ready" => load'[l].stage = "ready" /\ l \in used
    BY <1>3, <2>1, <2>2, StaysReady DEF Instances
  <2>5. CASE recorders' \subseteq recorders /\ sample' = sample /\ midway' = midway
    BY <2>3, <2>4, <2>5 DEF Counted
  <2>6. CASE AddReady
    <3>1. sample' = sample /\ midway \subseteq midway'
      BY <2>6, AddReadyStep
    <3>2. CASE g \in recorders
      BY <2>3, <2>4, <3>1, <3>2 DEF Counted
    <3>3. CASE g \notin recorders
      <4>1. g.port = Port(Line.load) /\ g.pc = "wait" /\ Line.load \in Spawned
        BY <2>6, <3>3, NewRecorder
      <4>2. Line.load = l
        BY <1>3, <2>2, <4>1
      <4>3. load[l].stage = "ready"
        BY <2>2, <2>6, <4>2, NewRecorder DEF Alone
      <4>4. /\ byPort[Port(l)] \in Spawned /\ Port(byPort[Port(l)]) = Port(l)
            /\ sample = Nothing \/ byPort[Port(l)] \in sample \/ byPort[Port(l)] \in midway'
        BY <2>6, <3>3, <4>2, AddReadyStep DEF Collected
      <4>5. sample = Nothing \/ l \in sample \/ l \in midway'
        BY <2>2, <4>4
      <4> QED BY <2>4, <3>1, <4>1, <4>3, <4>5 DEF Counted
    <3> QED BY <3>2, <3>3
  <2>7. CASE Collect
    <3>1. recorders' = recorders /\ midway' = midway /\ sample' = used
      BY <2>7 DEF Collect
    <3> QED BY <2>3, <2>4, <3>1 DEF Counted
  <2>8. CASE Deliver
    <3>1. midway' = midway
      BY <2>8, Receivers
    <3>2. CASE g \in recorders /\ g.pc = "got"
      BY <2>3, <2>4, <3>1, <3>2 DEF Counted
    <3>3. ASSUME g.pc = "got", NEW h \in recorders, h.pc = "wait", g.port = h.port, g.seen = sample
          PROVE  load'[l].stage = "ready" /\ Counted(g, l)'
      BY <2>3, <2>4, <3>1, <3>3 DEF Counted
    <3> QED BY <2>8, <3>2, <3>3, Receivers
  <2> QED BY <2>5, <2>6, <2>7, <2>8, RecorderSteps
<1> QED BY <1>1, <1>2, <1>3

LEMMA Loaded ==
    ASSUME ReportInv, [ReportNext]_reportVars, NEW l \in Loads, Alone(l)', ~load'[l].slept, Recorded(l)'
    PROVE  rec'[l].note.loaded = Nothing \/ l \in rec'[l].note.loaded \/ l \in midway'
<1> USE DEF ReportInv
<1> DEFINE Fine == rec'[l].note.loaded = Nothing \/ l \in rec'[l].note.loaded \/ l \in midway'
<1>1. l \in Spawned
  BY RecordedWas
<1>2. Alone(l) /\ ~load[l].slept /\ \A k \in Spawned : Port(k) = Port(l) => k = l
  BY <1>1, AloneStep
<1>3. Recorded(l) => rec[l].note.loaded = Nothing \/ l \in rec[l].note.loaded \/ l \in midway'
  BY <1>2, MidwayGrows DEF Awaited
<1>4. CASE NoteSpawn
  <2>1. PICK note \in Note : Annotate(Port(spawned), note) /\ note.loaded = Nothing
    BY <1>4, NoteSpawnNote
  <2>2. Port(spawned) \in Ports /\ Recorded(l)
    BY <1>4, NoteSpawnNote, OnlyNotes
  <2>3. \/ rec'[l] = rec[l]
        \/ rec'[l].note = note
    BY <2>1, <2>2, Annotated, Sizes
  <2> QED BY <1>3, <2>1, <2>2, <2>3
<1>5. ASSUME NEW g \in recorders, RecordCounters(g)
      PROVE  Fine
  <2>1. Recorded(l) /\ g.port \in Ports /\ g.pc = "got"
    BY <1>5, OnlyNotes, RecordNote DEF Recorder
  <2>2. CASE rec' = rec
    BY <1>3, <2>1, <2>2
  <2>3. ASSUME NEW note \in Note, Annotate(g.port, note), note.loaded = g.seen
        PROVE  Fine
    <3>1. /\ l # byPort[g.port] => rec'[l] = rec[l]
          /\ byPort[g.port] # 0 => rec'[byPort[g.port]].note = note
      BY <2>1, <2>3, Annotated
    <3>2. CASE l = byPort[g.port]
      <4>1. l # 0 /\ Port(l) = g.port
        BY <2>1, <3>2, NoteFor, Sizes
      <4>2. g.seen = Nothing \/ l \in g.seen \/ l \in midway'
        BY <1>2, <2>1, <4>1, MidwayGrows DEF Awaited, Counted
      <4> QED BY <2>3, <3>1, <3>2, <4>1, <4>2
    <3> QED BY <1>3, <2>1, <3>1, <3>2
  <2> QED BY <1>5, <2>2, <2>3, RecordNote
<1>6. CASE AddSpawn
  <2>1. /\ rec'[Line.load].note = NoNote
        /\ \A k \in Loads : k # Line.load => rec'[k] = rec[k]
    BY <1>6, AddSpawnStep
  <2> QED BY <1>3, <2>1 DEF Recorded, NoNote
<1>7. CASE AddBuffers \/ AddReady
  <2> DEFINE r == byPort[Port(Line.load)]
  <2>1. /\ \A k \in Loads : k # r => rec'[k] = rec[k]
        /\ r # 0 => rec'[r].note = rec[r].note /\ Recorded(r)
    BY <1>7, AddBuffersStep, AddReadyStep
  <2>2. 0 \notin Loads
    BY Sizes
  <2> HIDE DEF r
  <2> QED BY <1>3, <2>1, <2>2 DEF Recorded
<1>8. CASE rec' = rec
  BY <1>3, <1>8 DEF Recorded
<1> QED BY <1>4, <1>5, <1>6, <1>7, <1>8, RecSteps

LEMMA AwaitedStep ==
    ASSUME ReportInv, [ReportNext]_reportVars
    PROVE  Awaited'
<1>1. \A i \in Logged' : LET l == log'[i].load
                         IN  log'[i].kind = "ready" /\ load'[l].stage # "gone" /\ ~load'[l].slept =>
                             load'[l].stage = "ready"
  BY ReadyLines
<1>2. /\ \A g \in recorders' : \E k \in Spawned' : Port(k)' = g.port
      /\ \A g \in recorders', l \in Loads :
           Alone(l)' /\ ~load'[l].slept /\ g.port = Port(l)' =>
               load'[l].stage = "ready" /\ Counted(g, l)'
  BY Recorders
<1>3. \A l \in Loads : Alone(l)' /\ ~load'[l].slept /\ Recorded(l)' =>
          rec'[l].note.loaded = Nothing \/ l \in rec'[l].note.loaded \/ l \in midway'
  BY Loaded
<1> QED BY <1>1, <1>2, <1>3 DEF Awaited, Live
(* Two loads in flight on two ports are more than one.                       *)
LEMMA TwoInFlight ==
    ASSUME ReportInv, NEW p \in Ports, NEW q \in Ports, p # q,
           byPort[p] # 0, ~rec[byPort[p]].ready, byPort[q] # 0, ~rec[byPort[q]].ready
    PROVE  Contended
<1>1. p \in InFlight /\ q \in InFlight /\ InFlight \subseteq Ports
  BY DEF InFlight
<1>2. IsFiniteSet(InFlight) /\ Cardinality(InFlight) \in Nat
  BY <1>1, MemoryAssumption, FS_Subset, FS_CardinalityType
<1>3. Cardinality(InFlight) # 0
  BY <1>1, <1>2, FS_EmptySet
<1>4. Cardinality(InFlight) # 1
  <2> SUFFICES ASSUME Cardinality(InFlight) = 1 PROVE FALSE
    OBVIOUS
  <2>1. PICK x : InFlight = {x}
    BY <1>2, FS_Singleton
  <2> QED BY <1>1, <2>1
<1> QED BY <1>2, <1>3, <1>4 DEF Contended

LEMMA MarkedStep ==
    ASSUME ReportInv, [ReportNext]_reportVars
    PROVE  Marked'
<1> USE DEF ReportInv
<1> SUFFICES ASSUME NEW l \in Loads, NEW k \in Loads, Crossed(l, k)'
             PROVE  rec'[l].note.contended
  BY DEF Marked
<1>1. /\ rec'[l] # Nothing /\ rec'[k] # Nothing /\ k < l /\ spawned' # l /\ rec'[l].note.model # Nothing
      /\ byPort'[Port(l)'] = l /\ byPort'[Port(k)'] = k /\ ~rec'[k].ready
  BY DEF Crossed, Recorded
<1>2. /\ l \in Spawned /\ k \in Spawned /\ Port(l)' = Port(l) /\ Port(k)' = Port(k)
      /\ Port(l) \in Ports /\ Port(k) \in Ports /\ l # 0 /\ k # 0
  BY <1>1, RecordedWas, KeptStep, LoadType, Sizes DEF Recorded, Kept, Port, Load
<1>3. CASE AddSpawn
  <2> DEFINE n == Line.load
  <2>1. /\ spawned = 0 /\ spawned' = n /\ n \in Loads /\ Port(n) \in Ports
        /\ \A r \in Loads : r # n => rec'[r] = rec[r]
        /\ byPort' = [byPort EXCEPT ![Port(n)] = n]
    BY <1>3, AddSpawnStep
  <2>2. \A r \in Loads : Recorded(r) => r < n
    BY <1>3, Taken, SMTT(30) DEF AddSpawn, Pending, ReportTypeOK
  <2> HIDE DEF n
  <2>3. l # n /\ rec'[l] = rec[l] /\ l < n
    BY <1>1, <2>1, <2>2 DEF Recorded
  <2>4. k # n
    BY <1>1, <2>1, <2>3, Sizes
  <2>5. byPort[Port(l)] = l /\ byPort[Port(k)] = k
    BY <1>1, <1>2, <2>1, <2>3, <2>4 DEF ReportTypeOK
  <2> QED BY <1>1, <1>2, <2>1, <2>3, <2>4, <2>5 DEF Marked, Crossed, Recorded
<1>4. CASE ~AddSpawn
  <2>1. byPort[Port(l)] = l /\ byPort[Port(k)] = k
    BY <1>1, <1>2, <1>4, MapSteps
  <2>2. Port(l) # Port(k)
    BY <1>1, <2>1, Sizes
  <2>3. Recorded(l) /\ Recorded(k)
    BY <1>1, <1>4, RecordedStep DEF Recorded
  <2>4. ASSUME rec'[l].note = rec[l].note, ~rec[k].ready, spawned # l
        PROVE  rec'[l].note.contended
    BY <1>1, <2>1, <2>3, <2>4 DEF Marked, Crossed
  <2>5. CASE NoteSpawn
    <3> DEFINE s == spawned
    <3>1. PICK note \in Note : Annotate(Port(s), note) /\ note.contended = Contended
      BY <2>5, NoteSpawnNote
    <3>2. /\ s \in Spawned /\ s \in Loads /\ Port(s) \in Ports /\ s # 0
          /\ byPort[Port(s)] \in {0, s} /\ ~rec[s].ready
      BY <2>5, NoteSpawnNote DEF Opened, NoteSpawn
    <3>3. /\ l # byPort[Port(s)] => rec'[l] = rec[l]
          /\ byPort[Port(s)] # 0 => rec'[byPort[Port(s)]].note = note
      BY <3>1, <3>2, Annotated
    <3>4. ~rec[k].ready
      BY <1>1, <2>3, <2>5, OnlyNotes
    <3>5. CASE s = l
      <4>1. Contended
        BY <1>2, <2>1, <2>2, <3>2, <3>4, <3>5, TwoInFlight
      <4> QED BY <1>2, <2>1, <3>1, <3>3, <3>5, <4>1
    <3>6. CASE s # l
      BY <1>2, <2>1, <2>4, <3>2, <3>3, <3>4, <3>6
    <3> QED BY <3>5, <3>6
  <2>6. ASSUME NEW g \in recorders, RecordCounters(g)
        PROVE  rec'[l].note.contended
    <3>1. ~rec[k].ready /\ spawned' = spawned /\ g.port \in Ports
      BY <1>1, <2>3, <2>6, OnlyNotes, RecordNote DEF RecordCounters, Recorder
    <3>2. CASE rec' = rec
      BY <1>1, <2>4, <3>1, <3>2
    <3>3. ASSUME NEW note \in Note, Annotate(g.port, note), InFlight # {} => note.contended
          PROVE  rec'[l].note.contended
      <4>1. /\ l # byPort[g.port] => rec'[l] = rec[l]
            /\ byPort[g.port] # 0 => rec'[byPort[g.port]].note = note
        BY <3>1, <3>3, Annotated
      <4>2. Port(k) \in InFlight
        BY <1>2, <2>1, <3>1 DEF InFlight
      <4>3. CASE l = byPort[g.port]
        BY <1>2, <3>3, <4>1, <4>2, <4>3
      <4>4. CASE l # byPort[g.port]
        BY <1>1, <2>4, <3>1, <4>1, <4>4
      <4> QED BY <4>3, <4>4
    <3> QED BY <2>6, <3>2, <3>3, RecordNote
  <2>7. CASE AddBuffers \/ AddReady
    <3> DEFINE r == byPort[Port(Line.load)]
    <3>1. /\ \A x \in Loads : x # r => rec'[x] = rec[x]
          /\ r # 0 => /\ rec'[r].note = rec[r].note
                      /\ rec'[r].ready = rec[r].ready \/ rec'[r].ready = TRUE
          /\ spawned = 0
      BY <2>7, AddBuffersStep, AddReadyStep
    <3> HIDE DEF r
    <3> QED BY <1>1, <1>2, <2>4, <3>1
  <2>8. CASE rec' = rec /\ ~NoteSpawn
    <3>1. spawned' = spawned
      BY <1>4, <2>8 DEF ReportNext, reportVars, watchVars, StartRouter, StopRouter, Edit, Spawn, Fill, BeReady,
         Sleep, Wake, Exit, AddBuffers, AddReady, Collect, Deliver, RecordCounters, GiveUp
    <3> QED BY <1>1, <2>4, <2>8, <3>1
  <2> QED BY <1>4, <2>5, <2>6, <2>7, <2>8, RecSteps
<1> QED BY <1>3, <1>4

----------------------------------------------------------------------------
LEMMA InitReportInv == ReportInit => ReportInv
<1> SUFFICES ASSUME ReportInit PROVE ReportInv
  OBVIOUS
<1>1. /\ load = <<>> /\ log = <<>> /\ rec = [l \in Loads |-> Nothing] /\ recorders = {}
      /\ byPort = [p \in Ports |-> 0] /\ byModel = [m \in Served |-> 0] /\ spawned = 0
      /\ Len(load) = 0 /\ Len(log) = 0
  BY EmptySeq DEF ReportInit
<1>2. Spawned = {} /\ Logged = {} /\ \A l \in Loads : ~Recorded(l)
  BY <1>1 DEF Spawned, Logged, Recorded
<1> QED BY <1>1, <1>2, TypeInit DEF ReportInv, Instances, Collected, Opened, Ordered, Pending,
        BuffersAreTheirOwn, Noted, Awaited, Marked, Crossed, Recorded

LEMMA NextIInv == ReportInv /\ [ReportNext]_reportVars => ReportInv'
  BY TypeStep, InstancesStep, CollectedStep, OpenedStep, OrderedStep, PendingStep, OwnStep,
     NotedStep, AwaitedStep, MarkedStep DEF ReportInv

THEOREM ReportInvariance == ReportSpec => []ReportInv
  BY InitReportInv, NextIInv, PTL DEF ReportSpec

(* Every reachable state is well typed.                                      *)
THEOREM TypeCorrect == ReportSpec => []ReportTypeOK
<1>1. ReportInv => ReportTypeOK
  BY DEF ReportInv
<1> QED BY <1>1, ReportInvariance, PTL

LEMMA TooltipFollows == ReportInv => TooltipIsOfTheLaunch
<1> SUFFICES ASSUME ReportInv, NEW m \in Served,
                    Measurement(m) # 0, Live(Measurement(m)), FirstOnPort(Measurement(m)),
                    Tooltip(m) # "unmeasured"
             PROVE  Tooltip(m) = "measured" <=> load[Measurement(m)].cfg = saved[m]
  BY DEF TooltipIsOfTheLaunch
<1> USE DEF ReportInv
<1> DEFINE l == Measurement(m)
<1>1. l = byModel[m] /\ l \in Loads /\ l \in Spawned /\ Recorded(l)
  BY DEF Measurement, Collected, ReportTypeOK
<1>2. rec[l].buffers # {}
  BY DEF Tooltip
<1>3. Alone(l) /\ spawned # l
  BY <1>1, <1>2 DEF Alone, Opened
<1>4. rec[l].note.cfg = load[l].cfg /\ load[l].cfg # Nothing
  BY <1>1, <1>3, LoadType, NothingAssumption DEF Noted, Load
<1> HIDE DEF l
<1>5. Tooltip(m) = IF l = 0 \/ rec[l].buffers = {} THEN "unmeasured"
                   ELSE IF rec[l].note.cfg \in {Nothing, saved[m]} THEN "measured" ELSE "outdated"
  BY DEF Tooltip, l
<1>6. l # 0
  BY <1>1, Sizes
<1> QED BY <1>2, <1>4, <1>5, <1>6 DEF l

(* What a page says of the memory of a model is said of the load it shows:    *)
(* buffers carry only a port, notes are written late and from the running     *)
(* configs, and ports, routers and configs change meanwhile.                  *)
THEOREM Reported == ReportSpec => []ReportIsOfTheLoad
<1>1. ReportInv => ReportIsOfTheLoad
  BY TooltipFollows DEF ReportInv, ReportIsOfTheLoad
<1> QED BY <1>1, ReportInvariance, PTL

(* The reading of the cards filed for a load includes it, unless its recorder  *)
(* came while the monitor had a reading from before the load in hand, and a    *)
(* load that met another on its way is marked.                                *)
THEOREM CardsRead == ReportSpec => []CardReadingIsOfTheLoad
<1>1. ReportInv => ReadingIncludesLoad
  BY LoadType DEF ReportInv, ReadingIncludesLoad, Includes, Awaited, Alone, Live, HasNote, Recorded
<1>2. ReportInv => LateSpawnIsMarked
  <2> SUFFICES ASSUME ReportInv, NEW l \in Loads, NEW k \in Loads,
                      HasNote(l), rec[k] # Nothing, k < l, spawned = 0,
                      byPort[load[l].port] = l, byPort[load[k].port] = k, ~rec[k].ready
               PROVE  rec[l].note.contended
    BY DEF LateSpawnIsMarked
  <2> QED BY Sizes DEF ReportInv, Marked, Crossed, HasNote, Recorded, Port
<1> QED BY <1>1, <1>2, ReportInvariance, PTL DEF CardReadingIsOfTheLoad
=============================================================================
