------------------------------ MODULE JobProofs ------------------------------
(* The benchmark jobs: the queue that runs them (JobQueue) for any jobs,    *)
(* requests and bounds, and, at the end, the cells that a job's definition  *)
(* asks for (JobMatrix) for any definitions and limits.                     *)
EXTENDS JobQueue, JobMatrix, TLAPS

(* Where the runner has a cell in hand, and where it has a run.             *)
CellPCs == {"cell", "link", "measure", "skip", "read", "ok", "bad"}
RunPCs == {"link", "measure", "skip", "read", "ok"}

Slots(j) == 1 .. Len(heap[j])

Shape ==
    /\ TypeOK
    /\ heap \in [Jobs -> Seq(CellArrays)]

(* What the runner and the requests hold refers to an array there is, and  *)
(* the cell in hand is shown as running.                                   *)
RunnerHolds(j) ==
    /\ InFlight(j) => rj[j].ref \in Slots(j)
    /\ rj[j].pc \in CellPCs => rj[j].cell \in DOMAIN Mine(j) /\ MyCell(j).status = "running"
    /\ rj[j].pc \in RunPCs => rj[j].run # None
RequestHolds(h) ==
    /\ hd[h].pc \in {"mark", "submit"} => hd[h].id \in Jobs /\ hd[h].job.ref \in Slots(hd[h].id)
    /\ hd[h].pc = "delete" => hd[h].id \in Jobs /\ 1 \in Slots(hd[h].id)
Held == (\A j \in Jobs : RunnerHolds(j)) /\ (\A h \in Handlers : RequestHolds(h))

(* The file is what memory holds, but for failed cells that a retry has    *)
(* marked and not saved.                                                   *)
Copied(d, e) ==
    /\ d.run = e.run /\ d.skip = e.skip
    /\ d.status = e.status \/ (d.status = "failed" /\ e.status = "pending")
OnFile ==
    /\ disk.runs = runs
    /\ \A j \in Jobs :
        /\ disk.jobs[j].status = jobs[j].status
        /\ disk.jobs[j].kl = jobs[j].kl
        /\ Stored(j) =>
            /\ disk.jobs[j].cells \in CellArrays
            /\ DOMAIN disk.jobs[j].cells = DOMAIN CellsOf(j)
            /\ \A c \in DOMAIN CellsOf(j) : Copied(disk.jobs[j].cells[c], CellsOf(j)[c])

-----------------------------------------------------------------------------
(* Arrays of cells.                                                        *)

LEMMA ArrayIs ==
    ASSUME NEW a
    PROVE  a \in CellArrays <=> /\ DOMAIN a \in Matrices
                                /\ a = [c \in DOMAIN a |-> a[c]]
                                /\ \A c \in DOMAIN a : a[c] \in Cell
BY DEF CellArrays

LEMMA SetCellIs ==
    ASSUME heap \in [Jobs -> Seq(CellArrays)],
           NEW j \in Jobs, rj[j].ref \in Slots(j), NEW c \in DOMAIN Mine(j), NEW cell \in Cell,
           SetCell(j, c, cell)
    PROVE  /\ heap' \in [Jobs -> Seq(CellArrays)]
           /\ \A k \in Jobs : Len(heap'[k]) = Len(heap[k])
           /\ \A k \in Jobs : \A i \in Slots(k) :
                /\ DOMAIN heap'[k][i] = DOMAIN heap[k][i]
                /\ \A d \in DOMAIN heap[k][i] :
                    heap'[k][i][d] = IF k = j /\ i = rj[j].ref /\ d = c THEN cell ELSE heap[k][i][d]
<1> DEFINE r == rj[j].ref
<1>0. r \in Slots(j) /\ c \in DOMAIN heap[j][r] /\ heap' = [heap EXCEPT ![j][r][c] = cell]
  BY DEF SetCell, Mine
<1> HIDE DEF r
<1> DEFINE new == [heap[j][r] EXCEPT ![c] = cell]
<1>1. heap[j] \in Seq(CellArrays) /\ heap[j][r] \in CellArrays
  BY <1>0 DEF Slots
<1>2. new \in CellArrays
  <2>1. DOMAIN new = DOMAIN heap[j][r] /\ DOMAIN heap[j][r] \in Matrices
    BY <1>1, ArrayIs
  <2>2. \A d \in DOMAIN new : new[d] \in Cell
    BY <1>0, <1>1, ArrayIs
  <2>3. new = [d \in DOMAIN new |-> new[d]]
    OBVIOUS
  <2> HIDE DEF new
  <2> QED BY <2>1, <2>2, <2>3, ArrayIs
<1>3. heap' = [heap EXCEPT ![j] = [heap[j] EXCEPT ![r] = new]]
  BY <1>0
<1>4. [heap[j] EXCEPT ![r] = new] \in Seq(CellArrays)
  <2> HIDE DEF new
  <2> QED BY <1>0, <1>1, <1>2 DEF Slots
<1>5. /\ heap' \in [Jobs -> Seq(CellArrays)]
      /\ \A k \in Jobs \ {j} : heap'[k] = heap[k]
      /\ heap'[j] = [heap[j] EXCEPT ![r] = new]
  <2> HIDE DEF new
  <2> QED BY <1>3, <1>4
<1>6. /\ Len(heap'[j]) = Len(heap[j])
      /\ \A i \in Slots(j) : heap'[j][i] = IF i = r THEN new ELSE heap[j][i]
  <2> HIDE DEF new
  <2> QED BY <1>0, <1>1, <1>5 DEF Slots
<1>7. /\ DOMAIN new = DOMAIN heap[j][r]
      /\ \A d \in DOMAIN heap[j][r] : new[d] = IF d = c THEN cell ELSE heap[j][r][d]
  BY <1>0
<1> HIDE DEF new
<1> QED BY <1>0, <1>5, <1>6, <1>7 DEF r

LEMMA FreshIs ==
    ASSUME NEW m \in Matrices
    PROVE  /\ FreshCells(m) \in CellArrays
           /\ DOMAIN FreshCells(m) = m
           /\ \A c \in m : FreshCells(m)[c] = [status |-> "pending", run |-> None, skip |-> FALSE]
BY DEF FreshCells, CellArrays, Cell, CellStatuses

LEMMA KeptIs ==
    ASSUME NEW m \in Matrices, NEW a \in CellArrays
    PROVE  /\ KeptCells(a, m) \in CellArrays
           /\ DOMAIN KeptCells(a, m) = m
           /\ \A c \in m : KeptCells(a, m)[c] = FreshCells(m)[c]
                           \/ (c \in DOMAIN a /\ KeptCells(a, m)[c] = a[c])
<1>1. \A c \in DOMAIN a : a[c] \in Cell
  BY ArrayIs
<1>2. \A c \in m : FreshCells(m)[c] \in Cell
  BY FreshIs, ArrayIs
<1>3. KeptCells(a, m) \in [m -> Cell]
  BY <1>1, <1>2 DEF KeptCells
<1> QED BY <1>3 DEF KeptCells, CellArrays

LEMMA MarkIs ==
    ASSUME NEW a \in CellArrays
    PROVE  /\ Mark(a) \in CellArrays
           /\ DOMAIN Mark(a) = DOMAIN a
           /\ \A c \in DOMAIN a :
                Mark(a)[c] = IF a[c].status = "failed" THEN [a[c] EXCEPT !.status = "pending"] ELSE a[c]
<1>1. \A c \in DOMAIN a : a[c] \in Cell /\ [a[c] EXCEPT !.status = "pending"] \in Cell
  BY ArrayIs DEF Cell, CellStatuses
<1>2. Mark(a) \in [DOMAIN a -> Cell] /\ DOMAIN a \in Matrices
  BY <1>1, ArrayIs DEF Mark
<1> QED BY <1>2 DEF Mark, CellArrays

SetArray(j, r, a) == heap' = [heap EXCEPT ![j] = [heap[j] EXCEPT ![r] = a]]

LEMMA SetArrayIs ==
    ASSUME heap \in [Jobs -> Seq(CellArrays)],
           NEW j \in Jobs, NEW r \in Slots(j), NEW a \in CellArrays,
           DOMAIN a = DOMAIN heap[j][r],
           SetArray(j, r, a)
    PROVE  /\ heap' \in [Jobs -> Seq(CellArrays)]
           /\ \A k \in Jobs : Len(heap'[k]) = Len(heap[k])
           /\ \A k \in Jobs : \A i \in Slots(k) :
                heap'[k][i] = IF k = j /\ i = r THEN a ELSE heap[k][i]
<1>2. heap[j] \in Seq(CellArrays) /\ [heap[j] EXCEPT ![r] = a] \in Seq(CellArrays)
  BY DEF Slots
<1>3. /\ Len([heap[j] EXCEPT ![r] = a]) = Len(heap[j])
      /\ \A i \in Slots(j) : [heap[j] EXCEPT ![r] = a][i] = IF i = r THEN a ELSE heap[j][i]
  BY <1>2 DEF Slots
<1> QED BY <1>2, <1>3 DEF SetArray

LEMMA AppendIs ==
    ASSUME heap \in [Jobs -> Seq(CellArrays)],
           NEW j \in Jobs, NEW a \in CellArrays,
           heap' = [heap EXCEPT ![j] = Append(heap[j], a)]
    PROVE  /\ heap' \in [Jobs -> Seq(CellArrays)]
           /\ \A k \in Jobs : Len(heap'[k]) = IF k = j THEN Len(heap[k]) + 1 ELSE Len(heap[k])
           /\ \A k \in Jobs : \A i \in Slots(k) : heap'[k][i] = heap[k][i]
           /\ heap'[j][Len(heap[j]) + 1] = a
<1>1. heap[j] \in Seq(CellArrays) /\ Append(heap[j], a) \in Seq(CellArrays)
  OBVIOUS
<1>2. /\ Len(Append(heap[j], a)) = Len(heap[j]) + 1
      /\ \A i \in Slots(j) : Append(heap[j], a)[i] = heap[j][i]
      /\ Append(heap[j], a)[Len(heap[j]) + 1] = a
  BY <1>1 DEF Slots
<1>3. heap' \in [Jobs -> Seq(CellArrays)]
  BY <1>1
<1>4. heap'[j] = Append(heap[j], a) /\ \A k \in Jobs \ {j} : heap'[k] = heap[k]
  OBVIOUS
<1> QED BY <1>2, <1>3, <1>4

-----------------------------------------------------------------------------
(* Types and references.                                                   *)

LEMMA Facts ==
    /\ NCells \in Nat /\ MaxRuns \in Nat /\ MaxArrays \in Nat \ {0} /\ MaxCrashes \in Nat
    /\ \A m \in Matrices : m \subseteq Cells
    /\ \A s \in Scenarios : /\ s.jobs \subseteq Jobs /\ s.handlers \subseteq Handlers
                            /\ s.matrices \subseteq Matrices /\ s.runs \in 0 .. MaxRuns
    /\ None \notin Jobs /\ Jobs \subseteq Nat
BY SizesAssumption, MatricesAssumption, ScenariosAssumption, IdsAssumption

LEMMA MineIs ==
    ASSUME Shape, Held, NEW j \in Jobs, InFlight(j)
    PROVE  /\ rj[j].ref \in Slots(j)
           /\ Mine(j) \in CellArrays
           /\ DOMAIN Mine(j) \subseteq Cells
           /\ \A c \in DOMAIN Mine(j) : Mine(j)[c] \in Cell
<1>1. rj[j].ref \in Slots(j)
  BY DEF Held, RunnerHolds, RequestHolds
<1>2. Mine(j) \in CellArrays
  BY <1>1 DEF Shape, Mine, Slots
<1> QED BY <1>1, <1>2, ArrayIs, Facts

LEMMA PersistIs ==
    ASSUME Persist
    PROVE  /\ disk'.runs = runs'
           /\ \A j \in Jobs :
                /\ disk'.jobs[j].status = jobs'[j].status
                /\ disk'.jobs[j].kl = jobs'[j].kl
                /\ jobs'[j].ref # 0 => disk'.jobs[j].cells = heap'[j][jobs'[j].ref]
BY DEF Persist, FileOf

LEMMA PersistCopies ==
    ASSUME Persist, Shape'
    PROVE  OnFile'
<1> SUFFICES ASSUME NEW j \in Jobs, Stored(j)'
             PROVE  /\ disk'.jobs[j].cells \in CellArrays
                    /\ DOMAIN disk'.jobs[j].cells = DOMAIN CellsOf(j)'
                    /\ \A c \in DOMAIN CellsOf(j)' : Copied(disk'.jobs[j].cells[c], CellsOf(j)'[c])
  BY PersistIs DEF OnFile
<1>1. jobs'[j].ref \in Slots(j)' /\ jobs'[j].ref # 0
  BY DEF Shape, TypeOK, Slots, Job
<1>2. disk'.jobs[j].cells = CellsOf(j)' /\ CellsOf(j)' \in CellArrays
  BY <1>1, PersistIs DEF CellsOf, Shape, Slots
<1> QED BY <1>2 DEF Copied

RunnerType == [pc : RunnerPCs, ref : 0 .. MaxArrays, kl : Cells \cup {None},
               cell : 0 .. NCells, run : RunIds \cup {None}, canceled : BOOLEAN]
RequestType == [pc : HandlerPCs, id : Jobs \cup {None}, job : Job]

(* Steps of the runner that leave the arrays alone.                        *)
LEMMA RunnerOnly ==
    ASSUME Shape, Held, NEW j \in Jobs, UNCHANGED <<heap, hd, crashes, sc>>,
           jobs' \in [Jobs -> Job], \A k \in Jobs : jobs'[k].ref \in 0 .. Len(heap[k])
                                      /\ (jobs'[k].status # "absent" => jobs'[k].ref > 0),
           runs' \in [RunIds -> Run], started' \in 0 .. MaxRuns, current' \in Jobs \cup {None},
           NEW r \in RunnerType, rj' = [rj EXCEPT ![j] = r],
           r.pc # "none" => r.ref \in Slots(j),
           r.pc \in CellPCs => r.cell \in DOMAIN heap[j][r.ref] /\ heap[j][r.ref][r.cell].status = "running",
           r.pc \in RunPCs => r.run # None
    PROVE  Shape' /\ Held'
<1>1. rj' \in [Jobs -> RunnerType] /\ rj'[j] = r /\ \A k \in Jobs \ {j} : rj'[k] = rj[k]
  BY DEF Shape, TypeOK, RunnerType
<1>2. Shape'
  <2>1. \A k \in Jobs : /\ heap'[k] \in Seq(CellArrays)
                         /\ jobs'[k].ref <= Len(heap'[k])
                         /\ Stored(k)' => jobs'[k].ref > 0
    BY DEF Stored, Shape, TypeOK
  <2>2. rj' \in [Jobs -> RunnerType]
    BY <1>1
  <2>3. /\ hd' \in [Handlers -> RequestType] /\ crashes' \in 0 .. MaxCrashes /\ sc' \in Scenarios
        /\ heap' \in [Jobs -> Seq(CellArrays)]
    BY DEF Shape, TypeOK, RequestType
  <2>4. TypeOK'
    BY <2>1, <2>2, <2>3 DEF TypeOK, RunnerType, RequestType
  <2> QED BY <2>3, <2>4 DEF Shape
<1>3. Held'
  BY <1>1 DEF Held, RunnerHolds, RequestHolds, InFlight, Mine, MyCell, Slots
<1> QED BY <1>2, <1>3

(* Steps that set the cell in hand, or the next one.                       *)
LEMMA RunnerSets ==
    ASSUME Shape, Held, NEW j \in Jobs, InFlight(j), UNCHANGED <<hd, crashes, sc>>,
           NEW c \in DOMAIN Mine(j), NEW cell \in Cell, SetCell(j, c, cell),
           jobs' \in [Jobs -> Job], \A k \in Jobs : jobs'[k].ref \in 0 .. Len(heap[k])
                                      /\ (jobs'[k].status # "absent" => jobs'[k].ref > 0),
           runs' \in [RunIds -> Run], started' \in 0 .. MaxRuns, current' \in Jobs \cup {None},
           NEW r \in RunnerType, rj' = [rj EXCEPT ![j] = r], r.ref = rj[j].ref,
           r.pc \in CellPCs => r.cell = c /\ cell.status = "running",
           r.pc \in RunPCs => r.run # None
    PROVE  Shape' /\ Held'
<1>0. rj[j].ref \in Slots(j)
  BY MineIs
<1>1. rj' \in [Jobs -> RunnerType] /\ rj'[j] = r /\ \A k \in Jobs \ {j} : rj'[k] = rj[k]
  BY DEF Shape, TypeOK, RunnerType
<1>3. /\ heap' \in [Jobs -> Seq(CellArrays)]
      /\ \A k \in Jobs : Len(heap'[k]) = Len(heap[k])
      /\ \A k \in Jobs : \A i \in Slots(k) :
           /\ DOMAIN heap'[k][i] = DOMAIN heap[k][i]
           /\ \A d \in DOMAIN heap[k][i] :
                heap'[k][i][d] = IF k = j /\ i = rj[j].ref /\ d = c THEN cell ELSE heap[k][i][d]
  BY <1>0, SetCellIs DEF Shape
<1>4. Shape'
  <2>1. \A k \in Jobs : /\ heap'[k] \in Seq(CellArrays)
                         /\ jobs'[k].ref <= Len(heap'[k])
                         /\ Stored(k)' => jobs'[k].ref > 0
    BY <1>3 DEF Stored, Shape, TypeOK
  <2> QED BY <1>1, <1>3, <2>1 DEF Shape, TypeOK, RunnerType
<1>5. Held'
  <2>1. ASSUME NEW k \in Jobs
        PROVE  /\ InFlight(k)' => rj'[k].ref \in Slots(k)'
               /\ rj'[k].pc \in CellPCs => rj'[k].cell \in DOMAIN Mine(k)' /\ MyCell(k)'.status = "running"
               /\ rj'[k].pc \in RunPCs => rj'[k].run # None
    <3>1. CASE k = j
      BY <3>1, <1>0, <1>1, <1>3 DEF Held, RunnerHolds, RequestHolds, InFlight, Mine, MyCell, Slots
    <3>2. CASE k # j
      <4>1. rj'[k] = rj[k] /\ Slots(k)' = Slots(k)
        BY <3>2, <1>1, <1>3 DEF Slots
      <4>2. rj[k].pc \in CellPCs => InFlight(k)
        BY DEF CellPCs, InFlight
      <4>3. InFlight(k) => /\ rj[k].ref \in Slots(k)
                           /\ DOMAIN Mine(k)' = DOMAIN Mine(k)
                           /\ \A d \in DOMAIN Mine(k) : Mine(k)'[d] = Mine(k)[d]
        BY <3>2, <4>1, <1>3 DEF Held, RunnerHolds, RequestHolds, Mine
      <4> QED BY <4>1, <4>2, <4>3 DEF Held, RunnerHolds, RequestHolds, InFlight, MyCell
    <3> QED BY <3>1, <3>2
  <2>2. ASSUME NEW h \in Handlers
        PROVE  /\ hd'[h].pc \in {"mark", "submit"} => hd'[h].id \in Jobs /\ hd'[h].job.ref \in Slots(hd[h].id)'
               /\ hd'[h].pc = "delete" => hd'[h].id \in Jobs /\ 1 \in Slots(hd[h].id)'
    BY <1>3 DEF Held, RunnerHolds, RequestHolds, Slots
  <2> QED BY <2>1, <2>2 DEF Held, RunnerHolds, RequestHolds
<1> QED BY <1>4, <1>5

LEMMA SavedIs ==
    ASSUME Shape, Held, NEW j \in Jobs, InFlight(j), NEW s \in JobStatuses \ {"absent"}, SaveJob(j, s)
    PROVE  /\ jobs' \in [Jobs -> Job]
           /\ \A k \in Jobs : jobs'[k].ref \in 0 .. Len(heap[k])
                              /\ (jobs'[k].status # "absent" => jobs'[k].ref > 0)
           /\ jobs'[j] = [status |-> s, ref |-> rj[j].ref, kl |-> rj[j].kl]
           /\ \A k \in Jobs \ {j} : jobs'[k] = jobs[k]
<1>1. /\ rj[j] \in RunnerType /\ rj[j].ref \in Slots(j)
      /\ jobs \in [Jobs -> Job]
  BY DEF Shape, TypeOK, Held, RunnerHolds, RequestHolds, RunnerType
<1>2. [status |-> s, ref |-> rj[j].ref, kl |-> rj[j].kl] \in Job
  BY <1>1 DEF RunnerType, Job
<1>3. /\ jobs' \in [Jobs -> Job]
      /\ jobs'[j] = [status |-> s, ref |-> rj[j].ref, kl |-> rj[j].kl]
      /\ \A k \in Jobs \ {j} : jobs'[k] = jobs[k]
  BY <1>1, <1>2 DEF SaveJob
<1>4. \A k \in Jobs : jobs[k].ref \in 0 .. Len(heap[k]) /\ (jobs[k].status # "absent" => jobs[k].ref > 0)
  BY <1>1 DEF Shape, TypeOK, Stored, Job
<1> QED BY <1>1, <1>3, <1>4 DEF Slots

LEMMA TypedNow ==
    ASSUME Shape
    PROVE  /\ jobs \in [Jobs -> Job]
           /\ \A k \in Jobs : jobs[k].ref \in 0 .. Len(heap[k])
                              /\ (jobs[k].status # "absent" => jobs[k].ref > 0)
           /\ runs \in [RunIds -> Run] /\ started \in 0 .. MaxRuns /\ current \in Jobs \cup {None}
           /\ rj \in [Jobs -> RunnerType]
           /\ hd \in [Handlers -> RequestType]
           /\ sc \in Scenarios
BY DEF Shape, TypeOK, Stored, Job, RunnerType, RequestType

LEMMA RunnerShape ==
    ASSUME Shape, Held, NEW j \in sc.jobs, RunnerNext(j), UNCHANGED sc
    PROVE  Shape' /\ Held'
<1> j \in Jobs /\ rj[j] \in RunnerType /\ rj \in [Jobs -> RunnerType]
  BY TypedNow, Facts
<1> runs \in [RunIds -> Run] /\ started \in 0 .. MaxRuns /\ current \in Jobs \cup {None}
  BY TypedNow
<1>t. /\ jobs \in [Jobs -> Job]
      /\ \A k \in Jobs : jobs[k].ref \in 0 .. Len(heap[k])
                         /\ (jobs[k].status # "absent" => jobs[k].ref > 0)
  BY TypedNow
<1>c. ASSUME NEW c \in Cells PROVE [rj[j] EXCEPT !.cell = c] \in RunnerType
  BY Facts DEF RunnerType, Cells
<1>1. CASE RunStart(j)
  <2>1. InFlight(j) /\ SaveJob(j, "running") /\ "running" \in JobStatuses \ {"absent"}
    BY <1>1 DEF RunStart, InFlight, JobStatuses
  <2>2. [rj[j] EXCEPT !.pc = "loop"] \in RunnerType
    BY DEF RunnerType, RunnerPCs
  <2>3. rj[j].ref \in Slots(j)
    BY <2>1 DEF Held, RunnerHolds, RequestHolds
  <2> QED BY <1>1, <2>1, <2>2, <2>3, SavedIs, <1>t, RunnerOnly DEF RunStart, CellPCs, RunPCs, RunnerType
<1>2. CASE PassCell(j)
  <2>1. InFlight(j) /\ rj[j].ref \in Slots(j)
    BY <1>2 DEF PassCell, InFlight, Held, RunnerHolds, RequestHolds
  <2>2. PICK c \in Cells : rj' = [rj EXCEPT ![j].cell = c]
    BY <1>2 DEF PassCell
  <2>3. [rj[j] EXCEPT !.cell = c] \in RunnerType
    BY <1>c
  <2> QED BY <1>2, <2>1, <2>2, <2>3, <1>t, RunnerOnly DEF PassCell, mem, CellPCs, RunPCs, RunnerType
<1>3. CASE SkipCanceled(j)
  <2>1. InFlight(j) /\ SaveJob(j, "running") /\ "running" \in JobStatuses \ {"absent"}
    BY <1>3 DEF SkipCanceled, InFlight, JobStatuses
  <2>2. PICK c \in Cells : /\ c \in DOMAIN Mine(j)
                           /\ SetCell(j, c, [Mine(j)[c] EXCEPT !.status = "skipped"])
                           /\ rj' = [rj EXCEPT ![j].cell = c]
    BY <1>3 DEF SkipCanceled, IsNext, Left
  <2>3. [rj[j] EXCEPT !.cell = c] \in RunnerType
    BY <1>c
  <2>4. [Mine(j)[c] EXCEPT !.status = "skipped"] \in Cell
    BY <2>1, <2>2, MineIs DEF Cell, CellStatuses
  <2>s. /\ jobs' \in [Jobs -> Job]
        /\ \A k \in Jobs : jobs'[k].ref \in 0 .. Len(heap[k])
                           /\ (jobs'[k].status # "absent" => jobs'[k].ref > 0)
    BY <2>1, SavedIs
  <2>u. UNCHANGED <<runs, started, current, hd, crashes>> /\ InFlight(j)
    BY <1>3, <2>1 DEF SkipCanceled
  <2> DEFINE r == [rj[j] EXCEPT !.cell = c]
  <2>r. rj' = [rj EXCEPT ![j] = r] /\ r.ref = rj[j].ref /\ r.pc = "loop" /\ r \in RunnerType
    BY <1>3, <2>2, <2>3 DEF SkipCanceled, RunnerType
  <2> HIDE DEF r
  <2> QED BY <2>2, <2>4, <2>s, <2>u, <2>r, RunnerSets DEF CellPCs, RunPCs
<1>4. CASE StartCell(j)
  <2>1. InFlight(j) /\ SaveJob(j, "running") /\ "running" \in JobStatuses \ {"absent"}
    BY <1>4 DEF StartCell, InFlight, JobStatuses
  <2>2. PICK c \in Cells : /\ c \in DOMAIN Mine(j)
                           /\ SetCell(j, c, [Mine(j)[c] EXCEPT !.status = "running"])
                           /\ rj' = [rj EXCEPT ![j].cell = c, ![j].pc = "cell"]
    BY <1>4 DEF StartCell, IsNext, Left
  <2>3. [rj[j] EXCEPT !.cell = c, !.pc = "cell"] \in RunnerType
    BY <1>c DEF RunnerType, RunnerPCs
  <2>4. [Mine(j)[c] EXCEPT !.status = "running"] \in Cell
        /\ [Mine(j)[c] EXCEPT !.status = "running"].status = "running"
    BY <2>1, <2>2, MineIs DEF Cell, CellStatuses
  <2>5. rj' = [rj EXCEPT ![j] = [rj[j] EXCEPT !.cell = c, !.pc = "cell"]]
    BY <2>2
  <2> QED BY <1>4, <2>1, <2>2, <2>3, <2>4, <2>5, SavedIs, RunnerSets
          DEF StartCell, CellPCs, RunPCs, RunnerType
<1>5. CASE FailEarly(j)
  <2>1. [rj[j] EXCEPT !.pc = "bad"] \in RunnerType /\ InFlight(j)
    BY <1>5 DEF FailEarly, RunnerType, RunnerPCs, InFlight
  <2> QED BY <1>5, <2>1, <1>t, RunnerOnly, Zenon
          DEF FailEarly, mem, Held, RunnerHolds, RequestHolds, Mine, MyCell, CellPCs, RunPCs, RunnerType
<1>6. CASE CreateRun(j)
  <2>0. sc.runs \in 0 .. MaxRuns /\ MaxRuns \in Nat
    BY TypedNow, Facts
  <2>1. started + 1 \in RunIds /\ started' = started + 1 /\ started + 1 # None
    BY <1>6, <2>0 DEF CreateRun, RunIds, None
  <2>2. [rj[j] EXCEPT !.pc = "link", !.run = started + 1] \in RunnerType /\ InFlight(j)
    BY <1>6, <2>1 DEF CreateRun, RunnerType, RunnerPCs, InFlight
  <2>3. rj' = [rj EXCEPT ![j] = [rj[j] EXCEPT !.pc = "link", !.run = started + 1]]
    BY <1>6 DEF CreateRun
  <2>4. runs' \in [RunIds -> Run]
    BY <1>6, <2>1 DEF CreateRun, Run, RunStatuses
  <2>5. UNCHANGED <<jobs, heap, current, hd, crashes>> /\ rj[j].pc = "cell"
    BY <1>6 DEF CreateRun
  <2>6. started' \in 0 .. MaxRuns
    BY <2>0, <2>1 DEF RunIds
  <2> QED BY <2>1, <2>2, <2>3, <2>4, <2>5, <2>6, <1>t, RunnerOnly
          DEF Held, RunnerHolds, RequestHolds, Mine, MyCell, CellPCs, RunPCs, RunnerType
<1>7. CASE LinkRun(j)
  <2>1. InFlight(j) /\ SaveJob(j, "running") /\ "running" \in JobStatuses \ {"absent"} /\ rj[j].run # None
    BY <1>7 DEF LinkRun, InFlight, JobStatuses, Held, RunnerHolds, RequestHolds, RunPCs
  <2>2. rj[j].cell \in DOMAIN Mine(j) /\ MyCell(j).status = "running"
    BY <1>7 DEF LinkRun, Held, RunnerHolds, RequestHolds, CellPCs
  <2>3. [rj[j] EXCEPT !.pc = "measure"] \in RunnerType
    BY DEF RunnerType, RunnerPCs
  <2>4. [MyCell(j) EXCEPT !.run = rj[j].run] \in Cell
        /\ [MyCell(j) EXCEPT !.run = rj[j].run].status = "running"
    BY <2>1, <2>2, MineIs DEF Cell, MyCell, RunnerType
  <2>s. /\ jobs' \in [Jobs -> Job]
        /\ \A k \in Jobs : jobs'[k].ref \in 0 .. Len(heap[k])
                           /\ (jobs'[k].status # "absent" => jobs'[k].ref > 0)
    BY <2>1, SavedIs
  <2>u. UNCHANGED <<runs, started, current, hd, crashes>> /\ InFlight(j)
    BY <1>7, <2>1 DEF LinkRun
  <2> DEFINE r == [rj[j] EXCEPT !.pc = "measure"]
  <2>r. rj' = [rj EXCEPT ![j] = r] /\ r.ref = rj[j].ref /\ r.cell = rj[j].cell /\ r.run # None /\ r \in RunnerType
    BY <1>7, <2>1, <2>3 DEF LinkRun, RunnerType
  <2> DEFINE c == rj[j].cell
             cell == [MyCell(j) EXCEPT !.run = rj[j].run]
  <2>v. c \in DOMAIN Mine(j) /\ cell \in Cell /\ cell.status = "running" /\ SetCell(j, c, cell) /\ r.cell = c
    BY <1>7, <2>2, <2>4 DEF LinkRun
  <2> HIDE DEF r, c, cell
  <2> QED BY <2>s, <2>u, <2>r, <2>v, RunnerSets
<1>8. CASE EndRun(j)
  <2>1. PICK s \in {"completed", "failed"} :
            /\ runs' = [runs EXCEPT ![rj[j].run] = [status |-> s, job |-> j]]
            /\ rj' = [rj EXCEPT ![j].pc = IF ~IsKL(j) THEN "read"
                                          ELSE IF s = "completed" THEN "ok" ELSE "bad"]
    BY <1>8 DEF EndRun
  <2>2. PICK p \in {"read", "ok", "bad"} : rj' = [rj EXCEPT ![j].pc = p]
    BY <2>1
  <2>3. rj[j].pc = "measure" /\ InFlight(j) /\ rj[j].run # None
    BY <1>8 DEF EndRun, InFlight, Held, RunnerHolds, RequestHolds, RunPCs
  <2>4. [rj[j] EXCEPT !.pc = p] \in RunnerType
    BY DEF RunnerType, RunnerPCs
  <2>5. runs' \in [RunIds -> Run]
    BY <2>1, <2>3 DEF RunnerType, Run, RunStatuses
  <2>6. UNCHANGED <<jobs, heap, started, current, hd, crashes>>
    BY <1>8 DEF EndRun
  <2> QED BY <2>2, <2>3, <2>4, <2>5, <2>6, <1>t, RunnerOnly
          DEF Held, RunnerHolds, RequestHolds, Mine, MyCell, CellPCs, RunPCs, RunnerType
<1>9. CASE ReadBack(j)
  <2>1. PICK p \in {"ok", "bad"} : rj' = [rj EXCEPT ![j].pc = p]
    BY <1>9 DEF ReadBack
  <2>2. [rj[j] EXCEPT !.pc = p] \in RunnerType /\ InFlight(j)
    BY <1>9 DEF ReadBack, RunnerType, RunnerPCs, InFlight
  <2> QED BY <1>9, <2>1, <2>2, <1>t, RunnerOnly, ZenonT(60)
          DEF ReadBack, mem, Held, RunnerHolds, RequestHolds, Mine, MyCell, CellPCs, RunPCs, RunnerType
<1>10. CASE UnlinkRun(j)
  <2>1. InFlight(j) /\ rj[j].run # None
    BY <1>10 DEF UnlinkRun, InFlight, Held, RunnerHolds, RequestHolds, RunPCs
  <2>2. rj[j].cell \in DOMAIN Mine(j) /\ MyCell(j).status = "running"
    BY <1>10 DEF UnlinkRun, Held, RunnerHolds, RequestHolds, CellPCs
  <2>3. [rj[j] EXCEPT !.pc = "skip"] \in RunnerType
    BY DEF RunnerType, RunnerPCs
  <2>4. [MyCell(j) EXCEPT !.skip = TRUE] \in Cell /\ [MyCell(j) EXCEPT !.skip = TRUE].status = "running"
    BY <2>1, <2>2, MineIs DEF Cell, MyCell
  <2>5. runs' \in [RunIds -> Run]
    BY <1>10 DEF UnlinkRun, Run, RunStatuses, NoRun
  <2> QED BY <1>10, <2>1, <2>2, <2>3, <2>4, <2>5, <1>t, RunnerSets
          DEF UnlinkRun, CellPCs, RunPCs, RunnerType
<1>11. CASE SkipReference(j)
  <2>1. InFlight(j) /\ SaveJob(j, "running") /\ "running" \in JobStatuses \ {"absent"} /\ rj[j].run # None
    BY <1>11 DEF SkipReference, InFlight, JobStatuses, Held, RunnerHolds, RequestHolds, RunPCs
  <2>2. rj[j].cell \in DOMAIN Mine(j) /\ MyCell(j).status = "running"
    BY <1>11 DEF SkipReference, Held, RunnerHolds, RequestHolds, CellPCs
  <2>3. [rj[j] EXCEPT !.pc = "ok"] \in RunnerType
    BY DEF RunnerType, RunnerPCs
  <2>4. [MyCell(j) EXCEPT !.run = None] \in Cell /\ [MyCell(j) EXCEPT !.run = None].status = "running"
    BY <2>1, <2>2, MineIs DEF Cell, MyCell
  <2>s. /\ jobs' \in [Jobs -> Job]
        /\ \A k \in Jobs : jobs'[k].ref \in 0 .. Len(heap[k])
                           /\ (jobs'[k].status # "absent" => jobs'[k].ref > 0)
    BY <2>1, SavedIs
  <2>u. UNCHANGED <<runs, started, current, hd, crashes>> /\ InFlight(j)
    BY <1>11, <2>1 DEF SkipReference
  <2> DEFINE r == [rj[j] EXCEPT !.pc = "ok"]
  <2>r. rj' = [rj EXCEPT ![j] = r] /\ r.ref = rj[j].ref /\ r.cell = rj[j].cell /\ r.run # None /\ r \in RunnerType
    BY <1>11, <2>1, <2>3 DEF SkipReference, RunnerType
  <2> DEFINE c == rj[j].cell
             cell == [MyCell(j) EXCEPT !.run = None]
  <2>v. c \in DOMAIN Mine(j) /\ cell \in Cell /\ cell.status = "running" /\ SetCell(j, c, cell) /\ r.cell = c
    BY <1>11, <2>2, <2>4 DEF SkipReference
  <2> HIDE DEF r, c, cell
  <2> QED BY <2>s, <2>u, <2>r, <2>v, RunnerSets
<1>12. CASE EndCell(j)
  <2>1. InFlight(j) /\ SaveJob(j, "running") /\ "running" \in JobStatuses \ {"absent"}
    BY <1>12 DEF EndCell, InFlight, JobStatuses
  <2>2. rj[j].cell \in DOMAIN Mine(j)
    BY <1>12 DEF EndCell, Held, RunnerHolds, RequestHolds, CellPCs
  <2>3. PICK s \in {"completed", "failed"} : SetCell(j, rj[j].cell, [MyCell(j) EXCEPT !.status = s])
    BY <1>12 DEF EndCell
  <2>4. [MyCell(j) EXCEPT !.status = s] \in Cell
    BY <2>1, <2>2, MineIs DEF Cell, CellStatuses, MyCell
  <2>5. [rj[j] EXCEPT !.pc = "loop", !.run = None] \in RunnerType
    BY DEF RunnerType, RunnerPCs
  <2>6. rj' = [rj EXCEPT ![j] = [rj[j] EXCEPT !.pc = "loop", !.run = None]]
    BY <1>12 DEF EndCell
  <2>s. /\ jobs' \in [Jobs -> Job]
        /\ \A k \in Jobs : jobs'[k].ref \in 0 .. Len(heap[k])
                           /\ (jobs'[k].status # "absent" => jobs'[k].ref > 0)
    BY <2>1, SavedIs
  <2>u. UNCHANGED <<runs, started, current, hd, crashes>> /\ InFlight(j)
    BY <1>12, <2>1 DEF EndCell
  <2> DEFINE r == [rj[j] EXCEPT !.pc = "loop", !.run = None]
  <2>r. rj' = [rj EXCEPT ![j] = r] /\ r.ref = rj[j].ref /\ r.pc = "loop" /\ r \in RunnerType
    BY <2>5, <2>6 DEF RunnerType
  <2> HIDE DEF r
  <2> QED BY <2>2, <2>3, <2>4, <2>s, <2>u, <2>r, RunnerSets DEF CellPCs, RunPCs
<1>13. CASE Finish(j)
  <2>1. InFlight(j) /\ rj[j].ref \in Slots(j)
    BY <1>13 DEF Finish, InFlight, Held, RunnerHolds, RequestHolds
  <2>2. PICK s \in {"canceled", "completed", "failed"} : SaveJob(j, s)
    BY <1>13 DEF Finish, FinalStatus
  <2>3. s \in JobStatuses \ {"absent"}
    BY DEF JobStatuses
  <2>4. [rj[j] EXCEPT !.pc = "restore"] \in RunnerType
    BY DEF RunnerType, RunnerPCs
  <2> QED BY <1>13, <2>1, <2>2, <2>3, <2>4, SavedIs, <1>t, RunnerOnly DEF Finish, CellPCs, RunPCs, RunnerType
<1>14. CASE Restore(j)
  <2>1. [rj[j] EXCEPT !.pc = "release"] \in RunnerType /\ InFlight(j) /\ rj[j].ref \in Slots(j)
    BY <1>14 DEF Restore, RunnerType, RunnerPCs, InFlight, Held, RunnerHolds, RequestHolds
  <2> QED BY <1>14, <2>1, <1>t, RunnerOnly DEF Restore, mem, CellPCs, RunPCs, RunnerType
<1>15. CASE Release(j)
  <2>1. Idle \in RunnerType /\ Idle.pc = "none"
    BY Facts DEF Idle, RunnerType, RunnerPCs, None
  <2> QED BY <1>15, <2>1, <1>t, RunnerOnly DEF Release, mem, CellPCs, RunPCs
<1> QED BY <1>1, <1>2, <1>3, <1>4, <1>5, <1>6, <1>7, <1>8, <1>9, <1>10, <1>11, <1>12, <1>13,
           <1>14, <1>15 DEF RunnerNext

(* Steps of the requests: arrays are added, or marked where no cell runs.   *)
HeapGrows ==
    /\ heap' \in [Jobs -> Seq(CellArrays)]
    /\ \A k \in Jobs : Len(heap[k]) <= Len(heap'[k])
    /\ \A k \in Jobs : \A i \in Slots(k) :
        /\ DOMAIN heap'[k][i] = DOMAIN heap[k][i]
        /\ \A c \in DOMAIN heap[k][i] :
            heap[k][i][c].status = "running" => heap'[k][i][c].status = "running"
JobsTyped ==
    /\ jobs \in [Jobs -> Job]
    /\ \A k \in Jobs : jobs[k].ref <= Len(heap[k]) /\ (Stored(k) => jobs[k].ref > 0)
RestTyped ==
    /\ runs \in [RunIds -> Run] /\ started \in 0 .. MaxRuns
    /\ current \in Jobs \cup {None} /\ crashes \in 0 .. MaxCrashes
SameHand(k) ==
    rj'[k].pc = rj[k].pc /\ rj'[k].ref = rj[k].ref /\ rj'[k].cell = rj[k].cell /\ rj'[k].run = rj[k].run
Starts(k) == rj'[k].pc = "start" /\ rj'[k].ref \in Slots(k)'

LEMMA Typed ==
    Shape <=> /\ heap \in [Jobs -> Seq(CellArrays)]
              /\ JobsTyped /\ RestTyped
              /\ rj \in [Jobs -> RunnerType] /\ hd \in [Handlers -> RequestType]
              /\ sc \in Scenarios
BY DEF Shape, TypeOK, JobsTyped, RestTyped, RunnerType, RequestType

LEMMA RequestKeeps ==
    ASSUME Shape, Held, HeapGrows, JobsTyped', RestTyped', UNCHANGED sc,
           rj' \in [Jobs -> RunnerType], hd' \in [Handlers -> RequestType],
           \A k \in Jobs : SameHand(k) \/ Starts(k),
           \A h \in Handlers : hd'[h] = hd[h] \/ RequestHolds(h)'
    PROVE  Shape' /\ Held'
<1>1. Shape'
  <2>1. sc' \in Scenarios /\ heap' \in [Jobs -> Seq(CellArrays)]
    BY Typed DEF HeapGrows
  <2> QED BY <2>1 DEF Shape, TypeOK, JobsTyped, RestTyped, RunnerType, RequestType
<1>2. ASSUME NEW k \in Jobs PROVE RunnerHolds(k)'
  <2>1. CASE Starts(k)
    BY <2>1 DEF Starts, RunnerHolds, CellPCs, RunPCs
  <2>2. CASE SameHand(k)
    <3>1. RunnerHolds(k)
      BY DEF Held
    <3>2. Slots(k) \subseteq Slots(k)'
      BY DEF HeapGrows, Slots, Shape
    <3>3. rj[k].pc \in CellPCs => InFlight(k)
      BY DEF CellPCs, InFlight
    <3>4. rj[k].ref \in Slots(k) /\ rj[k].cell \in DOMAIN Mine(k) /\ MyCell(k).status = "running" =>
            rj'[k].cell \in DOMAIN Mine(k)' /\ MyCell(k)'.status = "running"
      BY <2>2 DEF SameHand, HeapGrows, Mine, MyCell
    <3> QED BY <2>2, <3>1, <3>2, <3>3, <3>4 DEF SameHand, RunnerHolds, InFlight
  <2> QED BY <2>1, <2>2
<1>3. ASSUME NEW h \in Handlers PROVE RequestHolds(h)'
  <2>1. CASE hd'[h] = hd[h]
    <3>1. \A k \in Jobs : Slots(k) \subseteq Slots(k)'
      BY DEF HeapGrows, Slots, Shape
    <3>2. RequestHolds(h)
      BY DEF Held
    <3> QED BY <2>1, <3>1, <3>2 DEF RequestHolds
  <2> QED BY <2>1
<1> QED BY <1>1, <1>2, <1>3 DEF Held

LEMMA SameHeap == ASSUME Shape, UNCHANGED heap PROVE HeapGrows
BY DEF HeapGrows, Shape, Slots

LEMMA AcceptIs ==
    ASSUME Shape, NEW j \in Jobs, NEW entry \in Job, Accept(j, entry), HeapGrows,
           entry.ref \in Slots(j)'
    PROVE  /\ JobsTyped' /\ rj' \in [Jobs -> RunnerType] /\ current' \in Jobs
           /\ \A k \in Jobs : SameHand(k) \/ Starts(k)
           /\ jobs'[j] = [entry EXCEPT !.status = "pending"]
           /\ \A k \in Jobs \ {j} : jobs'[k] = jobs[k] /\ rj'[k] = rj[k]
           /\ rj'[j] = [Idle EXCEPT !.pc = "start", !.ref = entry.ref, !.kl = entry.kl]
<1> DEFINE new == [Idle EXCEPT !.pc = "start", !.ref = entry.ref, !.kl = entry.kl]
<1>1. /\ jobs \in [Jobs -> Job] /\ rj \in [Jobs -> RunnerType]
      /\ \A k \in Jobs : jobs[k].ref <= Len(heap[k]) /\ (Stored(k) => jobs[k].ref > 0)
  BY Typed DEF JobsTyped
<1>2. new \in RunnerType /\ new.pc = "start" /\ new.ref = entry.ref
  <2>1. Idle \in RunnerType
    BY Facts DEF Idle, RunnerType, RunnerPCs, None
  <2>2. entry.ref \in 0 .. MaxArrays /\ entry.kl \in Cells \cup {None}
    BY DEF Job
  <2> QED BY <2>1, <2>2 DEF RunnerType, RunnerPCs
<1>3. [entry EXCEPT !.status = "pending"] \in Job /\ [entry EXCEPT !.status = "pending"].ref = entry.ref
  BY DEF Job, JobStatuses
<1>4. /\ rj' = [rj EXCEPT ![j] = new] /\ current' = j
      /\ jobs' = [jobs EXCEPT ![j] = [entry EXCEPT !.status = "pending"]]
  BY DEF Accept
<1>5. /\ rj' \in [Jobs -> RunnerType] /\ rj'[j] = new
      /\ \A k \in Jobs \ {j} : rj'[k] = rj[k]
  <2> HIDE DEF new
  <2> QED BY <1>1, <1>2, <1>4
<1>6. /\ jobs' \in [Jobs -> Job] /\ jobs'[j] = [entry EXCEPT !.status = "pending"]
      /\ \A k \in Jobs \ {j} : jobs'[k] = jobs[k]
  BY <1>1, <1>3, <1>4
<1>7. JobsTyped'
  <2>1. ASSUME NEW k \in Jobs
        PROVE  jobs'[k].ref <= Len(heap'[k]) /\ (Stored(k)' => jobs'[k].ref > 0)
    <3>1. CASE k = j
      BY <3>1, <1>3, <1>6 DEF Slots, HeapGrows
    <3>2. CASE k # j
      <4>1. jobs'[k] = jobs[k] /\ jobs[k].ref \in Nat
        BY <3>2, <1>1, <1>6 DEF Job
      <4>2. Len(heap[k]) <= Len(heap'[k]) /\ Len(heap[k]) \in Nat /\ Len(heap'[k]) \in Nat
        BY DEF HeapGrows, Shape
      <4> QED BY <1>1, <4>1, <4>2 DEF Stored
    <3> QED BY <3>1, <3>2
  <2> QED BY <1>6, <2>1 DEF JobsTyped
<1>8. \A k \in Jobs : SameHand(k) \/ Starts(k)
  <2> HIDE DEF new
  <2>1. Starts(j)
    BY <1>2, <1>5 DEF Starts
  <2>2. \A k \in Jobs \ {j} : SameHand(k)
    BY <1>5 DEF SameHand
  <2> QED BY <2>1, <2>2
<1> QED BY <1>4, <1>5, <1>6, <1>7, <1>8

LEMMA NoRequestIs ==
    NoJob \in Job /\ NoRequest \in RequestType /\ NoRequest.pc = "idle"
<1>1. NoJob \in Job
  BY Facts DEF NoJob, Job, JobStatuses, None
<1> QED BY <1>1 DEF NoRequest, RequestType, HandlerPCs

LEMMA AppendGrows ==
    ASSUME Shape, NEW j \in Jobs, NEW a \in CellArrays, heap' = [heap EXCEPT ![j] = Append(heap[j], a)]
    PROVE  HeapGrows /\ Len(heap[j]) + 1 \in Slots(j)'
<1>1. /\ heap' \in [Jobs -> Seq(CellArrays)]
      /\ \A k \in Jobs : Len(heap'[k]) = IF k = j THEN Len(heap[k]) + 1 ELSE Len(heap[k])
      /\ \A k \in Jobs : \A i \in Slots(k) : heap'[k][i] = heap[k][i]
  BY AppendIs DEF Shape
<1>2. \A k \in Jobs : Len(heap[k]) \in Nat
  BY DEF Shape
<1> QED BY <1>1, <1>2 DEF HeapGrows, Slots

LEMMA CreateIs ==
    ASSUME Shape, NEW j \in Jobs, NEW m \in Matrices, NEW k \in References(m), Create(j, m, k)
    PROVE  /\ HeapGrows /\ heap[j] = <<>> /\ 1 \in Slots(j)'
           /\ heap' = [heap EXCEPT ![j] = Append(heap[j], FreshCells(m))]
           /\ [status |-> "pending", ref |-> 1, kl |-> k] \in Job
           /\ Accept(j, [status |-> "pending", ref |-> 1, kl |-> k])
           /\ UNCHANGED <<runs, started, hd, crashes>> /\ Persist
<1>1. heap[j] = <<>> /\ heap' = [heap EXCEPT ![j] = <<FreshCells(m)>>]
  BY DEF Create
<1>2. Append(heap[j], FreshCells(m)) = <<FreshCells(m)>> /\ Len(heap[j]) = 0
  BY <1>1
<1>3. heap' = [heap EXCEPT ![j] = Append(heap[j], FreshCells(m))]
  BY <1>1, <1>2
<1>4. HeapGrows /\ 1 \in Slots(j)'
  <2>1. FreshCells(m) \in CellArrays
    BY FreshIs
  <2>2. HeapGrows /\ Len(heap[j]) + 1 \in Slots(j)'
    BY <1>3, <2>1, AppendGrows
  <2> QED BY <1>2, <2>2
<1>5. [status |-> "pending", ref |-> 1, kl |-> k] \in Job
  <2>1. k \in Cells \cup {None}
    BY DEF References
  <2>2. 1 \in 0 .. MaxArrays
    BY Facts
  <2> QED BY <2>1, <2>2 DEF Job, JobStatuses
<1> QED BY <1>1, <1>3, <1>4, <1>5 DEF Create

LEMMA CreateShape ==
    ASSUME Shape, Held, UNCHANGED sc,
           NEW j \in Jobs, NEW m \in Matrices, NEW k \in References(m), Create(j, m, k)
    PROVE  Shape' /\ Held'
<1> DEFINE entry == [status |-> "pending", ref |-> 1, kl |-> k]
<1>1. /\ HeapGrows /\ 1 \in Slots(j)' /\ entry \in Job /\ entry.ref = 1 /\ Accept(j, entry)
      /\ UNCHANGED <<runs, started, hd, crashes>>
  BY CreateIs
<1> HIDE DEF entry
<1>2. /\ JobsTyped' /\ rj' \in [Jobs -> RunnerType] /\ current' \in Jobs
      /\ \A i \in Jobs : SameHand(i) \/ Starts(i)
  BY <1>1, AcceptIs
<1>3. RestTyped' /\ hd' \in [Handlers -> RequestType]
  BY <1>1, <1>2, Typed DEF RestTyped
<1> QED BY <1>1, <1>2, <1>3, RequestKeeps

LEMMA SubmitShape ==
    ASSUME Shape, Held, UNCHANGED sc, NEW h \in Handlers, SubmitCopy(h)
    PROVE  Shape' /\ Held'
<1> PICK j \in Jobs, entry \in Job : j = hd[h].id /\ entry = hd[h].job /\ entry.ref \in Slots(j)
  BY Typed DEF SubmitCopy, Held, RequestHolds, RequestType
<1>2. UNCHANGED <<heap, runs, started, crashes>> /\ hd' = [hd EXCEPT ![h] = NoRequest]
  BY DEF SubmitCopy, mem
<1>3. HeapGrows /\ Slots(j)' = Slots(j)
  BY <1>2, SameHeap DEF Slots
<1>4. NoRequest \in RequestType /\ NoRequest.pc = "idle"
  BY NoRequestIs
<1>5. /\ hd' \in [Handlers -> RequestType]
      /\ \A g \in Handlers : hd'[g] = hd[g] \/ RequestHolds(g)'
  BY <1>2, <1>4, Typed DEF RequestHolds
<1>6. CASE Accept(j, entry)
  <2>1. /\ JobsTyped' /\ rj' \in [Jobs -> RunnerType] /\ current' \in Jobs
        /\ \A i \in Jobs : SameHand(i) \/ Starts(i)
    BY <1>3, <1>6, AcceptIs
  <2>2. RestTyped'
    BY <1>2, <2>1, Typed DEF RestTyped
  <2> QED BY <1>3, <1>5, <2>1, <2>2, RequestKeeps
<1>7. CASE UNCHANGED <<mem, current, rj>>
  <2>1. JobsTyped' /\ RestTyped' /\ rj' \in [Jobs -> RunnerType] /\ \A i \in Jobs : SameHand(i)
    BY <1>2, <1>7, Typed DEF JobsTyped, RestTyped, Stored, mem, SameHand
  <2> QED BY <1>3, <1>5, <2>1, RequestKeeps
<1> QED BY <1>6, <1>7 DEF SubmitCopy

(* Steps that leave the runner and the queue alone.                        *)
LEMMA AsideShape ==
    ASSUME Shape, Held, HeapGrows, UNCHANGED <<sc, started, current, rj, crashes>>,
           JobsTyped', runs' \in [RunIds -> Run],
           NEW h \in Handlers, NEW q \in RequestType, hd' = [hd EXCEPT ![h] = q],
           q.pc \in {"mark", "submit"} => q.id \in Jobs /\ q.job.ref \in Slots(q.id)',
           q.pc = "delete" => q.id \in Jobs /\ 1 \in Slots(q.id)'
    PROVE  Shape' /\ Held'
<1>1. hd' \in [Handlers -> RequestType] /\ hd'[h] = q /\ \A g \in Handlers \ {h} : hd'[g] = hd[g]
  BY Typed
<1>2. RestTyped' /\ rj' \in [Jobs -> RunnerType] /\ \A i \in Jobs : SameHand(i)
  BY Typed DEF RestTyped, SameHand
<1>3. RequestHolds(h)'
  BY <1>1 DEF RequestHolds
<1> QED BY <1>1, <1>2, <1>3, RequestKeeps

LEMMA RetryGetShape ==
    ASSUME Shape, Held, UNCHANGED sc, NEW h \in Handlers, NEW j \in Jobs, RetryGet(h, j)
    PROVE  Shape' /\ Held'
<1> DEFINE q == [pc |-> "mark", id |-> j, job |-> [jobs[j] EXCEPT !.status = "pending"]]
<1>1. UNCHANGED <<jobs, heap, runs, started, current, rj, crashes>> /\ hd' = [hd EXCEPT ![h] = q] /\ Stored(j)
  BY DEF RetryGet, mem
<1>2. jobs[j] \in Job /\ jobs[j].ref \in Slots(j)
  BY <1>1, Typed DEF JobsTyped, Slots, Job
<1>3. q \in RequestType /\ q.pc = "mark" /\ q.id = j /\ q.job.ref = jobs[j].ref
  BY <1>2 DEF RequestType, HandlerPCs, Job, JobStatuses
<1>4. HeapGrows /\ Slots(j)' = Slots(j) /\ JobsTyped' /\ runs' \in [RunIds -> Run]
  BY <1>1, SameHeap, Typed DEF Slots, JobsTyped, RestTyped, Stored
<1> HIDE DEF q
<1> QED BY <1>1, <1>2, <1>3, <1>4, AsideShape

Marks(h) ==
    heap' = [heap EXCEPT ![hd[h].id][hd[h].job.ref] = Mark(heap[hd[h].id][hd[h].job.ref])]

LEMMA MarkGrows ==
    ASSUME Shape, Held, NEW h \in Handlers, hd[h].pc = "mark", Marks(h)
    PROVE  /\ HeapGrows
           /\ \A k \in Jobs : Len(heap'[k]) = Len(heap[k])
           /\ \A k \in Jobs : \A i \in Slots(k) :
                heap'[k][i] = heap[k][i] \/ heap'[k][i] = Mark(heap[k][i])
<1> PICK j \in Jobs : j = hd[h].id /\ hd[h].job.ref \in Slots(j)
  BY DEF Held, RequestHolds
<1> PICK r \in Slots(j) : r = hd[h].job.ref
  OBVIOUS
<1> DEFINE a == heap[j][r]
<1>1. SetArray(j, r, Mark(a))
  BY DEF SetArray, Marks
<1>2. a \in CellArrays
  BY <1>1 DEF Shape, Slots
<1>3. /\ Mark(a) \in CellArrays
      /\ DOMAIN Mark(a) = DOMAIN a
      /\ \A c \in DOMAIN a : a[c].status = "running" => Mark(a)[c].status = "running"
  BY <1>2, MarkIs, Zenon
<1>4. /\ heap' \in [Jobs -> Seq(CellArrays)]
      /\ \A k \in Jobs : Len(heap'[k]) = Len(heap[k])
      /\ \A k \in Jobs : \A i \in Slots(k) :
            heap'[k][i] = IF k = j /\ i = r THEN Mark(a) ELSE heap[k][i]
  <2>1. PICK b \in CellArrays : b = Mark(a)
    BY <1>3
  <2>2. DOMAIN b = DOMAIN heap[j][r] /\ SetArray(j, r, b)
    BY <1>1, <1>3, <2>1
  <2>3. heap \in [Jobs -> Seq(CellArrays)]
    BY DEF Shape
  <2>4. /\ heap' \in [Jobs -> Seq(CellArrays)]
        /\ \A k \in Jobs : Len(heap'[k]) = Len(heap[k])
        /\ \A k \in Jobs : \A i \in Slots(k) :
              heap'[k][i] = IF k = j /\ i = r THEN b ELSE heap[k][i]
    BY <2>2, <2>3, SetArrayIs
  <2> QED BY <2>1, <2>4
<1>5. \A k \in Jobs : Len(heap[k]) \in Nat
  BY DEF Shape
<1>6. HeapGrows
  <2> HIDE DEF a
  <2>1. ASSUME NEW k \in Jobs, NEW i \in Slots(k)
        PROVE  /\ DOMAIN heap'[k][i] = DOMAIN heap[k][i]
               /\ \A c \in DOMAIN heap[k][i] :
                    heap[k][i][c].status = "running" => heap'[k][i][c].status = "running"
    <3>1. CASE k = j /\ i = r
      <4>1. heap'[k][i] = Mark(a) /\ heap[k][i] = a
        BY <1>4, <3>1 DEF a
      <4> QED BY <1>3, <4>1
    <3>2. CASE ~(k = j /\ i = r)
      BY <1>4, <3>2
    <3> QED BY <3>1, <3>2
  <2> QED BY <1>4, <1>5, <2>1 DEF HeapGrows
<1> QED BY <1>4, <1>6

LEMMA RetryMarkShape ==
    ASSUME Shape, Held, UNCHANGED sc, NEW h \in Handlers, RetryMark(h)
    PROVE  Shape' /\ Held'
<1>1. /\ hd[h].pc = "mark" /\ UNCHANGED <<jobs, runs, started, current, rj, crashes>>
      /\ hd[h] \in RequestType /\ hd[h].id \in Jobs /\ hd[h].job.ref \in Slots(hd[h].id)
  BY Typed DEF RetryMark, Held, RequestHolds
<1>2. CASE /\ Marks(h)
           /\ hd' = [hd EXCEPT ![h].pc = "submit"]
  <2>1. HeapGrows /\ \A k \in Jobs : Len(heap'[k]) = Len(heap[k])
    BY <1>1, <1>2, MarkGrows
  <2>2. \A k \in Jobs : Slots(k)' = Slots(k)
    BY <2>1 DEF Slots
  <2>3. JobsTyped' /\ runs' \in [RunIds -> Run]
    BY <1>1, <2>1, Typed DEF JobsTyped, RestTyped, Stored
  <2>4. PICK q \in RequestType : /\ q.pc = "submit" /\ q.id = hd[h].id /\ q.job = hd[h].job
                                 /\ hd' = [hd EXCEPT ![h] = q]
    <3>1. [hd[h] EXCEPT !.pc = "submit"] \in RequestType
      BY <1>1 DEF RequestType, HandlerPCs
    <3> QED BY <1>1, <1>2, <3>1 DEF RequestType
  <2>5. q.id \in Jobs /\ q.job.ref \in Slots(q.id)'
    BY <1>1, <2>2, <2>4
  <2> QED BY <1>1, <2>1, <2>3, <2>4, <2>5, AsideShape
<1>3. CASE UNCHANGED heap /\ hd' = [hd EXCEPT ![h] = NoRequest]
  <2>1. NoRequest \in RequestType /\ NoRequest.pc = "idle"
    BY NoRequestIs
  <2>2. HeapGrows /\ JobsTyped' /\ runs' \in [RunIds -> Run]
    BY <1>1, <1>3, SameHeap, Typed DEF JobsTyped, RestTyped, Stored
  <2> QED BY <1>1, <1>3, <2>1, <2>2, AsideShape
<1> QED BY <1>2, <1>3 DEF RetryMark, Marks

LEMMA EditIs ==
    ASSUME Shape, NEW h \in Handlers, NEW j \in Jobs, NEW m \in Matrices, NEW k \in References(m),
           EditStore(h, j, m, k)
    PROVE  /\ KeptCells(CellsOf(j), m) \in CellArrays /\ CellsOf(j) \in CellArrays
           /\ jobs[j].ref \in Slots(j)
           /\ heap' = [heap EXCEPT ![j] = Append(heap[j], KeptCells(CellsOf(j), m))]
           /\ [status |-> "pending", ref |-> Len(heap[j]) + 1, kl |-> k] \in Job
<1>1. jobs[j].ref \in Slots(j)
  BY Typed DEF EditStore, JobsTyped, Slots, Job
<1>2. CellsOf(j) \in CellArrays
  BY <1>1 DEF Shape, CellsOf, Slots
<1>3. k \in Cells \cup {None}
  BY DEF References
<1>4. Len(heap[j]) + 1 \in 0 .. MaxArrays
  BY Facts DEF EditStore, Shape
<1>5. [status |-> "pending", ref |-> Len(heap[j]) + 1, kl |-> k] \in Job
  BY <1>3, <1>4 DEF Job, JobStatuses
<1>6. KeptCells(CellsOf(j), m) \in CellArrays
  BY <1>2, KeptIs
<1>7. heap' = [heap EXCEPT ![j] = Append(heap[j], KeptCells(CellsOf(j), m))]
  BY DEF EditStore
<1> QED BY <1>1, <1>2, <1>5, <1>6, <1>7

LEMMA EditShape ==
    ASSUME Shape, Held, UNCHANGED sc,
           NEW h \in Handlers, NEW j \in Jobs, NEW m \in Matrices, NEW k \in References(m),
           EditStore(h, j, m, k)
    PROVE  Shape' /\ Held'
<1> PICK entry \in Job : entry = [status |-> "pending", ref |-> Len(heap[j]) + 1, kl |-> k]
  BY EditIs
<1> PICK new \in CellArrays : new = KeptCells(CellsOf(j), m)
  BY EditIs
<1>1. HeapGrows /\ entry.ref \in Slots(j)'
  <2>1. heap' = [heap EXCEPT ![j] = Append(heap[j], new)]
    BY EditIs
  <2> QED BY <2>1, AppendGrows
<1>2. /\ UNCHANGED <<started, current, rj, crashes>>
      /\ hd' = [hd EXCEPT ![h] = [pc |-> "submit", id |-> j, job |-> entry]]
      /\ jobs' = [jobs EXCEPT ![j] = entry]
  BY DEF EditStore
<1>3. runs' \in [RunIds -> Run]
  <2>1. runs \in [RunIds -> Run]
    BY Typed DEF RestTyped
  <2>2. \A r \in RunIds : runs'[r] = runs[r] \/ runs'[r] = [runs[r] EXCEPT !.job = Adhoc]
    BY DEF EditStore
  <2>3. \A r \in RunIds : runs'[r] \in Run
    BY <2>1, <2>2 DEF Run
  <2>4. runs' = [r \in RunIds |-> runs'[r]]
    BY DEF EditStore
  <2> QED BY <2>3, <2>4
<1>4. PICK q \in RequestType : q = [pc |-> "submit", id |-> j, job |-> entry]
  BY DEF RequestType, HandlerPCs
<1>5. JobsTyped'
  <2>1. jobs' \in [Jobs -> Job] /\ jobs'[j] = entry /\ \A i \in Jobs \ {j} : jobs'[i] = jobs[i]
    BY <1>2, Typed DEF JobsTyped
  <2>2. ASSUME NEW i \in Jobs
        PROVE  jobs'[i].ref <= Len(heap'[i]) /\ (Stored(i)' => jobs'[i].ref > 0)
    <3>1. CASE i = j
      BY <3>1, <1>1, <2>1 DEF Slots
    <3>2. CASE i # j
      <4>1. jobs'[i] = jobs[i] /\ jobs[i].ref \in Nat /\ jobs[i].ref <= Len(heap[i])
            /\ (Stored(i) => jobs[i].ref > 0)
        BY <3>2, <2>1, Typed DEF JobsTyped, Job
      <4>2. Len(heap[i]) <= Len(heap'[i]) /\ Len(heap[i]) \in Nat /\ Len(heap'[i]) \in Nat
        BY <1>1, Typed DEF HeapGrows, Shape, Slots
      <4> QED BY <4>1, <4>2 DEF Stored
    <3> QED BY <3>1, <3>2
  <2> QED BY <2>1, <2>2 DEF JobsTyped
<1> QED BY <1>1, <1>2, <1>3, <1>4, <1>5, AsideShape

LEMMA DeleteCheckShape ==
    ASSUME Shape, Held, UNCHANGED sc, NEW h \in Handlers, NEW j \in Jobs, DeleteCheck(h, j)
    PROVE  Shape' /\ Held'
<1>1. UNCHANGED <<jobs, heap, runs, started, current, rj, crashes>> /\ Stored(j)
      /\ hd' = [hd EXCEPT ![h] = [pc |-> "delete", id |-> j, job |-> NoJob]]
  BY DEF DeleteCheck, mem
<1>2. PICK q \in RequestType : q = [pc |-> "delete", id |-> j, job |-> NoJob]
  BY NoRequestIs DEF RequestType, HandlerPCs
<1>3. 1 \in Slots(j)'
  BY <1>1, Typed DEF JobsTyped, Slots, Job
<1>4. HeapGrows /\ JobsTyped' /\ runs' \in [RunIds -> Run]
  BY <1>1, SameHeap, Typed DEF JobsTyped, RestTyped, Stored
<1> QED BY <1>1, <1>2, <1>3, <1>4, AsideShape

LEMMA DeleteJobShape ==
    ASSUME Shape, Held, UNCHANGED sc, NEW h \in Handlers, DeleteJob(h)
    PROVE  Shape' /\ Held'
<1>1. UNCHANGED <<heap, started, current, rj, crashes>> /\ hd' = [hd EXCEPT ![h] = NoRequest]
  BY DEF DeleteJob, mem
<1>2. JobsTyped'
  <2>1. jobs' = jobs \/ jobs' = [jobs EXCEPT ![hd[h].id] = NoJob]
    BY DEF DeleteJob, mem
  <2>2. jobs' \in [Jobs -> Job] /\ \A i \in Jobs : jobs'[i] = jobs[i] \/ jobs'[i] = NoJob
    BY <2>1, NoRequestIs, Typed DEF JobsTyped
  <2>3. \A i \in Jobs : Len(heap[i]) \in Nat
    BY DEF Shape
  <2> QED BY <1>1, <2>2, <2>3, Typed DEF JobsTyped, Stored, NoJob
<1>3. runs' \in [RunIds -> Run]
  <2>1. runs \in [RunIds -> Run] /\ NoRun \in Run
    BY Typed DEF RestTyped, NoRun, Run, RunStatuses
  <2>2. CASE UNCHANGED runs
    BY <2>1, <2>2
  <2>3. CASE \E cascade \in BOOLEAN :
               runs' = [r \in RunIds |-> IF runs[r].job # hd[h].id THEN runs[r]
                                        ELSE IF cascade THEN NoRun
                                        ELSE [runs[r] EXCEPT !.job = Adhoc]]
    <3>1. \A r \in RunIds : [runs[r] EXCEPT !.job = Adhoc] \in Run
      BY <2>1 DEF Run
    <3> QED BY <2>1, <2>3, <3>1
  <2> QED BY <2>2, <2>3 DEF DeleteJob, mem
<1> QED BY <1>1, <1>2, <1>3, NoRequestIs, SameHeap, AsideShape

LEMMA DeleteRunShape ==
    ASSUME Shape, Held, UNCHANGED sc, NEW r \in RunIds, DeleteRun(r)
    PROVE  Shape' /\ Held'
<1>1. UNCHANGED <<jobs, heap, started, current, rj, hd, crashes>> /\ runs' = [runs EXCEPT ![r] = NoRun]
  BY DEF DeleteRun
<1>2. runs' \in [RunIds -> Run]
  BY <1>1, Typed DEF RestTyped, NoRun, Run, RunStatuses
<1>3. HeapGrows /\ JobsTyped' /\ RestTyped' /\ \A k \in Jobs : SameHand(k)
  BY <1>1, <1>2, SameHeap, Typed DEF JobsTyped, RestTyped, Stored, SameHand
<1> QED BY <1>1, <1>3, Typed, RequestKeeps

LEMMA CancelShape ==
    ASSUME Shape, Held, UNCHANGED sc, NEW j \in Jobs, Cancel(j)
    PROVE  Shape' /\ Held'
<1>1. UNCHANGED <<jobs, heap, runs, started, current, hd, crashes>>
      /\ rj' = [rj EXCEPT ![j].canceled = TRUE]
  BY DEF Cancel, mem
<1>2. rj' \in [Jobs -> RunnerType] /\ \A k \in Jobs : SameHand(k)
  BY <1>1, Typed DEF RunnerType, SameHand
<1>3. HeapGrows /\ JobsTyped' /\ RestTyped'
  BY <1>1, SameHeap, Typed DEF JobsTyped, RestTyped, Stored
<1> QED BY <1>1, <1>2, <1>3, Typed, RequestKeeps

-----------------------------------------------------------------------------
(* The file and the restart.                                               *)

LEMMA LoadCellsIs ==
    ASSUME NEW d, d.cells \in CellArrays
    PROVE  /\ LoadCells(d) \in CellArrays
           /\ DOMAIN LoadCells(d) = DOMAIN d.cells
           /\ \A c \in DOMAIN d.cells :
                \/ LoadCells(d)[c] = d.cells[c]
                \/ d.cells[c].status = "running" /\ LoadCells(d)[c] = [d.cells[c] EXCEPT !.status = "failed"]
<1> DEFINE a == d.cells
<1>1. \A c \in DOMAIN a : a[c] \in Cell /\ [a[c] EXCEPT !.status = "failed"] \in Cell
  BY ArrayIs DEF Cell, CellStatuses
<1>2. LoadCells(d) \in [DOMAIN a -> Cell] /\ DOMAIN a \in Matrices
  BY <1>1, ArrayIs DEF LoadCells
<1> QED BY <1>2 DEF LoadCells, CellArrays

LEMMA CrashIs ==
    ASSUME Shape, OnFile, Crash
    PROVE  /\ \A j \in Jobs : Stored(j) =>
                /\ jobs'[j] = [status |-> LoadStatus(jobs[j]), ref |-> 1, kl |-> jobs[j].kl]
                /\ heap'[j] = <<LoadCells(disk.jobs[j])>>
                /\ LoadCells(disk.jobs[j]) \in CellArrays
           /\ \A j \in Jobs : ~Stored(j) => jobs'[j] = NoJob /\ heap'[j] = <<>>
           /\ runs' = [r \in RunIds |-> LoadRun(runs[r])]
           /\ current' = None /\ rj' = [j \in Jobs |-> Idle] /\ hd' = [h \in Handlers |-> NoRequest]
           /\ started' = started /\ crashes' \in 0 .. MaxCrashes /\ Persist
<1>1. \A j \in Jobs : disk.jobs[j].status = jobs[j].status /\ disk.jobs[j].kl = jobs[j].kl
  BY DEF OnFile
<1>2. /\ jobs' = [j \in Jobs |-> IF disk.jobs[j].status = "absent" THEN NoJob
                                 ELSE [status |-> LoadStatus(disk.jobs[j]), ref |-> 1,
                                       kl |-> disk.jobs[j].kl]]
      /\ heap' = [j \in Jobs |-> IF disk.jobs[j].status = "absent" THEN <<>>
                                 ELSE <<LoadCells(disk.jobs[j])>>]
      /\ runs' = [r \in RunIds |-> LoadRun(disk.runs[r])]
      /\ current' = None /\ rj' = [j \in Jobs |-> Idle] /\ hd' = [h \in Handlers |-> NoRequest]
      /\ started' = started /\ crashes < MaxCrashes /\ crashes' = crashes + 1 /\ Persist
  BY DEF Crash
<1>3. ASSUME NEW j \in Jobs, Stored(j)
      PROVE  /\ jobs'[j] = [status |-> LoadStatus(jobs[j]), ref |-> 1, kl |-> jobs[j].kl]
             /\ heap'[j] = <<LoadCells(disk.jobs[j])>>
             /\ LoadCells(disk.jobs[j]) \in CellArrays
  <2>1. LoadStatus(disk.jobs[j]) = LoadStatus(jobs[j])
    BY <1>1 DEF LoadStatus
  <2>2. disk.jobs[j].cells \in CellArrays
    BY <1>3 DEF OnFile
  <2>3. disk.jobs[j].status # "absent"
    BY <1>1, <1>3 DEF Stored
  <2> QED BY <1>1, <1>2, <2>1, <2>2, <2>3, LoadCellsIs
<1>4. ASSUME NEW j \in Jobs, ~Stored(j) PROVE jobs'[j] = NoJob /\ heap'[j] = <<>>
  BY <1>1, <1>2, <1>4 DEF Stored
<1>5. crashes' \in 0 .. MaxCrashes
  BY <1>2, Typed, Facts DEF RestTyped
<1>6. runs' = [r \in RunIds |-> LoadRun(runs[r])]
  BY <1>2 DEF OnFile
<1> QED BY <1>2, <1>3, <1>4, <1>5, <1>6

LEMMA CrashShape ==
    ASSUME Shape, Held, OnFile, UNCHANGED sc, Crash
    PROVE  Shape' /\ Held'
<1>1. heap' \in [Jobs -> Seq(CellArrays)] /\ JobsTyped'
  <2>1. heap' = [j \in Jobs |-> heap'[j]] /\ jobs' = [j \in Jobs |-> jobs'[j]]
    BY DEF Crash
  <2>2. ASSUME NEW j \in Jobs
        PROVE  /\ heap'[j] \in Seq(CellArrays) /\ jobs'[j] \in Job
               /\ jobs'[j].ref <= Len(heap'[j]) /\ (Stored(j)' => jobs'[j].ref > 0)
    <3>1. CASE Stored(j)
      <4>1. jobs[j].kl \in Cells \cup {None} /\ LoadStatus(jobs[j]) \in JobStatuses /\ 1 \in 0 .. MaxArrays
        BY Typed, Facts DEF JobsTyped, Job, LoadStatus, JobStatuses
      <4>2. /\ jobs'[j] = [status |-> LoadStatus(jobs[j]), ref |-> 1, kl |-> jobs[j].kl]
            /\ heap'[j] = <<LoadCells(disk.jobs[j])>> /\ LoadCells(disk.jobs[j]) \in CellArrays
        BY <3>1, CrashIs
      <4>3. jobs'[j] \in Job /\ jobs'[j].ref = 1
        BY <4>1, <4>2 DEF Job
      <4>4. heap'[j] \in Seq(CellArrays) /\ Len(heap'[j]) = 1
        BY <4>2
      <4> QED BY <4>3, <4>4
    <3>2. CASE ~Stored(j)
      <4>1. jobs'[j] = NoJob /\ heap'[j] = <<>>
        BY <3>2, CrashIs
      <4> QED BY <4>1, NoRequestIs DEF Stored, NoJob
    <3> QED BY <3>1, <3>2
  <2> QED BY <2>1, <2>2 DEF JobsTyped
<1>2. RestTyped'
  <2>1. runs' \in [RunIds -> Run]
    <3>1. ASSUME NEW r \in RunIds PROVE LoadRun(runs[r]) \in Run
      <4>1. runs[r] \in Run
        BY Typed DEF RestTyped
      <4> QED BY <4>1 DEF LoadRun, Run, RunStatuses
    <3> QED BY <3>1, CrashIs
  <2> QED BY <2>1, CrashIs, Typed DEF RestTyped
<1>3. Idle \in RunnerType /\ Idle.pc = "none"
  BY Facts DEF Idle, RunnerType, RunnerPCs, None
<1>4. /\ rj' \in [Jobs -> RunnerType] /\ \A j \in Jobs : rj'[j].pc = "none"
      /\ hd' \in [Handlers -> RequestType] /\ \A h \in Handlers : hd'[h].pc = "idle"
  BY <1>3, CrashIs, NoRequestIs
<1>5. Shape'
  BY <1>1, <1>2, <1>4, Typed DEF Shape, TypeOK, JobsTyped, RestTyped, RunnerType, RequestType
<1> QED BY <1>4, <1>5 DEF Held, RunnerHolds, RequestHolds, InFlight, CellPCs, RunPCs

(* Steps that touch neither the store nor the file.                        *)
LEMMA FileStays ==
    ASSUME OnFile, UNCHANGED <<jobs, heap, runs, disk>>
    PROVE  OnFile'
BY DEF OnFile, Stored, CellsOf

LEMMA MarkStays ==
    ASSUME Shape, Held, OnFile, NEW h \in Handlers, RetryMark(h)
    PROVE  OnFile'
<1>1. UNCHANGED <<jobs, runs, disk>> /\ hd[h].pc = "mark" /\ (UNCHANGED heap \/ Marks(h))
  BY DEF RetryMark, Marks
<1>2. CASE UNCHANGED heap
  BY <1>1, <1>2, FileStays
<1>3. CASE Marks(h)
  <2>1. \A k \in Jobs : \A i \in Slots(k) : heap'[k][i] = heap[k][i] \/ heap'[k][i] = Mark(heap[k][i])
    BY <1>1, <1>3, MarkGrows
  <2>2. ASSUME NEW k \in Jobs, Stored(k)
        PROVE  /\ CellsOf(k) \in CellArrays
               /\ CellsOf(k)' = CellsOf(k) \/ CellsOf(k)' = Mark(CellsOf(k))
    <3>1. jobs[k].ref \in Slots(k) /\ jobs'[k] = jobs[k]
      BY <1>1, <2>2, Typed DEF JobsTyped, Slots, Job
    <3>2. heap[k][jobs[k].ref] \in CellArrays
      BY <3>1 DEF Shape, Slots
    <3>3. heap'[k][jobs[k].ref] = heap[k][jobs[k].ref] \/ heap'[k][jobs[k].ref] = Mark(heap[k][jobs[k].ref])
      BY <2>1, <3>1
    <3> QED BY <3>1, <3>2, <3>3 DEF CellsOf
  <2>3. ASSUME NEW k \in Jobs, Stored(k)
        PROVE  /\ DOMAIN CellsOf(k)' = DOMAIN CellsOf(k)
               /\ \A c \in DOMAIN CellsOf(k) : Copied(disk.jobs[k].cells[c], CellsOf(k)'[c])
    <3>1. PICK a \in CellArrays : a = CellsOf(k)
      BY <2>2, <2>3
    <3>2. \A c \in DOMAIN a : a[c] \in Cell /\ Copied(disk.jobs[k].cells[c], a[c])
      BY <2>3, <3>1, ArrayIs DEF OnFile
    <3>3. \A c \in DOMAIN a : Copied(disk.jobs[k].cells[c], Mark(a)[c])
      <4>1. TAKE c \in DOMAIN a
      <4>2. CASE a[c].status = "failed"
        <5>1. Mark(a)[c] = [a[c] EXCEPT !.status = "pending"]
          BY <4>2, MarkIs
        <5>2. /\ Mark(a)[c].status = "pending" /\ Mark(a)[c].run = a[c].run
              /\ Mark(a)[c].skip = a[c].skip
          BY <3>2, <5>1 DEF Cell
        <5> QED BY <3>2, <4>2, <5>2 DEF Copied
      <4>3. CASE a[c].status # "failed"
        BY <3>2, <4>3, MarkIs
      <4> QED BY <4>2, <4>3
    <3> QED BY <2>2, <2>3, <3>1, <3>2, <3>3, MarkIs
  <2> QED BY <1>1, <2>3 DEF OnFile, Stored
<1> QED BY <1>1, <1>2, <1>3

Base == Shape /\ Held /\ OnFile

LEMMA BaseInit == Init => Base
<1> SUFFICES ASSUME Init PROVE Base
  OBVIOUS
<1>1. Idle \in RunnerType /\ Idle.pc = "none"
  BY Facts DEF Idle, RunnerType, RunnerPCs, None
<1>2. NoRun \in Run
  BY DEF NoRun, Run, RunStatuses
<1>3. /\ heap \in [Jobs -> Seq(CellArrays)] /\ jobs = [j \in Jobs |-> NoJob]
      /\ \A j \in Jobs : Len(heap[j]) = 0
  BY DEF Init
<1>4. JobsTyped
  BY <1>3, NoRequestIs DEF JobsTyped, Stored, NoJob
<1>5. RestTyped
  BY <1>2, Facts DEF Init, RestTyped, None
<1>6. rj \in [Jobs -> RunnerType] /\ hd \in [Handlers -> RequestType] /\ sc \in Scenarios
  BY <1>1, NoRequestIs DEF Init
<1>7. Shape
  BY <1>3, <1>4, <1>5, <1>6, Typed
<1>8. Held
  BY <1>1, NoRequestIs DEF Init, Held, RunnerHolds, RequestHolds, InFlight, CellPCs, RunPCs
<1>9. OnFile
  <2>1. \A j \in Jobs : jobs[j] = NoJob /\ NoJob.status = "absent"
    BY <1>3 DEF NoJob
  <2>2. disk.runs = runs /\ \A j \in Jobs : disk.jobs[j].status = jobs[j].status /\ disk.jobs[j].kl = jobs[j].kl
    BY DEF Init, FileOf
  <2> QED BY <2>1, <2>2 DEF OnFile, Stored
<1> QED BY <1>7, <1>8, <1>9 DEF Base

LEMMA StepShape ==
    ASSUME Base, Step, UNCHANGED sc
    PROVE  Shape' /\ Held'
<1>0. Shape /\ Held /\ OnFile
  BY DEF Base
<1>s. sc.jobs \subseteq Jobs /\ sc.handlers \subseteq Handlers /\ sc.matrices \subseteq Matrices
  BY <1>0, Typed, Facts
<1>1. ASSUME NEW j \in sc.jobs, RunnerNext(j) PROVE Shape' /\ Held'
  BY <1>0, <1>1, RunnerShape
<1>2. ASSUME NEW j \in sc.jobs, UserNext(j) PROVE Shape' /\ Held'
  <2> USE <1>0, <1>s
  <2>1. CASE Cancel(j)
    BY <2>1, CancelShape
  <2>2. ASSUME NEW m \in sc.matrices, NEW k \in References(m), Create(j, m, k) PROVE Shape' /\ Held'
    BY <2>2, CreateShape
  <2>3. ASSUME NEW h \in sc.handlers, RetryGet(h, j) PROVE Shape' /\ Held'
    BY <2>3, RetryGetShape
  <2>4. ASSUME NEW h \in sc.handlers, DeleteCheck(h, j) PROVE Shape' /\ Held'
    BY <2>4, DeleteCheckShape
  <2>5. ASSUME NEW h \in sc.handlers, NEW m \in sc.matrices, NEW k \in References(m),
               EditStore(h, j, m, k)
        PROVE  Shape' /\ Held'
    BY <2>5, EditShape
  <2> QED BY <1>2, <2>1, <2>2, <2>3, <2>4, <2>5 DEF UserNext
<1>3. ASSUME NEW h \in sc.handlers, HandlerNext(h) PROVE Shape' /\ Held'
  BY <1>0, <1>s, <1>3, RetryMarkShape, DeleteJobShape, SubmitShape DEF HandlerNext
<1>4. ASSUME NEW r \in RunIds, DeleteRun(r) PROVE Shape' /\ Held'
  BY <1>0, <1>4, DeleteRunShape
<1>5. ASSUME Crash PROVE Shape' /\ Held'
  BY <1>0, <1>5, CrashShape
<1> QED BY <1>1, <1>2, <1>3, <1>4, <1>5 DEF Step

LEMMA BaseNext ==
    ASSUME Base, Step, UNCHANGED sc
    PROVE  Base'
<1>0. Shape /\ Held /\ OnFile
  BY DEF Base
<1>1. Shape' /\ Held'
  BY StepShape
<1>2. CASE Persist
  BY <1>1, <1>2, PersistCopies DEF Base
<1>3. CASE UNCHANGED <<jobs, heap, runs, disk>>
  BY <1>0, <1>1, <1>3, FileStays DEF Base
<1>4. CASE \E h \in sc.handlers : RetryMark(h)
  BY <1>0, <1>1, <1>4, Typed, Facts, MarkStays DEF Base
<1>5. ASSUME NEW j \in sc.jobs, RunnerNext(j) PROVE Persist \/ UNCHANGED <<jobs, heap, runs, disk>>
  BY <1>5 DEF RunnerNext, RunStart, PassCell, SkipCanceled, StartCell, FailEarly, CreateRun, LinkRun,
       EndRun, ReadBack, UnlinkRun, SkipReference, EndCell, Finish, Restore, Release, mem
<1>6. ASSUME NEW j \in sc.jobs, UserNext(j) PROVE Persist \/ UNCHANGED <<jobs, heap, runs, disk>>
  BY <1>6 DEF UserNext, Cancel, Create, RetryGet, DeleteCheck, EditStore, mem
<1>7. ASSUME NEW h \in sc.handlers, HandlerNext(h)
      PROVE  Persist \/ UNCHANGED <<jobs, heap, runs, disk>> \/ RetryMark(h)
  BY <1>7 DEF HandlerNext, DeleteJob, SubmitCopy, mem
<1>8. (\E r \in RunIds : DeleteRun(r)) \/ Crash => Persist
  BY DEF DeleteRun, Crash
<1> QED BY <1>2, <1>3, <1>4, <1>5, <1>6, <1>7, <1>8 DEF Step

-----------------------------------------------------------------------------
(* One job at a time, and one driver for each live run.                    *)

Driving(k, r) == rj[k].run = r /\ rj[k].pc \in {"link", "measure"}

InTurn ==
    /\ \A k \in Jobs : InFlight(k) <=> current = k
    /\ \A k \in Jobs : jobs[k].status = "running" => rj[k].pc \notin {"none", "restore", "release"}
    /\ \A r \in RunIds : runs[r].status = "running" => \E k \in Jobs : Driving(k, r)

(* Steps of the job in flight that keep the queue.                         *)
LEMMA DriverSteps ==
    ASSUME InTurn, NEW j \in Jobs, InFlight(j), InFlight(j)', UNCHANGED current,
           \A k \in Jobs \ {j} : rj'[k] = rj[k] /\ jobs'[k].status = jobs[k].status,
           jobs'[j].status = "running" => rj'[j].pc \notin {"restore", "release"},
           \A r \in RunIds : runs'[r].status = "running" =>
               Driving(j, r)' \/ (runs[r].status = "running" /\ ~Driving(j, r))
    PROVE  InTurn'
<1>1. \A k \in Jobs : InFlight(k)' <=> current' = k
  BY DEF InTurn, InFlight
<1>2. \A k \in Jobs : jobs'[k].status = "running" => rj'[k].pc \notin {"none", "restore", "release"}
  BY DEF InTurn, InFlight
<1>3. \A r \in RunIds : runs'[r].status = "running" => \E k \in Jobs : Driving(k, r)'
  BY DEF InTurn, Driving
<1> QED BY <1>1, <1>2, <1>3 DEF InTurn

(* Steps that leave the runners where they are.                            *)
LEMMA OtherSteps ==
    ASSUME InTurn, UNCHANGED current,
           \A k \in Jobs : rj'[k].pc = rj[k].pc /\ rj'[k].run = rj[k].run,
           \A k \in Jobs : jobs'[k].status = "running" => jobs[k].status = "running",
           \A r \in RunIds : runs'[r].status = "running" => runs[r].status = "running"
    PROVE  InTurn'
BY DEF InTurn, InFlight, Driving

LEMMA AcceptTurn ==
    ASSUME Shape, InTurn, NEW j \in Jobs, NEW entry, Accept(j, entry), UNCHANGED runs
    PROVE  InTurn'
<1>1. /\ current = None /\ current' = j /\ jobs'[j].status = "pending" /\ rj'[j].pc = "start"
      /\ \A k \in Jobs \ {j} : jobs'[k] = jobs[k] /\ rj'[k] = rj[k]
  <2>1. jobs \in [Jobs -> Job] /\ rj \in [Jobs -> RunnerType]
    BY TypedNow
  <2>2. /\ current = None /\ current' = j
        /\ jobs' = [jobs EXCEPT ![j] = [entry EXCEPT !.status = "pending"]]
        /\ rj' = [rj EXCEPT ![j] = [Idle EXCEPT !.pc = "start", !.ref = entry.ref, !.kl = entry.kl]]
    BY DEF Accept
  <2> QED BY <2>1, <2>2 DEF Idle
<1>2. \A k \in Jobs : rj[k].pc = "none"
  BY <1>1, Facts DEF InTurn, InFlight
<1>3. \A r \in RunIds : runs'[r].status # "running"
  BY <1>2 DEF InTurn, Driving
<1> QED BY <1>1, <1>2, <1>3 DEF InTurn, InFlight

LEMMA RunnerTurn ==
    ASSUME Base, InTurn, NEW j \in sc.jobs, RunnerNext(j), UNCHANGED sc
    PROVE  InTurn'
<1>t. /\ j \in Jobs /\ rj \in [Jobs -> RunnerType] /\ jobs \in [Jobs -> Job] /\ runs \in [RunIds -> Run]
      /\ RunnerHolds(j)
  BY TypedNow, Facts DEF Base, Held
<1> USE <1>t
<1>s. ASSUME NEW s \in {"running", "canceled", "completed", "failed"}, SaveJob(j, s)
      PROVE  /\ jobs'[j].status = s
             /\ \A k \in Jobs \ {j} : jobs'[k].status = jobs[k].status
  BY <1>s DEF SaveJob
<1>1. CASE RunStart(j)
  <2>1. rj'[j] = [rj[j] EXCEPT !.pc = "loop"] /\ rj[j].pc = "start" /\ SaveJob(j, "running")
        /\ \A k \in Jobs \ {j} : rj'[k] = rj[k]
    BY <1>1 DEF RunStart
  <2> QED BY <1>1, <1>s, <2>1, DriverSteps DEF RunStart, InFlight, InTurn, Driving, RunnerType
<1>2. CASE PassCell(j)
  <2>1. rj'[j].pc = "loop" /\ rj[j].pc = "loop" /\ rj'[j].run = rj[j].run
        /\ \A k \in Jobs \ {j} : rj'[k] = rj[k]
    BY <1>2 DEF PassCell, RunnerType
  <2> QED BY <1>2, <2>1, OtherSteps DEF PassCell, mem
<1>3. CASE SkipCanceled(j)
  <2>1. rj'[j].pc = "loop" /\ rj[j].pc = "loop" /\ SaveJob(j, "running")
        /\ \A k \in Jobs \ {j} : rj'[k] = rj[k]
    BY <1>3 DEF SkipCanceled, RunnerType
  <2> QED BY <1>3, <1>s, <2>1, DriverSteps DEF SkipCanceled, InFlight, InTurn, Driving
<1>4. CASE StartCell(j)
  <2>1. rj'[j].pc = "cell" /\ rj[j].pc = "loop" /\ SaveJob(j, "running")
        /\ \A k \in Jobs \ {j} : rj'[k] = rj[k]
    BY <1>4 DEF StartCell, RunnerType
  <2> QED BY <1>4, <1>s, <2>1, DriverSteps, SMTT(30) DEF StartCell, InFlight, InTurn, Driving
<1>5. CASE FailEarly(j)
  <2>1. rj'[j].pc = "bad" /\ rj[j].pc = "cell" /\ \A k \in Jobs \ {j} : rj'[k] = rj[k]
    BY <1>5 DEF FailEarly, RunnerType
  <2> QED BY <1>5, <2>1, DriverSteps DEF FailEarly, mem, InFlight, InTurn, Driving
<1>6. CASE CreateRun(j)
  <2>1. /\ rj'[j].pc = "link" /\ rj[j].pc = "cell" /\ rj'[j].run = started + 1
        /\ \A k \in Jobs \ {j} : rj'[k] = rj[k]
    BY <1>6 DEF CreateRun, RunnerType
  <2>2. \A r \in RunIds : r # started + 1 => runs'[r] = runs[r]
    BY <1>6 DEF CreateRun
  <2> QED BY <1>6, <2>1, <2>2, DriverSteps, SMTT(30) DEF CreateRun, InFlight, InTurn, Driving
<1>7. CASE LinkRun(j)
  <2>1. rj'[j].pc = "measure" /\ rj[j].pc = "link" /\ rj'[j].run = rj[j].run /\ SaveJob(j, "running")
        /\ \A k \in Jobs \ {j} : rj'[k] = rj[k]
    BY <1>7 DEF LinkRun, RunnerType
  <2> QED BY <1>7, <1>s, <2>1, DriverSteps DEF LinkRun, InFlight, InTurn, Driving
<1>8. CASE EndRun(j)
  <2>1. PICK s \in {"completed", "failed"} :
            /\ runs' = [runs EXCEPT ![rj[j].run] = [status |-> s, job |-> j]]
            /\ rj' = [rj EXCEPT ![j].pc = IF ~IsKL(j) THEN "read"
                                          ELSE IF s = "completed" THEN "ok" ELSE "bad"]
    BY <1>8 DEF EndRun
  <2>2. rj'[j].pc \in {"read", "ok", "bad"} /\ rj[j].pc = "measure" /\ \A k \in Jobs \ {j} : rj'[k] = rj[k]
    BY <1>8, <2>1 DEF EndRun, RunnerType
  <2>3. \A r \in RunIds : runs'[r].status = "running" => r # rj[j].run /\ runs[r].status = "running"
    BY <2>1
  <2> QED BY <1>8, <2>2, <2>3, DriverSteps DEF EndRun, InFlight, InTurn, Driving
<1>9. CASE ReadBack(j)
  <2>1. rj'[j].pc \in {"ok", "bad"} /\ rj[j].pc = "read" /\ \A k \in Jobs \ {j} : rj'[k] = rj[k]
    BY <1>9 DEF ReadBack, RunnerType
  <2> QED BY <1>9, <2>1, DriverSteps DEF ReadBack, mem, InFlight, InTurn, Driving
<1>10. CASE UnlinkRun(j)
  <2>1. rj'[j].pc = "skip" /\ rj[j].pc = "measure" /\ \A k \in Jobs \ {j} : rj'[k] = rj[k]
    BY <1>10 DEF UnlinkRun, RunnerType
  <2>2. \A r \in RunIds : runs'[r].status = "running" => r # rj[j].run /\ runs[r].status = "running"
    BY <1>10 DEF UnlinkRun, NoRun
  <2> QED BY <1>10, <2>1, <2>2, DriverSteps DEF UnlinkRun, InFlight, InTurn, Driving
<1>11. CASE SkipReference(j)
  <2>1. rj'[j].pc = "ok" /\ rj[j].pc = "skip" /\ SaveJob(j, "running")
        /\ \A k \in Jobs \ {j} : rj'[k] = rj[k]
    BY <1>11 DEF SkipReference, RunnerType
  <2> QED BY <1>11, <1>s, <2>1, DriverSteps DEF SkipReference, InFlight, InTurn, Driving
<1>12. CASE EndCell(j)
  <2>1. rj'[j].pc = "loop" /\ rj[j].pc \in {"ok", "bad"} /\ SaveJob(j, "running")
        /\ \A k \in Jobs \ {j} : rj'[k] = rj[k]
    BY <1>12 DEF EndCell, RunnerType
  <2> QED BY <1>12, <1>s, <2>1, DriverSteps DEF EndCell, InFlight, InTurn, Driving
<1>13. CASE Finish(j)
  <2>1. rj'[j].pc = "restore" /\ rj[j].pc = "loop" /\ SaveJob(j, FinalStatus(j))
        /\ FinalStatus(j) \in {"canceled", "completed", "failed"}
        /\ \A k \in Jobs \ {j} : rj'[k] = rj[k]
    BY <1>13 DEF Finish, RunnerType, FinalStatus
  <2> QED BY <1>13, <1>s, <2>1, DriverSteps DEF Finish, InFlight, InTurn, Driving
<1>14. CASE Restore(j)
  <2>1. rj'[j].pc = "release" /\ rj[j].pc = "restore" /\ \A k \in Jobs \ {j} : rj'[k] = rj[k]
    BY <1>14 DEF Restore, RunnerType
  <2> QED BY <1>14, <2>1, DriverSteps DEF Restore, mem, InFlight, InTurn, Driving
<1>15. CASE Release(j)
  <2>1. rj'[j].pc = "none" /\ rj[j].pc = "release" /\ \A k \in Jobs \ {j} : rj'[k] = rj[k]
    BY <1>15 DEF Release, Idle
  <2>2. UNCHANGED <<jobs, runs>> /\ current' = None /\ None \notin Jobs
    BY <1>15, Facts DEF Release, mem
  <2>3. \A k \in Jobs : rj'[k].pc = "none"
    BY <2>1 DEF InTurn, InFlight
  <2>4. \A k \in Jobs : jobs[k].status # "running"
    BY <2>1 DEF InTurn, InFlight
  <2>5. \A r \in RunIds : runs[r].status # "running"
    BY <2>1 DEF InTurn, InFlight, Driving
  <2> QED BY <2>2, <2>3, <2>4, <2>5 DEF InTurn, InFlight
<1> QED BY <1>1, <1>2, <1>3, <1>4, <1>5, <1>6, <1>7, <1>8, <1>9, <1>10, <1>11, <1>12, <1>13, <1>14, <1>15
        DEF RunnerNext

LEMMA InTurnNext ==
    ASSUME Base, InTurn, Step, UNCHANGED sc
    PROVE  InTurn'
<1>t. /\ Shape /\ Held /\ OnFile /\ rj \in [Jobs -> RunnerType] /\ jobs \in [Jobs -> Job]
      /\ runs \in [RunIds -> Run]
      /\ sc.jobs \subseteq Jobs /\ sc.handlers \subseteq Handlers /\ sc.matrices \subseteq Matrices
  BY TypedNow, Facts DEF Base
<1> USE <1>t
<1>1. ASSUME NEW j \in sc.jobs, RunnerNext(j) PROVE InTurn'
  BY <1>1, RunnerTurn
<1>2. ASSUME NEW j \in sc.jobs, UserNext(j) PROVE InTurn'
  <2>1. CASE Cancel(j)
    BY <2>1, OtherSteps DEF Cancel, mem, RunnerType
  <2>2. ASSUME NEW m \in sc.matrices, NEW k \in References(m), Create(j, m, k) PROVE InTurn'
    BY <2>2, CreateIs, AcceptTurn, ZenonT(60)
  <2>3. ASSUME NEW h \in sc.handlers, RetryGet(h, j) \/ DeleteCheck(h, j) PROVE InTurn'
    BY <2>3, OtherSteps DEF RetryGet, DeleteCheck, mem
  <2>4. ASSUME NEW h \in sc.handlers, NEW m \in sc.matrices, NEW k \in References(m),
               EditStore(h, j, m, k)
        PROVE  InTurn'
    <3>1. UNCHANGED <<current, rj>> /\ \A r \in RunIds : runs'[r].status = runs[r].status
      BY <2>4 DEF EditStore, Run
    <3>2. \A i \in Jobs : jobs'[i] = jobs[i] \/ jobs'[i].status = "pending"
      BY <2>4 DEF EditStore
    <3> QED BY <3>1, <3>2, OtherSteps
  <2> QED BY <1>2, <2>1, <2>2, <2>3, <2>4 DEF UserNext
<1>3. ASSUME NEW h \in sc.handlers, HandlerNext(h) PROVE InTurn'
  <2>1. CASE RetryMark(h)
    BY <2>1, OtherSteps DEF RetryMark
  <2>2. CASE DeleteJob(h)
    <3>1. UNCHANGED <<current, rj>> /\ \A i \in Jobs : jobs'[i] = jobs[i] \/ jobs'[i] = NoJob
      BY <2>2 DEF DeleteJob, mem
    <3>2. \A r \in RunIds : runs'[r].status = runs[r].status \/ runs'[r] = NoRun
      BY <2>2 DEF DeleteJob, mem, Run
    <3> QED BY <3>1, <3>2, OtherSteps DEF NoJob, NoRun
  <2>3. CASE SubmitCopy(h)
    <3>1. hd[h].id \in Jobs
      BY <2>3 DEF SubmitCopy, Held, RequestHolds
    <3>2. CASE Accept(hd[h].id, hd[h].job) /\ UNCHANGED runs
      BY <3>1, <3>2, AcceptTurn
    <3>3. CASE UNCHANGED <<mem, current, rj>>
      BY <3>3, OtherSteps DEF mem
    <3> QED BY <2>3, <3>2, <3>3 DEF SubmitCopy
  <2> QED BY <1>3, <2>1, <2>2, <2>3 DEF HandlerNext
<1>4. ASSUME NEW r \in RunIds, DeleteRun(r) PROVE InTurn'
  BY <1>4, OtherSteps DEF DeleteRun, NoRun
<1>5. CASE Crash
  <2>1. \A k \in Jobs : rj'[k].pc = "none" /\ current' # k
    BY <1>5, CrashIs, Facts DEF Idle
  <2>2. \A k \in Jobs : jobs'[k].status # "running"
    <3>1. \A k \in Jobs : LoadStatus(jobs[k]) # "running"
      BY DEF LoadStatus
    <3>2. ASSUME NEW k \in Jobs PROVE jobs'[k].status = LoadStatus(jobs[k]) \/ jobs'[k] = NoJob
      <4>1. CASE Stored(k)
        <5>1. jobs'[k] = [status |-> LoadStatus(jobs[k]), ref |-> 1, kl |-> jobs[k].kl]
          BY <1>5, <4>1, CrashIs
        <5> QED BY <5>1
      <4>2. CASE ~Stored(k)
        BY <1>5, <4>2, CrashIs
      <4> QED BY <4>1, <4>2
    <3> QED BY <3>1, <3>2 DEF NoJob
  <2>3. \A r \in RunIds : runs'[r].status # "running"
    BY <1>5, CrashIs DEF LoadRun, Run
  <2> QED BY <2>1, <2>2, <2>3 DEF InTurn, InFlight
<1> QED BY <1>1, <1>2, <1>3, <1>4, <1>5 DEF Step

(* With one request at a time, the job in flight keeps its record.         *)
Recorded ==
    /\ \A h \in Handlers : hd[h].pc # "idle" => h \in sc.handlers
    /\ OneRequest =>
        /\ current # None => Stored(current)
        /\ \A h \in Handlers : hd[h].pc = "delete" => current # hd[h].id

LEMMA RecordedNext ==
    ASSUME Base, InTurn, Recorded, Step, UNCHANGED sc
    PROVE  Recorded'
<1>t. /\ Shape /\ Held /\ OnFile /\ rj \in [Jobs -> RunnerType] /\ jobs \in [Jobs -> Job]
      /\ hd \in [Handlers -> RequestType]
      /\ sc.jobs \subseteq Jobs /\ sc.handlers \subseteq Handlers /\ sc.matrices \subseteq Matrices
      /\ current \in Jobs \cup {None} /\ None \notin Jobs
  BY TypedNow, Facts DEF Base
<1> USE <1>t
<1>o. OneRequest' = OneRequest
  BY DEF OneRequest
<1>1. ASSUME NEW j \in sc.jobs, RunnerNext(j) PROVE Recorded'
  <2>0. j \in Jobs /\ hd' = hd
    BY <1>1 DEF RunnerNext, RunStart, PassCell, SkipCanceled, StartCell, FailEarly, CreateRun, LinkRun,
         EndRun, ReadBack, UnlinkRun, SkipReference, EndCell, Finish, Restore, Release, mem
  <2>1. \A k \in Jobs : Stored(k) => Stored(k)'
    <3>1. jobs' = jobs \/ \E s \in {"running", "canceled", "completed", "failed"} : SaveJob(j, s)
      BY <1>1 DEF RunnerNext, RunStart, PassCell, SkipCanceled, StartCell, FailEarly, CreateRun,
           LinkRun, EndRun, ReadBack, UnlinkRun, SkipReference, EndCell, Finish, FinalStatus, Restore,
           Release, mem
    <3>2. ASSUME NEW s \in {"running", "canceled", "completed", "failed"}, SaveJob(j, s)
          PROVE  \A k \in Jobs : Stored(k) => Stored(k)'
      BY <2>0, <3>2 DEF SaveJob, Stored
    <3> QED BY <3>1, <3>2 DEF Stored
  <2>2. current' = current \/ current' = None
    BY <1>1 DEF RunnerNext, RunStart, PassCell, SkipCanceled, StartCell, FailEarly, CreateRun, LinkRun,
         EndRun, ReadBack, UnlinkRun, SkipReference, EndCell, Finish, Restore, Release, mem
  <2>3. ASSUME OneRequest
        PROVE  /\ current' # None => jobs'[current'].status # "absent"
               /\ \A h \in Handlers : hd'[h].pc = "delete" => current' # hd'[h].id
    <3>1. CASE current' = current
      BY <2>0, <2>1, <2>3, <3>1 DEF Recorded, Stored
    <3>2. CASE current' = None
      BY <2>0, <3>2 DEF Held, RequestHolds
    <3> QED BY <2>2, <3>1, <3>2
  <2> QED BY <1>o, <2>0, <2>3 DEF Recorded, Stored
<1>2. ASSUME NEW j \in sc.jobs, UserNext(j) PROVE Recorded'
  <2>1. CASE Cancel(j)
    BY <1>o, <2>1 DEF Cancel, mem, Recorded, Stored
  <2>2. ASSUME NEW m \in sc.matrices, NEW k \in References(m), Create(j, m, k) PROVE Recorded'
    <3>1. /\ heap[j] = <<>> /\ hd' = hd /\ current' = j /\ jobs'[j].status = "pending"
          /\ \A i \in Jobs \ {j} : jobs'[i] = jobs[i]
      <4>1. heap[j] = <<>> /\ hd' = hd /\ Accept(j, [status |-> "pending", ref |-> 1, kl |-> k])
        BY <2>2 DEF Create
      <4> QED BY <4>1 DEF Accept
    <3>2. \A h \in Handlers : hd[h].pc = "delete" => hd[h].id # j
      BY <3>1 DEF Held, RequestHolds, Slots
    <3> QED BY <1>o, <3>1, <3>2 DEF Recorded, Stored
  <2>3. ASSUME NEW h \in sc.handlers, RetryGet(h, j) PROVE Recorded'
    <3>1. UNCHANGED <<jobs, current>> /\ hd'[h].pc = "mark" /\ \A g \in Handlers \ {h} : hd'[g] = hd[g]
      BY <2>3 DEF RetryGet, mem
    <3> QED BY <1>o, <3>1 DEF Recorded, Stored
  <2>4. ASSUME NEW h \in sc.handlers, DeleteCheck(h, j) PROVE Recorded'
    <3>1. UNCHANGED <<jobs, current>> /\ hd'[h].pc = "delete" /\ hd'[h].id = j /\ current # j
          /\ \A g \in Handlers \ {h} : hd'[g] = hd[g]
      BY <2>4 DEF DeleteCheck, mem
    <3> QED BY <1>o, <3>1 DEF Recorded, Stored
  <2>5. ASSUME NEW h \in sc.handlers, NEW m \in sc.matrices, NEW k \in References(m),
               EditStore(h, j, m, k)
        PROVE  Recorded'
    <3>1. UNCHANGED current /\ hd'[h].pc = "submit" /\ \A g \in Handlers \ {h} : hd'[g] = hd[g]
      BY <2>5 DEF EditStore
    <3>2. \A i \in Jobs : jobs'[i] = jobs[i] \/ jobs'[i].status = "pending"
      BY <2>5 DEF EditStore
    <3> QED BY <1>o, <3>1, <3>2 DEF Recorded, Stored
  <2> QED BY <1>2, <2>1, <2>2, <2>3, <2>4, <2>5 DEF UserNext
<1>3. ASSUME NEW h \in sc.handlers, HandlerNext(h) PROVE Recorded'
  <2>1. CASE RetryMark(h)
    <3>1. UNCHANGED <<jobs, current>> /\ hd'[h].pc \in {"submit", "idle"}
          /\ \A g \in Handlers \ {h} : hd'[g] = hd[g]
      <4>1. /\ UNCHANGED <<jobs, current>>
            /\ hd' = [hd EXCEPT ![h].pc = "submit"] \/ hd' = [hd EXCEPT ![h] = NoRequest]
        BY <2>1 DEF RetryMark
      <4>2. hd[h] \in RequestType
        OBVIOUS
      <4> QED BY <4>1, <4>2 DEF NoRequest, RequestType
    <3> QED BY <1>o, <3>1 DEF Recorded, Stored
  <2>2. CASE DeleteJob(h)
    <3>1. UNCHANGED current /\ hd'[h].pc = "idle" /\ \A g \in Handlers \ {h} : hd'[g] = hd[g]
      BY <2>2 DEF DeleteJob, NoRequest
    <3>2. hd[h].pc = "delete" /\ \A i \in Jobs \ {hd[h].id} : jobs'[i] = jobs[i]
      BY <2>2 DEF DeleteJob, mem
    <3> QED BY <1>o, <3>1, <3>2 DEF Recorded, Stored
  <2>3. CASE SubmitCopy(h)
    <3>1. hd'[h].pc = "idle" /\ hd[h].pc = "submit" /\ hd[h].id \in Jobs
          /\ \A g \in Handlers \ {h} : hd'[g] = hd[g]
      BY <2>3 DEF SubmitCopy, NoRequest, Held, RequestHolds
    <3>2. OneRequest => \A g \in Handlers : hd'[g].pc # "delete"
      BY <3>1 DEF OneRequest, Recorded
    <3>3. CASE Accept(hd[h].id, hd[h].job)
      <4>1. current' = hd[h].id /\ jobs'[hd[h].id].status = "pending"
        BY <3>1, <3>3 DEF Accept
      <4> QED BY <1>o, <3>1, <3>2, <4>1 DEF Recorded, Stored
    <3>4. CASE UNCHANGED <<mem, current, rj>>
      BY <1>o, <3>1, <3>2, <3>4 DEF mem, Recorded, Stored
    <3> QED BY <2>3, <3>3, <3>4 DEF SubmitCopy
  <2> QED BY <1>3, <2>1, <2>2, <2>3 DEF HandlerNext
<1>4. ASSUME NEW r \in RunIds, DeleteRun(r) PROVE Recorded'
  BY <1>o, <1>4 DEF DeleteRun, Recorded, Stored
<1>5. CASE Crash
  <2>1. current' = None /\ \A h \in Handlers : hd'[h].pc = "idle"
    BY <1>5 DEF Crash, NoRequest
  <2> QED BY <1>o, <2>1 DEF Recorded
<1> QED BY <1>1, <1>2, <1>3, <1>4, <1>5 DEF Step

Inv1 == Base /\ InTurn /\ Recorded

LEMMA Inv1Init == Init => Inv1
<1> SUFFICES ASSUME Init PROVE Inv1
  OBVIOUS
<1>1. Base
  BY BaseInit
<1>2. /\ \A k \in Jobs : rj[k].pc = "none" /\ jobs[k].status = "absent" /\ current # k
      /\ \A r \in RunIds : runs[r].status = "absent"
      /\ \A h \in Handlers : hd[h].pc = "idle"
      /\ current = None
  BY Facts DEF Init, Idle, NoJob, NoRun, NoRequest
<1>3. InTurn /\ Recorded
  BY <1>2 DEF InTurn, Recorded, InFlight
<1> QED BY <1>1, <1>3 DEF Inv1

LEMMA Inv1Next == Inv1 /\ [Next]_<<vars, sc>> => Inv1'
<1> SUFFICES ASSUME Inv1, [Next]_<<vars, sc>> PROVE Inv1'
  OBVIOUS
<1>1. CASE Next
  BY <1>1, BaseNext, InTurnNext, RecordedNext DEF Inv1, Next
<1>2. CASE UNCHANGED <<vars, sc>>
  <2>1. UNCHANGED <<jobs, heap, runs, started, current, rj, hd, disk, crashes, sc>>
    BY <1>2 DEF vars
  <2>2. Base'
    <3>1. Shape'
      BY <2>1 DEF Inv1, Base, Shape, TypeOK, Stored
    <3>2. Held'
      BY <2>1 DEF Inv1, Base, Held, RunnerHolds, RequestHolds, InFlight, Slots, Mine, MyCell
    <3>3. OnFile'
      BY <2>1, FileStays DEF Inv1, Base
    <3> QED BY <3>1, <3>2, <3>3 DEF Base
  <2>3. InTurn' /\ Recorded'
    BY <2>1 DEF Inv1, InTurn, Recorded, InFlight, Driving, Stored, OneRequest
  <2> QED BY <2>2, <2>3 DEF Inv1
<1> QED BY <1>1, <1>2

(* Whatever is created, retried, edited, deleted, cancelled or restarted,   *)
(* the queue runs one job, it has its record when requests do not overlap,  *)
(* and no other job is shown as running.                                    *)
THEOREM OneAtATime == Spec => []OneJobAtATime
<1>1. Inv1 => OneJobAtATime
  <2>1. Inv1 => TypeOK
    BY DEF Inv1, Base, Shape
  <2>2. Inv1 => RunningIsInFlight
    BY DEF Inv1, InTurn, RunningIsInFlight, InFlight
  <2>3. Inv1 => InFlightIsStored
    BY DEF Inv1, Recorded, InFlightIsStored
  <2> QED BY <2>1, <2>2, <2>3 DEF OneJobAtATime
<1> QED BY <1>1, Inv1Init, Inv1Next, PTL DEF Spec

-----------------------------------------------------------------------------
(* What a completed cell refers to, when nothing is removed on request.     *)

Measured(j, cell) ==
    IF cell.skip THEN cell.run = None
    ELSE cell.run # None /\ runs[cell.run] = [status |-> "completed", job |-> j]

CellFine(j, c, cell) ==
    /\ cell.run <= started
    /\ cell.skip => c \in KLCells /\ c = jobs[j].kl
    /\ cell.status = "completed" => Measured(j, cell)

(* Without edits a job has one array, which everybody refers to.            *)
ArrayFine(j) ==
    /\ Len(heap[j]) <= 1
    /\ 1 \in Slots(j) => \A c \in DOMAIN heap[j][1] : CellFine(j, c, heap[j][1][c])

HandFine(j) ==
    /\ rj[j].run <= started
    /\ InFlight(j) => rj[j].kl = jobs[j].kl
    /\ rj[j].pc \in {"link", "measure"} => runs[rj[j].run] = [status |-> "running", job |-> j]
    /\ rj[j].pc = "measure" => heap[j][1][rj[j].cell].run = rj[j].run
    /\ rj[j].pc = "read" => /\ ~IsKL(j) /\ heap[j][1][rj[j].cell].run = rj[j].run
                            /\ runs[rj[j].run].job = j
                            /\ runs[rj[j].run].status \in {"completed", "failed"}
    /\ rj[j].pc = "skip" => heap[j][1][rj[j].cell].skip
    /\ rj[j].pc = "ok" => Measured(j, heap[j][1][rj[j].cell])

RequestFine(h) ==
    /\ hd[h].pc # "delete"
    /\ hd[h].pc \in {"mark", "submit"} => hd[h].job.kl = jobs[hd[h].id].kl

Fine == /\ \A j \in Jobs : ArrayFine(j) /\ HandFine(j)
        /\ \A h \in Handlers : RequestFine(h)

LEMMA OneSlot == ASSUME NEW n \in Nat, n <= 1, NEW r \in 1 .. n PROVE r = 1 /\ n = 1
OBVIOUS

LEMMA HandIs ==
    ASSUME Base, Fine, NEW j \in Jobs, InFlight(j)
    PROVE  /\ rj[j].ref = 1 /\ Len(heap[j]) = 1 /\ Mine(j) = heap[j][1] /\ MyCell(j) = heap[j][1][rj[j].cell]
           /\ heap[j][1] \in CellArrays
           /\ \A c \in DOMAIN heap[j][1] : heap[j][1][c] \in Cell
           /\ started \in Nat /\ rj[j] \in RunnerType /\ RunnerHolds(j)
<1>1. Shape /\ Held /\ rj[j].ref \in Slots(j) /\ Mine(j) \in CellArrays
      /\ \A c \in DOMAIN Mine(j) : Mine(j)[c] \in Cell
  BY MineIs DEF Base
<1>2. Len(heap[j]) \in Nat /\ Len(heap[j]) <= 1
  BY <1>1 DEF Shape, Fine, ArrayFine
<1>3. rj[j].ref = 1 /\ Len(heap[j]) = 1
  <2>1. PICK n \in Nat : n = Len(heap[j])
    BY <1>2
  <2>2. PICK r \in 1 .. n : r = rj[j].ref
    BY <1>1, <2>1 DEF Slots
  <2> QED BY <1>2, <2>1, <2>2, OneSlot
<1>4. started \in Nat /\ rj[j] \in RunnerType /\ RunnerHolds(j)
  BY <1>1, Typed DEF RestTyped, Held
<1> QED BY <1>1, <1>3, <1>4 DEF Mine, MyCell

(* A cell that a step leaves alone stays as it should be: runs change only  *)
(* when they are new or still being driven.                                 *)
LEMMA CellKeeps ==
    ASSUME started \in Nat, started' \in Nat, started <= started',
           \A r \in RunIds : runs'[r] = runs[r] \/ r = started + 1 \/ runs[r].status = "running",
           NEW k \in Jobs, jobs'[k].kl = jobs[k].kl,
           NEW c, NEW cell \in Cell, CellFine(k, c, cell)
    PROVE  CellFine(k, c, cell)'
<1>1. cell.run \in RunIds \cup {None} /\ cell.run \in Nat
  BY Facts DEF Cell, RunIds, None
<1>2. Measured(k, cell) => Measured(k, cell)'
  <2>1. CASE cell.skip
    BY <2>1 DEF Measured
  <2>2. CASE ~cell.skip
    <3>1. SUFFICES ASSUME Measured(k, cell) PROVE Measured(k, cell)'
      OBVIOUS
    <3>2. cell.run # None /\ runs[cell.run] = [status |-> "completed", job |-> k]
      BY <2>2, <3>1 DEF Measured
    <3>3. cell.run \in RunIds /\ cell.run # started + 1 /\ runs[cell.run].status # "running"
      BY <1>1, <3>2 DEF CellFine
    <3> QED BY <2>2, <3>2, <3>3 DEF Measured
  <2> QED BY <2>1, <2>2
<1> QED BY <1>1, <1>2 DEF CellFine

LEMMA HandKeeps ==
    ASSUME Base, started' \in Nat, started <= started',
           NEW j \in Jobs,
           \A r \in RunIds : runs'[r] = runs[r] \/ r = started + 1
                             \/ runs[r] = [status |-> "running", job |-> j],
           NEW k \in Jobs \ {j}, jobs'[k].kl = jobs[k].kl, rj'[k] = rj[k], heap'[k] = heap[k],
           Fine
    PROVE  HandFine(k)'
<1>1. HandFine(k) /\ rj[k] \in RunnerType /\ started \in Nat /\ RunnerHolds(k)
  BY Typed DEF Fine, Base, RestTyped, Held
<1>2. rj[k].run \in Nat /\ rj[k].run # started + 1 /\ (rj[k].pc \in RunPCs => rj[k].run \in RunIds)
  BY <1>1, Facts DEF HandFine, RunnerType, RunnerHolds, RunIds, None
<1>3. rj[k].pc \in {"link", "measure", "read"} => runs'[rj[k].run] = runs[rj[k].run]
  BY <1>1, <1>2 DEF HandFine, RunPCs
<1>4. ASSUME rj[k].pc = "ok" PROVE Measured(k, heap[k][1][rj[k].cell])'
  <2>1. InFlight(k)
    BY <1>4 DEF InFlight
  <2>2. rj[k].cell \in DOMAIN heap[k][1] /\ Len(heap[k]) = 1
    BY <1>1, <1>4, <2>1, HandIs DEF RunnerHolds, CellPCs
  <2>3. PICK cell \in Cell : cell = heap[k][1][rj[k].cell]
    BY <2>1, <2>2, HandIs
  <2>4. Measured(k, cell) /\ cell.run <= started
    <3>1. Measured(k, heap[k][1][rj[k].cell])
      BY <1>1, <1>4 DEF HandFine
    <3>2. 1 \in Slots(k)
      BY <2>2 DEF Slots
    <3>3. CellFine(k, rj[k].cell, heap[k][1][rj[k].cell])
      BY <2>2, <3>2 DEF Fine, ArrayFine
    <3> QED BY <2>3, <3>1, <3>3 DEF CellFine
  <2>5. ~cell.skip => /\ cell.run # None /\ runs[cell.run] = [status |-> "completed", job |-> k]
                      /\ cell.run \in RunIds /\ cell.run # started + 1
    BY <1>1, <2>4, Facts DEF Measured, Cell, RunIds, None
  <2>6. Measured(k, cell)'
    BY <2>4, <2>5 DEF Measured
  <2> QED BY <2>3, <2>6
<1>5. IsKL(k)' = IsKL(k)
  BY DEF IsKL
<1> QED BY <1>1, <1>2, <1>3, <1>4, <1>5 DEF HandFine, InFlight, RunnerType

(* A step of the job in flight.                                             *)
LEMMA DriverFine ==
    ASSUME Base, Fine, NEW j \in Jobs, InFlight(j), UNCHANGED hd,
           started' \in Nat, started <= started',
           \A r \in RunIds : runs'[r] = runs[r] \/ r = started + 1
                             \/ runs[r] = [status |-> "running", job |-> j],
           \A k \in Jobs : jobs'[k].kl = jobs[k].kl,
           \A k \in Jobs \ {j} : rj'[k] = rj[k] /\ heap'[k] = heap[k],
           Len(heap'[j]) = 1, DOMAIN heap'[j][1] = DOMAIN heap[j][1],
           \A c \in DOMAIN heap[j][1] :
               heap'[j][1][c] = heap[j][1][c] \/
                   \E cell \in Cell : heap'[j][1][c] = cell /\ CellFine(j, c, cell)',
           HandFine(j)'
    PROVE  Fine'
<1>0. started \in Nat /\ \A r \in RunIds : runs'[r] = runs[r] \/ r = started + 1 \/ runs[r].status = "running"
  BY HandIs
<1>1. \A k \in Jobs : HandFine(k)'
  BY HandKeeps
<1>2. ASSUME NEW k \in Jobs PROVE ArrayFine(k)'
  <2>1. ASSUME Len(heap[k]) = 1, NEW c \in DOMAIN heap[k][1], heap'[k][1][c] = heap[k][1][c]
        PROVE  CellFine(k, c, heap[k][1][c])'
    <3>1. heap[k][1] \in CellArrays
      BY <2>1 DEF Base, Shape
    <3>2. PICK cell \in Cell : cell = heap[k][1][c]
      BY <3>1, ArrayIs
    <3>3. CellFine(k, c, cell)
      BY <2>1, <3>2 DEF Fine, ArrayFine, Slots
    <3>4. CellFine(k, c, cell)'
      BY <1>0, <3>3, CellKeeps
    <3> QED BY <2>1, <3>2, <3>4
  <2>2. CASE k # j
    <3>1. heap'[k] = heap[k] /\ Len(heap[k]) <= 1 /\ Len(heap[k]) \in Nat
      BY <2>2 DEF Fine, ArrayFine, Base, Shape
    <3>2. PICK n \in Nat : n = Len(heap[k]) /\ n <= 1
      BY <3>1
    <3>3. 1 \in 1 .. n => n = 1
      BY <3>2, OneSlot
    <3>4. 1 \in Slots(k)' => Len(heap[k]) = 1
      BY <3>1, <3>2, <3>3 DEF Slots
    <3> QED BY <2>1, <3>1, <3>2, <3>4 DEF ArrayFine
  <2>3. CASE k = j
    <3>1. Len(heap[j]) = 1 /\ Len(heap'[j]) <= 1
      BY HandIs
    <3>2. ASSUME NEW c \in DOMAIN heap[j][1] PROVE CellFine(j, c, heap[j][1][c])'
      <4>1. CASE heap'[j][1][c] = heap[j][1][c]
        BY <2>1, <2>3, <3>1, <4>1
      <4>2. ASSUME NEW cell \in Cell, heap'[j][1][c] = cell, CellFine(j, c, cell)'
            PROVE  CellFine(j, c, heap[j][1][c])'
        BY <4>2
      <4> QED BY <4>1, <4>2
    <3> QED BY <2>3, <3>1, <3>2 DEF ArrayFine
  <2> QED BY <2>2, <2>3
<1>3. ASSUME NEW h \in Handlers PROVE RequestFine(h)'
  <2>1. RequestFine(h) /\ RequestHolds(h)
    BY DEF Fine, Base, Held
  <2> QED BY <2>1 DEF RequestFine, RequestHolds
<1> QED BY <1>1, <1>2, <1>3 DEF Fine

LEMMA StayFine ==
    ASSUME Base, Fine, NEW j \in Jobs, InFlight(j), UNCHANGED <<hd, heap>>,
           started' \in Nat, started <= started',
           \A r \in RunIds : runs'[r] = runs[r] \/ r = started + 1
                             \/ runs[r] = [status |-> "running", job |-> j],
           \A k \in Jobs : jobs'[k].kl = jobs[k].kl,
           \A k \in Jobs \ {j} : rj'[k] = rj[k],
           HandFine(j)'
    PROVE  Fine'
BY HandIs, DriverFine

LEMMA SetIs ==
    ASSUME Base, Fine, NEW j \in Jobs, InFlight(j),
           NEW c \in DOMAIN heap[j][1], NEW cell \in Cell, SetCell(j, c, cell)
    PROVE  /\ Len(heap'[j]) = 1 /\ DOMAIN heap'[j][1] = DOMAIN heap[j][1]
           /\ heap'[j][1][c] = cell
           /\ \A d \in DOMAIN heap[j][1] \ {c} : heap'[j][1][d] = heap[j][1][d]
           /\ \A k \in Jobs \ {j} : heap'[k] = heap[k]
<1>1. /\ rj[j].ref = 1 /\ Len(heap[j]) = 1 /\ Mine(j) = heap[j][1]
      /\ heap \in [Jobs -> Seq(CellArrays)]
  BY HandIs DEF Base, Shape
<1>2. 1 \in Slots(j)
  BY <1>1 DEF Slots
<1>3. /\ \A k \in Jobs : Len(heap'[k]) = Len(heap[k])
      /\ \A k \in Jobs : \A i \in Slots(k) :
           /\ DOMAIN heap'[k][i] = DOMAIN heap[k][i]
           /\ \A d \in DOMAIN heap[k][i] :
                heap'[k][i][d] = IF k = j /\ i = rj[j].ref /\ d = c THEN cell ELSE heap[k][i][d]
  BY <1>1, <1>2, SetCellIs
<1>4. \A k \in Jobs \ {j} : heap'[k] = heap[k]
  BY <1>1 DEF SetCell
<1> QED BY <1>1, <1>2, <1>3, <1>4

LEMMA SetFine ==
    ASSUME Base, Fine, NEW j \in Jobs, InFlight(j), UNCHANGED <<hd, started>>,
           \A r \in RunIds : runs'[r] = runs[r] \/ runs[r] = [status |-> "running", job |-> j],
           \A k \in Jobs : jobs'[k].kl = jobs[k].kl,
           \A k \in Jobs \ {j} : rj'[k] = rj[k],
           NEW c \in DOMAIN heap[j][1], NEW cell \in Cell, SetCell(j, c, cell), CellFine(j, c, cell)',
           HandFine(j)'
    PROVE  Fine'
<1>1. started \in Nat /\ started' \in Nat /\ started <= started'
  BY HandIs
<1>2. /\ Len(heap'[j]) = 1 /\ DOMAIN heap'[j][1] = DOMAIN heap[j][1]
      /\ \A k \in Jobs \ {j} : heap'[k] = heap[k]
      /\ \A d \in DOMAIN heap[j][1] :
             heap'[j][1][d] = heap[j][1][d] \/
                 \E x \in Cell : heap'[j][1][d] = x /\ CellFine(j, d, x)'
  BY SetIs
<1> QED BY <1>1, <1>2, DriverFine

LEMMA CellSets ==
    ASSUME NEW x \in Cell
    PROVE  /\ \A s \in CellStatuses : \E y \in Cell :
                  /\ y = [x EXCEPT !.status = s]
                  /\ y.status = s /\ y.run = x.run /\ y.skip = x.skip
           /\ \A r \in RunIds \cup {None} : \E y \in Cell :
                  /\ y = [x EXCEPT !.run = r]
                  /\ y.status = x.status /\ y.run = r /\ y.skip = x.skip
           /\ \E y \in Cell :
                  /\ y = [x EXCEPT !.skip = TRUE]
                  /\ y.status = x.status /\ y.run = x.run /\ y.skip
<1>1. ASSUME NEW s \in CellStatuses
      PROVE  /\ [x EXCEPT !.status = s] \in Cell
             /\ [x EXCEPT !.status = s].status = s /\ [x EXCEPT !.status = s].run = x.run
             /\ [x EXCEPT !.status = s].skip = x.skip
  BY DEF Cell
<1>2. ASSUME NEW r \in RunIds \cup {None}
      PROVE  /\ [x EXCEPT !.run = r] \in Cell
             /\ [x EXCEPT !.run = r].status = x.status /\ [x EXCEPT !.run = r].run = r
             /\ [x EXCEPT !.run = r].skip = x.skip
  BY DEF Cell
<1>3. /\ [x EXCEPT !.skip = TRUE] \in Cell
      /\ [x EXCEPT !.skip = TRUE].status = x.status /\ [x EXCEPT !.skip = TRUE].run = x.run
      /\ [x EXCEPT !.skip = TRUE].skip
  BY DEF Cell
<1> QED BY <1>1, <1>2, <1>3

LEMMA RunnerFine ==
    ASSUME Base, Fine, NEW j \in sc.jobs, RunnerNext(j), UNCHANGED sc
    PROVE  Fine'
<1>f. /\ j \in Jobs /\ rj \in [Jobs -> RunnerType] /\ rj[j] \in RunnerType /\ jobs \in [Jobs -> Job]
      /\ runs \in [RunIds -> Run] /\ started \in Nat /\ HandFine(j)
  <2>1. Shape /\ sc.jobs \subseteq Jobs
    BY TypedNow, Facts DEF Base
  <2>2. /\ rj \in [Jobs -> RunnerType] /\ jobs \in [Jobs -> Job]
        /\ runs \in [RunIds -> Run] /\ started \in Nat
    BY <2>1, TypedNow, Facts
  <2> QED BY <2>1, <2>2 DEF Fine
<1> USE <1>f
<1>i. InFlight(j)
  BY DEF InFlight, RunnerNext, RunStart, PassCell, SkipCanceled, StartCell, FailEarly, CreateRun,
       LinkRun, EndRun, ReadBack, UnlinkRun, SkipReference, EndCell, Finish, Restore, Release
<1>h. /\ Mine(j) = heap[j][1] /\ MyCell(j) = heap[j][1][rj[j].cell] /\ RunnerHolds(j)
      /\ \A c \in DOMAIN heap[j][1] : heap[j][1][c] \in Cell /\ CellFine(j, c, heap[j][1][c])
      /\ rj[j].kl = jobs[j].kl /\ rj[j].run <= started
  BY <1>i, HandIs DEF Fine, ArrayFine, Slots, HandFine
<1>s. ASSUME NEW s, SaveJob(j, s)
      PROVE  (\A k \in Jobs : jobs'[k].kl = jobs[k].kl) /\ jobs'[j].kl = rj[j].kl
  BY <1>s, <1>h DEF SaveJob
<1>1. CASE RunStart(j)
  <2>1. /\ rj'[j].pc = "loop" /\ rj'[j].run = rj[j].run /\ rj'[j].kl = rj[j].kl
        /\ \A k \in Jobs \ {j} : rj'[k] = rj[k]
    BY <1>1 DEF RunStart, RunnerType
  <2>2. UNCHANGED <<heap, runs, started, hd>> /\ \A k \in Jobs : jobs'[k].kl = jobs[k].kl
    BY <1>1, <1>s DEF RunStart
  <2>3. HandFine(j)'
    BY <1>h, <2>1, <2>2 DEF HandFine
  <2> QED BY <1>i, <2>1, <2>2, <2>3, StayFine
<1>2. CASE PassCell(j)
  <2>1. /\ rj'[j].pc = "loop" /\ rj'[j].run = rj[j].run /\ rj'[j].kl = rj[j].kl
        /\ \A k \in Jobs \ {j} : rj'[k] = rj[k]
    BY <1>2 DEF PassCell, RunnerType
  <2>2. UNCHANGED <<heap, runs, started, hd, jobs>>
    BY <1>2 DEF PassCell, mem
  <2>3. HandFine(j)'
    BY <1>h, <2>1, <2>2 DEF HandFine
  <2> QED BY <1>i, <2>1, <2>2, <2>3, StayFine
<1>3. CASE SkipCanceled(j) \/ StartCell(j)
  <2>1. PICK c \in DOMAIN heap[j][1], s \in {"skipped", "running"} :
            SetCell(j, c, [heap[j][1][c] EXCEPT !.status = s])
    BY <1>3, <1>h DEF SkipCanceled, StartCell, IsNext, Left
  <2>2. /\ rj'[j].pc \in {"loop", "cell"} /\ rj'[j].run = rj[j].run /\ rj'[j].kl = rj[j].kl
        /\ \A k \in Jobs \ {j} : rj'[k] = rj[k]
    <3>1. CASE SkipCanceled(j)
      BY <3>1 DEF SkipCanceled, RunnerType
    <3>2. CASE StartCell(j)
      BY <3>2 DEF StartCell, RunnerType
    <3> QED BY <1>3, <3>1, <3>2
  <2>3. UNCHANGED <<runs, started, hd>> /\ \A k \in Jobs : jobs'[k].kl = jobs[k].kl
    BY <1>3, <1>s DEF SkipCanceled, StartCell
  <2>4. PICK cell \in Cell : /\ cell = [heap[j][1][c] EXCEPT !.status = s]
                             /\ cell.run = heap[j][1][c].run /\ cell.skip = heap[j][1][c].skip
                             /\ cell.status = s
    <3>1. PICK x \in Cell : x = heap[j][1][c]
      BY <1>h
    <3>2. s \in CellStatuses
      BY DEF CellStatuses
    <3>3. PICK y \in Cell : /\ y = [x EXCEPT !.status = s]
                            /\ y.status = s /\ y.run = x.run /\ y.skip = x.skip
      BY <3>2, CellSets
    <3> QED BY <3>1, <3>3
  <2>5. CellFine(j, c, cell)'
    BY <1>h, <2>3, <2>4 DEF CellFine
  <2>6. HandFine(j)'
    BY <1>h, <2>2, <2>3 DEF HandFine
  <2>7. SetCell(j, c, cell)
    BY <2>1, <2>4
  <2> QED BY <1>i, <2>2, <2>3, <2>5, <2>6, <2>7, SetFine
<1>5. CASE FailEarly(j)
  <2>1. /\ rj'[j].pc = "bad" /\ rj'[j].run = rj[j].run /\ rj'[j].kl = rj[j].kl
        /\ \A k \in Jobs \ {j} : rj'[k] = rj[k]
    BY <1>5 DEF FailEarly, RunnerType
  <2>2. UNCHANGED <<heap, runs, started, hd, jobs>>
    BY <1>5 DEF FailEarly, mem
  <2>3. HandFine(j)'
    BY <1>h, <2>1, <2>2 DEF HandFine
  <2> QED BY <1>i, <2>1, <2>2, <2>3, StayFine
<1>6. CASE CreateRun(j)
  <2>0. started' = started + 1 /\ started + 1 \in RunIds
    <3>1. sc.runs \in 0 .. MaxRuns /\ MaxRuns \in Nat /\ started < sc.runs /\ started' = started + 1
      BY <1>6, Facts, TypedNow DEF CreateRun, Base
    <3> QED BY <3>1 DEF RunIds
  <2>1. /\ rj'[j].pc = "link" /\ rj'[j].run = started + 1 /\ rj'[j].kl = rj[j].kl
        /\ \A k \in Jobs \ {j} : rj'[k] = rj[k]
    BY <1>6 DEF CreateRun, RunnerType
  <2>2. /\ UNCHANGED <<heap, hd, jobs>>
        /\ runs'[started + 1] = [status |-> "running", job |-> j]
        /\ \A r \in RunIds : runs'[r] = runs[r] \/ r = started + 1
    BY <1>6, <2>0 DEF CreateRun
  <2>3. HandFine(j)'
    BY <1>h, <2>0, <2>1, <2>2 DEF HandFine
  <2> QED BY <1>i, <2>0, <2>1, <2>2, <2>3, StayFine
<1>7. CASE LinkRun(j)
  <2>0. rj[j].pc = "link" /\ rj[j].cell \in DOMAIN heap[j][1] /\ heap[j][1][rj[j].cell].status = "running"
    BY <1>7, <1>h DEF LinkRun, RunnerHolds, CellPCs
  <2>1. /\ rj'[j].pc = "measure" /\ rj'[j].run = rj[j].run /\ rj'[j].kl = rj[j].kl /\ rj'[j].cell = rj[j].cell
        /\ \A k \in Jobs \ {j} : rj'[k] = rj[k]
    BY <1>7 DEF LinkRun, RunnerType
  <2>2. UNCHANGED <<runs, started, hd>> /\ \A k \in Jobs : jobs'[k].kl = jobs[k].kl
    BY <1>7, <1>s DEF LinkRun
  <2>3. PICK c \in DOMAIN heap[j][1] : c = rj[j].cell
    BY <2>0
  <2>4. PICK cell \in Cell : /\ cell = [heap[j][1][c] EXCEPT !.run = rj[j].run]
                             /\ cell.run = rj[j].run /\ cell.skip = heap[j][1][c].skip
                             /\ cell.status = "running"
    <3>1. PICK x \in Cell : x = heap[j][1][c]
      BY <1>h
    <3>2. rj[j].run \in RunIds \cup {None}
      BY DEF RunnerType
    <3>3. PICK y \in Cell : /\ y = [x EXCEPT !.run = rj[j].run]
                            /\ y.status = x.status /\ y.run = rj[j].run /\ y.skip = x.skip
      BY <3>2, CellSets
    <3> QED BY <2>0, <2>3, <3>1, <3>3, Zenon
  <2>5. SetCell(j, c, cell)
    BY <1>7, <1>h, <2>3, <2>4 DEF LinkRun
  <2>6. CellFine(j, c, cell)'
    BY <1>h, <2>2, <2>4 DEF CellFine
  <2>7. heap'[j][1][c] = cell
    BY <1>i, <2>5, SetIs
  <2>8. HandFine(j)'
    BY <1>h, <2>0, <2>1, <2>2, <2>3, <2>4, <2>7 DEF HandFine
  <2> QED BY <1>i, <2>1, <2>2, <2>5, <2>6, <2>8, SetFine
<1>8. CASE EndRun(j)
  <2>0. /\ rj[j].pc = "measure" /\ rj[j].cell \in DOMAIN heap[j][1] /\ rj[j].run \in RunIds
        /\ runs[rj[j].run] = [status |-> "running", job |-> j]
        /\ heap[j][1][rj[j].cell].run = rj[j].run /\ rj[j].run # None
    BY <1>8, <1>h, Facts DEF EndRun, HandFine, RunnerHolds, CellPCs, RunPCs, RunnerType
  <2>1. PICK s \in {"completed", "failed"} :
            /\ ~(IsOwnReference(j) /\ s = "completed")
            /\ runs' = [runs EXCEPT ![rj[j].run] = [status |-> s, job |-> j]]
            /\ rj' = [rj EXCEPT ![j].pc = IF ~IsKL(j) THEN "read"
                                          ELSE IF s = "completed" THEN "ok" ELSE "bad"]
            /\ UNCHANGED <<jobs, heap, started, hd>>
    BY <1>8 DEF EndRun
  <2>2. /\ rj'[j].pc = IF ~IsKL(j) THEN "read" ELSE IF s = "completed" THEN "ok" ELSE "bad"
        /\ rj'[j].run = rj[j].run /\ rj'[j].kl = rj[j].kl /\ rj'[j].cell = rj[j].cell
        /\ \A k \in Jobs \ {j} : rj'[k] = rj[k]
    BY <2>1 DEF RunnerType
  <2>3. /\ runs'[rj[j].run] = [status |-> s, job |-> j]
        /\ \A r \in RunIds : runs'[r] = runs[r] \/ runs[r] = [status |-> "running", job |-> j]
    BY <2>0, <2>1
  <2>4. IsKL(j)' = IsKL(j)
    BY <2>2 DEF IsKL
  <2>5. ASSUME rj'[j].pc = "ok" PROVE Measured(j, heap[j][1][rj[j].cell])'
    <3>1. PICK cell \in Cell : cell = heap[j][1][rj[j].cell] /\ CellFine(j, rj[j].cell, cell)
      BY <1>h, <2>0
    <3>2. IsKL(j) /\ s = "completed" /\ ~IsOwnReference(j)
      BY <2>1, <2>2, <2>5
    <3>3. ~cell.skip
      BY <1>h, <3>1, <3>2 DEF CellFine, IsOwnReference
    <3>4. Measured(j, cell)'
      BY <2>0, <2>3, <3>1, <3>2, <3>3 DEF Measured
    <3>5. heap'[j][1][rj'[j].cell] = cell
      BY <2>1, <2>2, <3>1
    <3> QED BY <3>4, <3>5
  <2>6. HandFine(j)'
    BY <1>h, <2>0, <2>1, <2>2, <2>3, <2>4, <2>5 DEF HandFine
  <2> QED BY <1>i, <2>1, <2>2, <2>3, <2>6, StayFine
<1>9. CASE ReadBack(j)
  <2>0. /\ rj[j].pc = "read" /\ rj[j].cell \in DOMAIN heap[j][1] /\ rj[j].run \in RunIds /\ rj[j].run # None
        /\ ~IsKL(j) /\ heap[j][1][rj[j].cell].run = rj[j].run /\ runs[rj[j].run].job = j
    BY <1>9, <1>h, Facts DEF ReadBack, HandFine, RunnerHolds, CellPCs, RunPCs, RunnerType
  <2>1. /\ rj'[j].pc = IF runs[rj[j].run].status = "completed" THEN "ok" ELSE "bad"
        /\ rj'[j].run = rj[j].run /\ rj'[j].kl = rj[j].kl /\ rj'[j].cell = rj[j].cell
        /\ \A k \in Jobs \ {j} : rj'[k] = rj[k]
    BY <1>9 DEF ReadBack, RunnerType
  <2>2. UNCHANGED <<heap, runs, started, hd, jobs>>
    BY <1>9 DEF ReadBack, mem
  <2>3. ASSUME rj'[j].pc = "ok" PROVE Measured(j, heap[j][1][rj[j].cell])'
    <3>1. PICK cell \in Cell : cell = heap[j][1][rj[j].cell] /\ CellFine(j, rj[j].cell, cell)
      BY <1>h, <2>0
    <3>2. ~cell.skip
      BY <2>0, <3>1 DEF CellFine, IsKL
    <3>3. runs[rj[j].run] = [status |-> "completed", job |-> j]
      BY <2>0, <2>1, <2>3 DEF Run
    <3>4. Measured(j, cell)'
      BY <2>0, <2>2, <3>1, <3>2, <3>3 DEF Measured
    <3>5. heap'[j][1][rj'[j].cell] = cell
      BY <2>1, <2>2, <3>1
    <3> QED BY <3>4, <3>5
  <2>4. HandFine(j)'
    BY <1>h, <2>1, <2>2, <2>3 DEF HandFine
  <2> QED BY <1>i, <2>1, <2>2, <2>4, StayFine
<1>10. CASE UnlinkRun(j)
  <2>0. /\ rj[j].pc = "measure" /\ rj[j].cell \in DOMAIN heap[j][1] /\ rj[j].run \in RunIds
        /\ heap[j][1][rj[j].cell].status = "running" /\ IsOwnReference(j)
        /\ runs[rj[j].run] = [status |-> "running", job |-> j]
    BY <1>10, <1>h, Facts DEF UnlinkRun, HandFine, RunnerHolds, CellPCs, RunPCs, RunnerType
  <2>1. /\ rj'[j].pc = "skip" /\ rj'[j].run = rj[j].run /\ rj'[j].kl = rj[j].kl /\ rj'[j].cell = rj[j].cell
        /\ \A k \in Jobs \ {j} : rj'[k] = rj[k]
    BY <1>10 DEF UnlinkRun, RunnerType
  <2>2. UNCHANGED <<jobs, started, hd>> /\ runs' = [runs EXCEPT ![rj[j].run] = NoRun]
    BY <1>10 DEF UnlinkRun
  <2>3. \A r \in RunIds : runs'[r] = runs[r] \/ runs[r] = [status |-> "running", job |-> j]
    BY <2>0, <2>2
  <2>4. PICK c \in DOMAIN heap[j][1], x \in Cell : c = rj[j].cell /\ x = heap[j][1][c] /\ CellFine(j, c, x)
    BY <1>h, <2>0
  <2>5. PICK cell \in Cell : /\ cell = [x EXCEPT !.skip = TRUE]
                             /\ cell.status = x.status /\ cell.run = x.run /\ cell.skip
    BY CellSets
  <2>6. SetCell(j, c, cell)
    BY <1>10, <1>h, <2>4, <2>5 DEF UnlinkRun
  <2>7. CellFine(j, c, cell)'
    BY <1>h, <2>0, <2>2, <2>4, <2>5, Zenon DEF CellFine, IsOwnReference, IsKL
  <2>8. heap'[j][1][c] = cell
    BY <1>i, <2>6, SetIs
  <2>9. HandFine(j)'
    BY <1>h, <2>1, <2>2, <2>4, <2>5, <2>8, SMTT(30) DEF HandFine
  <2> QED BY <1>i, <2>1, <2>2, <2>3, <2>6, <2>7, <2>9, SetFine
<1>11. CASE SkipReference(j)
  <2>0. /\ rj[j].pc = "skip" /\ rj[j].cell \in DOMAIN heap[j][1]
        /\ heap[j][1][rj[j].cell].status = "running" /\ heap[j][1][rj[j].cell].skip
    BY <1>11, <1>h DEF SkipReference, HandFine, RunnerHolds, CellPCs
  <2>1. /\ rj'[j].pc = "ok" /\ rj'[j].run = rj[j].run /\ rj'[j].kl = rj[j].kl /\ rj'[j].cell = rj[j].cell
        /\ \A k \in Jobs \ {j} : rj'[k] = rj[k]
    BY <1>11 DEF SkipReference, RunnerType
  <2>2. UNCHANGED <<runs, started, hd>> /\ \A k \in Jobs : jobs'[k].kl = jobs[k].kl
    BY <1>11, <1>s DEF SkipReference
  <2>3. PICK c \in DOMAIN heap[j][1], x \in Cell : c = rj[j].cell /\ x = heap[j][1][c] /\ CellFine(j, c, x)
    BY <1>h, <2>0
  <2>4. PICK cell \in Cell : /\ cell = [x EXCEPT !.run = None]
                             /\ cell.status = x.status /\ cell.run = None /\ cell.skip = x.skip
    BY CellSets
  <2>5. SetCell(j, c, cell)
    BY <1>11, <1>h, <2>3, <2>4 DEF SkipReference
  <2>6. CellFine(j, c, cell)'
    BY <2>0, <2>2, <2>3, <2>4 DEF CellFine, None
  <2>7. heap'[j][1][c] = cell
    BY <1>i, <2>5, SetIs
  <2>8. Measured(j, cell)'
    BY <2>0, <2>3, <2>4 DEF Measured
  <2>9. HandFine(j)'
    BY <1>h, <2>1, <2>2, <2>3, <2>7, <2>8 DEF HandFine
  <2> QED BY <1>i, <2>1, <2>2, <2>5, <2>6, <2>9, SetFine
<1>12. CASE EndCell(j)
  <2>0. rj[j].pc \in {"ok", "bad"} /\ rj[j].cell \in DOMAIN heap[j][1]
    BY <1>12, <1>h DEF EndCell, RunnerHolds, CellPCs
  <2>1. /\ rj'[j].pc = "loop" /\ rj'[j].run = None /\ rj'[j].kl = rj[j].kl
        /\ \A k \in Jobs \ {j} : rj'[k] = rj[k]
    BY <1>12 DEF EndCell, RunnerType
  <2>2. UNCHANGED <<runs, started, hd>> /\ \A k \in Jobs : jobs'[k].kl = jobs[k].kl
    BY <1>12, <1>s DEF EndCell
  <2>3. PICK c \in DOMAIN heap[j][1], x \in Cell : c = rj[j].cell /\ x = heap[j][1][c] /\ CellFine(j, c, x)
    BY <1>h, <2>0
  <2>4. PICK s \in CellStatuses : s = IF rj[j].pc = "ok" THEN "completed" ELSE "failed"
    BY DEF CellStatuses
  <2>5. PICK cell \in Cell : /\ cell = [x EXCEPT !.status = s]
                             /\ cell.status = s /\ cell.run = x.run /\ cell.skip = x.skip
    BY CellSets
  <2>6. SetCell(j, c, cell)
    BY <1>12, <1>h, <2>3, <2>4, <2>5 DEF EndCell
  <2>7. rj[j].pc = "ok" => Measured(j, x)
    BY <2>3 DEF HandFine
  <2>8. CellFine(j, c, cell)'
    <3>1. cell.status = "completed" => Measured(j, x)
      BY <2>4, <2>5, <2>7
    <3>2. Measured(j, x) => Measured(j, cell)'
      BY <2>2, <2>5 DEF Measured
    <3>3. cell.run <= started' /\ (cell.skip => c \in KLCells /\ c = jobs'[j].kl)
      BY <2>2, <2>3, <2>5 DEF CellFine
    <3>4. QED
      BY <3>1, <3>2, <3>3 DEF CellFine
  <2>9. HandFine(j)'
    BY <1>h, <2>1, <2>2 DEF HandFine, None
  <2> QED BY <1>i, <2>1, <2>2, <2>6, <2>8, <2>9, SetFine
<1>13. CASE Finish(j)
  <2>1. /\ rj'[j].pc = "restore" /\ rj'[j].run = rj[j].run /\ rj'[j].kl = rj[j].kl
        /\ \A k \in Jobs \ {j} : rj'[k] = rj[k]
    BY <1>13 DEF Finish, RunnerType
  <2>2. UNCHANGED <<heap, runs, started, hd>> /\ \A k \in Jobs : jobs'[k].kl = jobs[k].kl
    BY <1>13, <1>s DEF Finish
  <2>3. HandFine(j)'
    BY <1>h, <2>1, <2>2 DEF HandFine
  <2> QED BY <1>i, <2>1, <2>2, <2>3, StayFine
<1>14. CASE Restore(j)
  <2>1. /\ rj'[j].pc = "release" /\ rj'[j].run = rj[j].run /\ rj'[j].kl = rj[j].kl
        /\ \A k \in Jobs \ {j} : rj'[k] = rj[k]
    BY <1>14 DEF Restore, RunnerType
  <2>2. UNCHANGED <<heap, runs, started, hd, jobs>>
    BY <1>14 DEF Restore, mem
  <2>3. HandFine(j)'
    BY <1>h, <2>1, <2>2 DEF HandFine
  <2> QED BY <1>i, <2>1, <2>2, <2>3, StayFine
<1>15. CASE Release(j)
  <2>1. rj'[j] = Idle /\ \A k \in Jobs \ {j} : rj'[k] = rj[k]
    BY <1>15 DEF Release
  <2>2. UNCHANGED <<heap, runs, started, hd, jobs>>
    BY <1>15 DEF Release, mem
  <2>3. HandFine(j)'
    BY <2>1, <2>2 DEF HandFine, InFlight, Idle, None
  <2> QED BY <1>i, <2>1, <2>2, <2>3, StayFine
<1> QED BY <1>1, <1>2, <1>3, <1>5, <1>6, <1>7, <1>8, <1>9, <1>10, <1>11, <1>12, <1>13, <1>14, <1>15
        DEF RunnerNext

(* Requests, and the restart.                                               *)
LEMMA AsideFine ==
    ASSUME Base, Fine, UNCHANGED <<heap, runs, started>>,
           \A k \in Jobs : jobs'[k].kl = jobs[k].kl,
           \A k \in Jobs : \/ /\ rj'[k].pc = rj[k].pc /\ rj'[k].run = rj[k].run
                              /\ rj'[k].kl = rj[k].kl /\ rj'[k].cell = rj[k].cell
                           \/ /\ rj'[k].pc = "start" /\ rj'[k].run = None /\ rj'[k].kl = jobs[k].kl,
           \A h \in Handlers : hd'[h] = hd[h] \/ RequestFine(h)'
    PROVE  Fine'
<1>1. started \in Nat
  BY Typed DEF Base, RestTyped
<1>2. ASSUME NEW k \in Jobs PROVE ArrayFine(k)'
  <2>1. ArrayFine(k)
    BY DEF Fine
  <2>2. \A c, cell : CellFine(k, c, cell) => CellFine(k, c, cell)'
    BY DEF CellFine, Measured
  <2> QED BY <2>1, <2>2 DEF ArrayFine, Slots
<1>3. ASSUME NEW k \in Jobs PROVE HandFine(k)'
  BY <1>1, SMTT(30) DEF Fine, HandFine, InFlight, Measured, IsKL, None
<1>4. ASSUME NEW h \in Handlers PROVE RequestFine(h)'
  BY DEF Fine, RequestFine, Base, Held, RequestHolds
<1> QED BY <1>2, <1>3, <1>4 DEF Fine

LEMMA CreateFine ==
    ASSUME Base, Fine, NEW j \in Jobs, NEW m \in Matrices, NEW k \in References(m), Create(j, m, k)
    PROVE  Fine'
<1>0. /\ heap[j] = <<>> /\ Accept(j, [status |-> "pending", ref |-> 1, kl |-> k])
      /\ heap' = [heap EXCEPT ![j] = <<FreshCells(m)>>] /\ UNCHANGED <<runs, started, hd>>
  BY DEF Create
<1>t. /\ jobs \in [Jobs -> Job] /\ rj \in [Jobs -> RunnerType] /\ heap \in [Jobs -> Seq(CellArrays)]
      /\ started \in Nat /\ Held
  BY Typed DEF Base, JobsTyped, RestTyped
<1>1. /\ heap'[j] = <<FreshCells(m)>> /\ jobs'[j].kl = k
      /\ rj'[j].pc = "start" /\ rj'[j].run = None /\ rj'[j].kl = k
      /\ \A i \in Jobs \ {j} : heap'[i] = heap[i] /\ jobs'[i] = jobs[i] /\ rj'[i] = rj[i]
  BY <1>0, <1>t DEF Accept, Idle
<1>2. ASSUME NEW i \in Jobs PROVE ArrayFine(i)' /\ HandFine(i)'
  <2>1. CASE i = j
    <3>1. Len(heap'[j]) = 1 /\ heap'[j][1] = FreshCells(m)
      BY <1>1
    <3>2. ASSUME NEW c \in m
          PROVE  CellFine(j, c, FreshCells(m)[c])'
      <4>1. FreshCells(m)[c] = [status |-> "pending", run |-> None, skip |-> FALSE]
        BY FreshIs
      <4> QED BY <1>0, <1>t, <4>1 DEF CellFine, None
    <3>3. HandFine(j)'
      BY <1>0, <1>1, <1>t DEF HandFine, None
    <3> QED BY <2>1, <3>1, <3>2, <3>3, FreshIs DEF ArrayFine
  <2>2. CASE i # j
    <3>1. ArrayFine(i) /\ HandFine(i) /\ heap'[i] = heap[i] /\ jobs'[i] = jobs[i] /\ rj'[i] = rj[i]
      BY <1>1, <2>2 DEF Fine
    <3>2. \A c, cell : CellFine(i, c, cell) => CellFine(i, c, cell)'
      BY <1>0, <3>1 DEF CellFine, Measured
    <3>3. ArrayFine(i)'
      BY <3>1, <3>2 DEF ArrayFine, Slots
    <3>4. HandFine(i)'
      BY <1>0, <3>1, Zenon DEF HandFine, InFlight, Measured, IsKL
    <3> QED BY <3>3, <3>4
  <2> QED BY <2>1, <2>2
<1>3. ASSUME NEW h \in Handlers PROVE RequestFine(h)'
  <2>1. hd[h].pc \in {"mark", "submit"} => hd[h].id \in Jobs \ {j}
    <3>1. Len(heap[j]) = 0
      BY <1>0
    <3>2. \A r : r \notin Slots(j)
      BY <3>1 DEF Slots
    <3> QED BY <1>t, <3>2 DEF Held, RequestHolds
  <2> QED BY <1>0, <1>1, <2>1 DEF Fine, RequestFine
<1> QED BY <1>2, <1>3 DEF Fine

LEMMA MarkFine ==
    ASSUME Base, Fine, NEW h \in Handlers, RetryMark(h)
    PROVE  Fine'
<1>1. /\ UNCHANGED <<jobs, runs, started, rj>> /\ hd[h].pc = "mark" /\ (UNCHANGED heap \/ Marks(h))
      /\ hd' = [hd EXCEPT ![h].pc = "submit"] \/ hd' = [hd EXCEPT ![h] = NoRequest]
  BY DEF RetryMark, Marks
<1>2. ASSUME NEW g \in Handlers PROVE RequestFine(g)'
  <2>1. hd'[g] = hd[g] \/ (g = h /\ hd'[g] = [hd[g] EXCEPT !.pc = "submit"]) \/ hd'[g] = NoRequest
    BY <1>1, Typed DEF Base
  <2>2. hd[g] \in RequestType /\ RequestFine(g)
    BY Typed DEF Base, Fine
  <2> QED BY <1>1, <2>1, <2>2 DEF RequestFine, NoRequest, RequestType
<1>3. CASE UNCHANGED heap
  <2>1. ASSUME NEW k \in Jobs PROVE ArrayFine(k)' /\ HandFine(k)'
    <3>1. \A c, cell : CellFine(k, c, cell) => CellFine(k, c, cell)'
      BY <1>1 DEF CellFine, Measured
    <3>2. ArrayFine(k) /\ HandFine(k)
      BY DEF Fine
    <3>3. ArrayFine(k)'
      BY <1>3, <3>1, <3>2 DEF ArrayFine, Slots
    <3>4. HandFine(k)'
      BY <1>1, <1>3, <3>2 DEF HandFine, InFlight, Measured, IsKL
    <3> QED BY <3>3, <3>4
  <2> QED BY <1>2, <2>1 DEF Fine
<1>4. CASE Marks(h)
  <2>1. /\ \A k \in Jobs : Len(heap'[k]) = Len(heap[k])
        /\ \A k \in Jobs : \A i \in Slots(k) :
             heap'[k][i] = heap[k][i] \/ heap'[k][i] = Mark(heap[k][i])
    BY <1>1, <1>4, MarkGrows DEF Base
  <2>2. ASSUME NEW k \in Jobs, 1 \in Slots(k)
        PROVE  /\ DOMAIN heap'[k][1] = DOMAIN heap[k][1]
               /\ \A c \in DOMAIN heap[k][1] :
                    /\ heap[k][1][c] \in Cell
                    /\ \/ heap'[k][1][c] = heap[k][1][c]
                       \/ heap[k][1][c].status = "failed"
                          /\ heap'[k][1][c] = [heap[k][1][c] EXCEPT !.status = "pending"]
    <3>1. PICK a \in CellArrays : a = heap[k][1]
      BY <2>2 DEF Base, Shape, Slots
    <3>2. PICK b : b = heap'[k][1] /\ (b = a \/ b = Mark(a))
      BY <2>1, <2>2, <3>1
    <3>3. DOMAIN b = DOMAIN a /\ \A c \in DOMAIN a : a[c] \in Cell /\
             (b[c] = a[c] \/ (a[c].status = "failed" /\ b[c] = [a[c] EXCEPT !.status = "pending"]))
      BY <3>2, MarkIs, ArrayIs
    <3> QED BY <3>1, <3>2, <3>3
  <2>3. ASSUME NEW k \in Jobs PROVE ArrayFine(k)'
    <3>1. ASSUME 1 \in Slots(k), NEW c \in DOMAIN heap[k][1]
          PROVE  CellFine(k, c, heap[k][1][c])'
      <4>1. PICK x \in Cell : x = heap[k][1][c] /\ CellFine(k, c, x)
        BY <2>2, <3>1 DEF Fine, ArrayFine
      <4>2. CASE heap'[k][1][c] = x
        BY <1>1, <4>1, <4>2 DEF CellFine, Measured
      <4>3. CASE heap'[k][1][c] = [x EXCEPT !.status = "pending"]
        <5>1. PICK y \in Cell : /\ y = [x EXCEPT !.status = "pending"]
                                /\ y.status = "pending" /\ y.run = x.run /\ y.skip = x.skip
          BY CellSets DEF CellStatuses
        <5> QED BY <1>1, <4>1, <4>3, <5>1 DEF CellFine
      <4> QED BY <2>2, <3>1, <4>1, <4>2, <4>3
    <3>2. Len(heap'[k]) = Len(heap[k]) /\ ArrayFine(k)
      BY <2>1 DEF Fine
    <3> QED BY <2>2, <3>1, <3>2 DEF ArrayFine, Slots
  <2>4. ASSUME NEW k \in Jobs PROVE HandFine(k)'
    <3>1. HandFine(k) /\ RunnerHolds(k)
      BY DEF Fine, Base, Held
    <3>2. ASSUME rj[k].pc \in {"measure", "read", "skip", "ok"}
          PROVE  heap'[k][1][rj[k].cell] = heap[k][1][rj[k].cell]
      <4>1. InFlight(k)
        BY <3>2 DEF InFlight
      <4>2. rj[k].cell \in DOMAIN heap[k][1] /\ heap[k][1][rj[k].cell].status = "running" /\ 1 \in Slots(k)
        BY <3>1, <3>2, <4>1, HandIs DEF RunnerHolds, CellPCs, Slots
      <4> QED BY <2>2, <4>2
    <3> QED BY <1>1, <3>1, <3>2, Zenon DEF HandFine, InFlight, Measured, IsKL
  <2> QED BY <1>2, <2>3, <2>4 DEF Fine
<1> QED BY <1>1, <1>3, <1>4

LEMMA CrashFine ==
    ASSUME Base, Fine, Crash
    PROVE  Fine'
<1>1. /\ \A j \in Jobs : rj'[j] = Idle
      /\ \A h \in Handlers : hd'[h] = NoRequest
      /\ started' = started /\ started \in Nat
      /\ \A r \in RunIds : runs'[r] = LoadRun(runs[r])
  BY CrashIs, Typed DEF Base, RestTyped
<1>2. \A j \in Jobs : HandFine(j)'
  BY <1>1 DEF HandFine, InFlight, Idle, None
<1>3. \A h \in Handlers : RequestFine(h)'
  BY <1>1 DEF RequestFine, NoRequest
<1>4. ASSUME NEW j \in Jobs PROVE ArrayFine(j)'
  <2>1. CASE ~Stored(j)
    <3>1. heap'[j] = <<>>
      BY <2>1, CrashIs DEF Base
    <3> QED BY <3>1 DEF ArrayFine, Slots
  <2>2. CASE Stored(j)
    <3> DEFINE d == disk.jobs[j]
    <3>1. /\ heap'[j] = <<LoadCells(d)>> /\ jobs'[j].kl = jobs[j].kl /\ jobs[j].ref \in Slots(j)
          /\ d.cells \in CellArrays /\ DOMAIN d.cells = DOMAIN CellsOf(j)
          /\ \A c \in DOMAIN CellsOf(j) : Copied(d.cells[c], CellsOf(j)[c])
      <4>1. heap'[j] = <<LoadCells(d)>> /\ jobs'[j].kl = jobs[j].kl
        <5>1. /\ jobs'[j] = [status |-> LoadStatus(jobs[j]), ref |-> 1, kl |-> jobs[j].kl]
              /\ heap'[j] = <<LoadCells(disk.jobs[j])>>
          BY <2>2, CrashIs DEF Base
        <5> QED BY <5>1
      <4>2. jobs[j].ref \in Slots(j)
        BY <2>2, Typed DEF Base, JobsTyped, Slots, Job
      <4>3. /\ d.cells \in CellArrays /\ DOMAIN d.cells = DOMAIN CellsOf(j)
            /\ \A c \in DOMAIN CellsOf(j) : Copied(d.cells[c], CellsOf(j)[c])
        BY <2>2 DEF Base, OnFile
      <4> QED BY <4>1, <4>2, <4>3
    <3>2. CellsOf(j) = heap[j][1] /\ 1 \in Slots(j)
      <4>1. PICK n \in Nat : n = Len(heap[j]) /\ n <= 1
        BY DEF Fine, ArrayFine, Base, Shape
      <4>2. PICK r \in 1 .. n : r = jobs[j].ref
        BY <3>1, <4>1 DEF Slots
      <4> QED BY <4>1, <4>2, OneSlot DEF CellsOf, Slots
    <3>3. PICK a \in CellArrays : a = LoadCells(d)
      BY <3>1, LoadCellsIs
    <3>4. ASSUME NEW c \in DOMAIN a PROVE CellFine(j, c, a[c])'
      <4>1. PICK x \in Cell, y \in Cell : x = d.cells[c] /\ y = a[c]
        BY <3>1, <3>3, <3>4, LoadCellsIs, ArrayIs
      <4>2. /\ y.run = x.run /\ y.skip = x.skip
            /\ y.status = "completed" => x.status = "completed"
        <5>1. y = x \/ (x.status = "running" /\ y = [x EXCEPT !.status = "failed"])
          BY <3>1, <3>3, <3>4, <4>1, LoadCellsIs
        <5> QED BY <5>1 DEF Cell
      <4>3. PICK e : e = CellsOf(j)[c] /\ Copied(x, e) /\ CellFine(j, c, e)
        BY <3>1, <3>2, <3>3, <3>4, <4>1, LoadCellsIs DEF Fine, ArrayFine
      <4>4. y.run <= started' /\ (y.skip => c \in KLCells /\ c = jobs'[j].kl)
        BY <1>1, <3>1, <4>2, <4>3 DEF Copied, CellFine
      <4>5. y.status = "completed" => Measured(j, y)
        BY <4>2, <4>3 DEF Copied, CellFine, Measured
      <4>6. Measured(j, y) => Measured(j, y)'
        <5>1. y.run # None => y.run \in RunIds
          BY DEF Cell
        <5>2. y.run # None /\ runs[y.run] = [status |-> "completed", job |-> j] => runs'[y.run] = runs[y.run]
          <6>1. SUFFICES ASSUME y.run # None, runs[y.run] = [status |-> "completed", job |-> j]
                         PROVE  runs'[y.run] = runs[y.run]
            OBVIOUS
          <6>2. runs[y.run].status = "completed"
            BY <6>1
          <6>3. LoadRun(runs[y.run]) = runs[y.run]
            BY <6>2 DEF LoadRun
          <6> QED BY <1>1, <5>1, <6>1, <6>3
        <5> QED BY <5>2 DEF Measured
      <4>7. CellFine(j, c, y)'
        BY <4>4, <4>5, <4>6 DEF CellFine
      <4> QED BY <4>1, <4>7
    <3>5. Len(heap'[j]) = 1 /\ heap'[j][1] = a
      BY <3>1, <3>3
    <3> QED BY <3>4, <3>5 DEF ArrayFine
  <2> QED BY <2>1, <2>2
<1> QED BY <1>2, <1>3, <1>4 DEF Fine

LEMMA FineNext ==
    ASSUME Base, Fine, NoRemovals, Step, UNCHANGED sc
    PROVE  Fine'
<1>t. /\ Shape /\ Held /\ rj \in [Jobs -> RunnerType] /\ jobs \in [Jobs -> Job]
      /\ hd \in [Handlers -> RequestType]
      /\ sc.jobs \subseteq Jobs /\ sc.handlers \subseteq Handlers /\ sc.matrices \subseteq Matrices
  BY TypedNow, Facts DEF Base
<1> USE <1>t
<1>n. "edit" \notin sc.ops /\ "delete" \notin sc.ops /\ "deleteRun" \notin sc.ops
  BY DEF NoRemovals
<1>1. ASSUME NEW j \in sc.jobs, RunnerNext(j) PROVE Fine'
  BY <1>1, RunnerFine
<1>2. ASSUME NEW j \in sc.jobs, UserNext(j) PROVE Fine'
  <2>1. CASE Cancel(j)
    <3>1. UNCHANGED <<jobs, heap, runs, started, hd>> /\ rj' = [rj EXCEPT ![j].canceled = TRUE]
      BY <2>1 DEF Cancel, mem
    <3>2. \A k \in Jobs : /\ rj'[k].pc = rj[k].pc /\ rj'[k].run = rj[k].run
                          /\ rj'[k].kl = rj[k].kl /\ rj'[k].cell = rj[k].cell
      BY <3>1 DEF RunnerType
    <3> QED BY <3>1, <3>2, AsideFine
  <2>2. ASSUME NEW m \in sc.matrices, NEW k \in References(m), Create(j, m, k) PROVE Fine'
    BY <2>2, CreateFine
  <2>3. ASSUME NEW h \in sc.handlers, RetryGet(h, j) PROVE Fine'
    <3>1. /\ UNCHANGED <<jobs, heap, runs, started, rj>> /\ jobs[j] \in Job
          /\ hd' = [hd EXCEPT ![h] = [pc |-> "mark", id |-> j,
                                      job |-> [jobs[j] EXCEPT !.status = "pending"]]]
      BY <2>3 DEF RetryGet, mem
    <3>2. hd'[h].pc = "mark" /\ hd'[h].id = j /\ hd'[h].job.kl = jobs[j].kl
      BY <3>1 DEF Job
    <3>3. \A g \in Handlers \ {h} : hd'[g] = hd[g]
      BY <3>1
    <3> QED BY <3>1, <3>2, <3>3, AsideFine DEF RequestFine
  <2>4. ASSUME NEW h \in sc.handlers, DeleteCheck(h, j) PROVE Fine'
    BY <1>n, <2>4 DEF DeleteCheck
  <2>5. ASSUME NEW h \in sc.handlers, NEW m \in sc.matrices, NEW k \in References(m),
               EditStore(h, j, m, k)
        PROVE  Fine'
    BY <1>n, <2>5 DEF EditStore
  <2> QED BY <1>2, <2>1, <2>2, <2>3, <2>4, <2>5 DEF UserNext
<1>3. ASSUME NEW h \in sc.handlers, HandlerNext(h) PROVE Fine'
  <2>1. CASE RetryMark(h)
    BY <2>1, MarkFine
  <2>2. CASE DeleteJob(h)
    BY <2>2 DEF DeleteJob, Fine, RequestFine
  <2>3. CASE SubmitCopy(h)
    <3>1. /\ hd[h].pc = "submit" /\ hd' = [hd EXCEPT ![h] = NoRequest] /\ UNCHANGED <<heap, runs, started>>
          /\ (Accept(hd[h].id, hd[h].job) \/ UNCHANGED <<jobs, rj>>)
      BY <2>3 DEF SubmitCopy, mem
    <3>2. hd[h].id \in Jobs /\ hd[h].job.kl = jobs[hd[h].id].kl /\ hd[h].job \in Job
      BY <3>1 DEF Held, RequestHolds, Fine, RequestFine, RequestType
    <3>3. hd'[h].pc = "idle" /\ \A g \in Handlers \ {h} : hd'[g] = hd[g]
      BY <3>1 DEF NoRequest
    <3>4. \A g \in Handlers : hd'[g] = hd[g] \/ RequestFine(g)'
      BY <3>3 DEF RequestFine
    <3>5. CASE UNCHANGED <<jobs, rj>>
      BY <3>1, <3>4, <3>5, AsideFine
    <3>6. CASE Accept(hd[h].id, hd[h].job)
      <4>1. PICK j \in Jobs, entry \in Job : j = hd[h].id /\ entry = hd[h].job /\ Accept(j, entry) /\ entry.kl = jobs[j].kl
        BY <3>2, <3>6
      <4>2. /\ jobs'[j] = [entry EXCEPT !.status = "pending"]
            /\ rj'[j] = [Idle EXCEPT !.pc = "start", !.ref = entry.ref, !.kl = entry.kl]
            /\ \A k \in Jobs \ {j} : jobs'[k] = jobs[k] /\ rj'[k] = rj[k]
        BY <4>1 DEF Accept
      <4>3. jobs'[j].kl = jobs[j].kl /\ rj'[j].pc = "start" /\ rj'[j].run = None /\ rj'[j].kl = jobs[j].kl
        BY <4>1, <4>2 DEF Job, Idle
      <4> QED BY <3>1, <3>4, <4>2, <4>3, AsideFine
    <3> QED BY <3>1, <3>5, <3>6
  <2> QED BY <1>3, <2>1, <2>2, <2>3 DEF HandlerNext
<1>4. ASSUME NEW r \in RunIds, DeleteRun(r) PROVE Fine'
  BY <1>n, <1>4 DEF DeleteRun
<1>5. ASSUME Crash PROVE Fine'
  BY <1>5, CrashFine
<1> QED BY <1>1, <1>2, <1>3, <1>4, <1>5 DEF Step

Inv2 == Inv1 /\ (NoRemovals => Fine)

LEMMA Inv2Init == Init => Inv2
<1> SUFFICES ASSUME Init PROVE Inv2
  OBVIOUS
<1>1. /\ \A j \in Jobs : rj[j] = Idle /\ heap[j] = <<>>
      /\ \A h \in Handlers : hd[h] = NoRequest
      /\ started = 0
  BY DEF Init
<1>2. ASSUME NEW j \in Jobs PROVE ArrayFine(j) /\ HandFine(j)
  <2>1. Len(heap[j]) = 0
    BY <1>1
  <2>2. ArrayFine(j)
    BY <2>1 DEF ArrayFine, Slots
  <2>3. HandFine(j)
    BY <1>1 DEF HandFine, InFlight, Idle, None
  <2> QED BY <2>2, <2>3
<1>3. \A h \in Handlers : RequestFine(h)
  BY <1>1 DEF RequestFine, NoRequest
<1> QED BY <1>2, <1>3, Inv1Init DEF Inv2, Fine

LEMMA Inv2Next == Inv2 /\ [Next]_<<vars, sc>> => Inv2'
<1> SUFFICES ASSUME Inv2, [Next]_<<vars, sc>> PROVE Inv2'
  OBVIOUS
<1>1. Inv1 /\ Base /\ Inv1'
  BY Inv1Next DEF Inv2, Inv1
<1>2. sc' = sc
  BY DEF Next, vars
<1>3. NoRemovals' = NoRemovals
  BY <1>2 DEF NoRemovals
<1>4. ASSUME NoRemovals, Fine PROVE Fine'
  <2>1. CASE Next
    BY <1>1, <1>4, <2>1, FineNext DEF Next
  <2>2. CASE UNCHANGED <<vars, sc>>
    <3>1. UNCHANGED <<jobs, heap, runs, started, rj, hd>>
      BY <2>2 DEF vars
    <3>2. ASSUME NEW k \in Jobs PROVE ArrayFine(k)' /\ HandFine(k)'
      <4>1. ArrayFine(k) /\ HandFine(k) /\ \A c, cell : CellFine(k, c, cell) => CellFine(k, c, cell)'
        BY <1>4, <3>1 DEF Fine, CellFine, Measured
      <4> QED BY <3>1, <4>1 DEF ArrayFine, Slots, HandFine, InFlight, IsKL, Measured
    <3>3. \A h \in Handlers : RequestFine(h)'
      BY <1>4, <3>1 DEF Fine, RequestFine
    <3> QED BY <3>2, <3>3 DEF Fine
  <2> QED BY <2>1, <2>2
<1> QED BY <1>1, <1>3, <1>4 DEF Inv2

(* A run that is shown as live is being driven by the job in flight, and,   *)
(* as long as nobody removes results, a cell that is shown as completed     *)
(* refers to a completed run of its own job, whatever is retried, skipped,  *)
(* cancelled or cut short by a crash.                                       *)
THEOREM RunsTheirs == Spec => []RunsAreTheirs
<1>1. Inv2 => LiveRunIsDriven
  BY DEF Inv2, Inv1, InTurn, Driving, LiveRunIsDriven
<1>2. ASSUME Inv2, NoRemovals, NEW j \in Jobs, Stored(j), NEW c \in DOMAIN CellsOf(j)
      PROVE  LET cell == CellsOf(j)[c]
             IN  cell.status = "completed" =>
                     IF cell.skip THEN cell.run = None
                     ELSE cell.run # None /\ runs[cell.run] = [status |-> "completed", job |-> j]
  <2>1. jobs[j].ref \in Slots(j) /\ Shape /\ Fine
    BY <1>2, Typed DEF Inv2, Inv1, Base, JobsTyped, Slots, Job
  <2>2. CellsOf(j) = heap[j][1] /\ 1 \in Slots(j)
    <3>1. PICK n \in Nat : n = Len(heap[j]) /\ n <= 1
      BY <2>1 DEF Fine, ArrayFine, Shape
    <3>2. PICK r \in 1 .. n : r = jobs[j].ref
      BY <2>1, <3>1 DEF Slots
    <3> QED BY <3>1, <3>2, OneSlot DEF CellsOf, Slots
  <2>3. CellFine(j, c, CellsOf(j)[c])
    BY <1>2, <2>1, <2>2 DEF Fine, ArrayFine
  <2> QED BY <2>3 DEF CellFine, Measured
<1>3. Inv2 => CompletedIsMeasured
  BY <1>2 DEF CompletedIsMeasured
<1>4. Inv2 => RunsAreTheirs
  BY <1>1, <1>3 DEF RunsAreTheirs
<1> QED BY <1>4, Inv2Init, Inv2Next, PTL DEF Spec

-----------------------------------------------------------------------------
(* What a step does to the completed cells, and to the file, when nothing   *)
(* is removed on request.                                                   *)
Steady(k) ==
    1 \in Slots(k) => \A c \in DOMAIN heap[k][1] :
        heap[k][1][c].status = "completed" => heap'[k][1][c] = heap[k][1][c]
Keeps == /\ \A k \in Jobs : Steady(k) /\ (Stored(k) => Stored(k)')
         /\ Persist \/ UNCHANGED disk

LEMMA SetOthers ==
    ASSUME heap \in [Jobs -> Seq(CellArrays)], NEW j \in Jobs, 1 \in Slots(j), rj[j].ref = 1,
           NEW c, NEW cell, SetCell(j, c, cell), heap[j][1][c].status # "completed"
    PROVE  \A k \in Jobs : Steady(k)
<1>1. heap' = [heap EXCEPT ![j] = [heap[j] EXCEPT ![1] = [heap[j][1] EXCEPT ![c] = cell]]]
  BY DEF SetCell
<1>2. \A k \in Jobs \ {j} : heap'[k] = heap[k]
  BY <1>1
<1>3. heap'[j][1] = [heap[j][1] EXCEPT ![c] = cell]
  BY <1>1 DEF Slots
<1>4. \A d \in DOMAIN heap[j][1] \ {c} : heap'[j][1][d] = heap[j][1][d]
  BY <1>3
<1> QED BY <1>2, <1>4 DEF Steady

LEMMA RunnerKeeps ==
    ASSUME Base, Fine, NEW j \in Jobs, RunnerNext(j)
    PROVE  Keeps
<1>i. InFlight(j)
  BY DEF InFlight, RunnerNext, RunStart, PassCell, SkipCanceled, StartCell, FailEarly, CreateRun,
       LinkRun, EndRun, ReadBack, UnlinkRun, SkipReference, EndCell, Finish, Restore, Release
<1>h. /\ Mine(j) = heap[j][1] /\ MyCell(j) = heap[j][1][rj[j].cell] /\ RunnerHolds(j)
      /\ rj[j].ref = 1 /\ 1 \in Slots(j) /\ heap \in [Jobs -> Seq(CellArrays)]
  BY <1>i, HandIs DEF Slots, Base, Shape
<1>s. ASSUME NEW s, s # "absent", SaveJob(j, s) PROVE \A k \in Jobs : Stored(k) => Stored(k)'
  BY <1>s, Typed DEF SaveJob, Stored, Base, JobsTyped
<1>1. \A k \in Jobs : Stored(k) => Stored(k)'
  <2>1. CASE UNCHANGED jobs
    BY <2>1 DEF Stored
  <2>2. CASE SaveJob(j, "running")
    BY <2>2, <1>s
  <2>3. CASE SaveJob(j, FinalStatus(j))
    BY <2>3, <1>s DEF FinalStatus
  <2> QED BY <2>1, <2>2, <2>3 DEF RunnerNext, RunStart, PassCell, SkipCanceled, StartCell, FailEarly,
             CreateRun, LinkRun, EndRun, ReadBack, UnlinkRun, SkipReference, EndCell, Finish, Restore,
             Release, mem
<1>2. Persist \/ UNCHANGED disk
  BY DEF RunnerNext, RunStart, PassCell, SkipCanceled, StartCell, FailEarly, CreateRun, LinkRun, EndRun,
       ReadBack, UnlinkRun, SkipReference, EndCell, Finish, Restore, Release
<1>3. \A k \in Jobs : Steady(k)
  <2>1. CASE UNCHANGED heap
    BY <2>1 DEF Steady
  <2>2. CASE SkipCanceled(j) \/ StartCell(j)
    <3>1. PICK c, cell : SetCell(j, c, cell) /\ heap[j][1][c].status # "completed"
      BY <2>2, <1>h DEF SkipCanceled, StartCell
    <3> QED BY <1>h, <3>1, SetOthers
  <2>3. CASE LinkRun(j) \/ UnlinkRun(j) \/ SkipReference(j) \/ EndCell(j)
    <3>1. PICK cell : SetCell(j, rj[j].cell, cell)
      BY <2>3 DEF LinkRun, UnlinkRun, SkipReference, EndCell
    <3>2. rj[j].pc \in CellPCs
      BY <2>3 DEF LinkRun, UnlinkRun, SkipReference, EndCell, CellPCs
    <3>3. heap[j][1][rj[j].cell].status # "completed"
      BY <1>h, <3>2 DEF RunnerHolds
    <3> QED BY <1>h, <3>1, <3>3, SetOthers
  <2> QED BY <2>1, <2>2, <2>3 DEF RunnerNext, RunStart, PassCell, FailEarly, CreateRun, EndRun, ReadBack,
             Finish, Restore, Release, mem
<1> QED BY <1>1, <1>2, <1>3 DEF Keeps

(* A file that is written from memory keeps what the last one said.         *)
Kept ==
    \A j \in Jobs : disk.jobs[j].status # "absent" =>
        \A c \in DOMAIN disk.jobs[j].cells :
            disk.jobs[j].cells[c].status = "completed" =>
                disk'.jobs[j].cells[c] = disk.jobs[j].cells[c]

LEMMA OneArray ==
    ASSUME Base, Fine, NEW j \in Jobs, Stored(j)
    PROVE  CellsOf(j) = heap[j][1] /\ 1 \in Slots(j)
<1>1. jobs[j].ref \in Slots(j)
  BY Typed DEF Base, JobsTyped, Slots, Job
<1>2. PICK n \in Nat : n = Len(heap[j]) /\ n <= 1
  BY DEF Fine, ArrayFine, Base, Shape
<1>3. PICK r \in 1 .. n : r = jobs[j].ref
  BY <1>1, <1>2 DEF Slots
<1> QED BY <1>2, <1>3, OneSlot DEF CellsOf, Slots

LEMMA OneArrayNext ==
    ASSUME Base', Fine', NEW j \in Jobs, Stored(j)'
    PROVE  jobs'[j].ref = 1
<1>1. jobs'[j].ref \in Slots(j)'
  BY Typed DEF Base, JobsTyped, Slots, Job, Shape, TypeOK
<1>2. PICK n \in Nat : n = Len(heap'[j]) /\ n <= 1
  BY DEF Fine, ArrayFine, Base, Shape
<1>3. PICK r \in 1 .. n : r = jobs'[j].ref
  BY <1>1, <1>2 DEF Slots
<1> QED BY <1>2, <1>3, OneSlot

LEMMA FileKept ==
    ASSUME Base, Fine, Base', Fine', Keeps
    PROVE  Kept
<1>1. CASE UNCHANGED disk
  BY <1>1 DEF Kept
<1>2. CASE Persist
  <2> SUFFICES ASSUME NEW j \in Jobs, disk.jobs[j].status # "absent",
                      NEW c \in DOMAIN disk.jobs[j].cells, disk.jobs[j].cells[c].status = "completed"
               PROVE  disk'.jobs[j].cells[c] = disk.jobs[j].cells[c]
    BY DEF Kept
  <2>1. Stored(j)
    BY DEF Base, OnFile, Stored
  <2>2. CellsOf(j) = heap[j][1] /\ 1 \in Slots(j)
    BY <2>1, OneArray
  <2>3. /\ disk.jobs[j].cells \in CellArrays /\ c \in DOMAIN heap[j][1]
        /\ Copied(disk.jobs[j].cells[c], heap[j][1][c])
    BY <2>1, <2>2 DEF Base, OnFile
  <2>4. disk.jobs[j].cells[c] \in Cell /\ heap[j][1][c] \in Cell
    <3>1. heap[j][1] \in CellArrays
      BY <2>2 DEF Base, Shape, Slots
    <3> QED BY <2>3, <3>1, ArrayIs
  <2>5. heap[j][1][c] = disk.jobs[j].cells[c] /\ heap[j][1][c].status = "completed"
    <3>1. PICK x \in Cell, y \in Cell : x = disk.jobs[j].cells[c] /\ y = heap[j][1][c]
      BY <2>4
    <3>2. x.status = y.status /\ x.run = y.run /\ x.skip = y.skip
      BY <2>3, <3>1 DEF Copied
    <3>3. x = y
      BY <3>2 DEF Cell
    <3> QED BY <3>1, <3>3
  <2>6. heap'[j][1][c] = heap[j][1][c]
    BY <2>2, <2>3, <2>5 DEF Keeps, Steady
  <2>7. jobs'[j].ref = 1
    BY <2>1, OneArrayNext DEF Keeps
  <2>8. disk'.jobs[j].cells = heap'[j][1]
    BY <1>2, <2>7, PersistIs
  <2> QED BY <2>5, <2>6, <2>8
<1> QED BY <1>1, <1>2 DEF Keeps

LEMMA CrashKept ==
    ASSUME Base, Crash
    PROVE  Kept
<1> SUFFICES ASSUME NEW j \in Jobs, disk.jobs[j].status # "absent",
                    NEW c \in DOMAIN disk.jobs[j].cells, disk.jobs[j].cells[c].status = "completed"
             PROVE  disk'.jobs[j].cells[c] = disk.jobs[j].cells[c]
  BY DEF Kept
<1> DEFINE d == disk.jobs[j]
<1>1. Stored(j)
  BY DEF Base, OnFile, Stored
<1>2. /\ jobs'[j] = [status |-> LoadStatus(jobs[j]), ref |-> 1, kl |-> jobs[j].kl]
      /\ heap'[j] = <<LoadCells(d)>> /\ Persist
  BY <1>1, CrashIs DEF Base
<1>3. jobs'[j].ref = 1
  BY <1>2
<1>4. disk'.jobs[j].cells = heap'[j][1]
  BY <1>2, <1>3, PersistIs
<1>5. LoadCells(d)[c] = d.cells[c]
  <2>1. d.cells \in CellArrays
    BY <1>1 DEF Base, OnFile
  <2> HIDE DEF d
  <2>2. c \in DOMAIN d.cells /\ d.cells[c].status = "completed"
    BY DEF d
  <2> QED BY <2>1, <2>2, LoadCellsIs
<1> QED BY <1>2, <1>4, <1>5

LEMMA StepKept ==
    ASSUME Base, Fine, Base', Fine', NoRemovals, Step
    PROVE  Kept
<1>t. sc.jobs \subseteq Jobs /\ sc.handlers \subseteq Handlers /\ jobs \in [Jobs -> Job]
  BY TypedNow, Facts DEF Base
<1>n. "edit" \notin sc.ops /\ "delete" \notin sc.ops /\ "deleteRun" \notin sc.ops
  BY DEF NoRemovals
<1>d. UNCHANGED disk => Kept
  BY DEF Kept
<1>1. ASSUME NEW j \in sc.jobs, RunnerNext(j) PROVE Kept
  BY <1>1, <1>t, RunnerKeeps, FileKept
<1>2. ASSUME NEW j \in sc.jobs, NEW m, NEW k, Create(j, m, k) PROVE Kept
  <2>1. /\ heap[j] = <<>> /\ heap' = [heap EXCEPT ![j] = <<FreshCells(m)>>] /\ Persist
        /\ jobs' = [jobs EXCEPT ![j] = [[status |-> "pending", ref |-> 1, kl |-> k] EXCEPT !.status = "pending"]]
    BY <1>2 DEF Create, Accept
  <2>2. ASSUME NEW i \in Jobs PROVE Steady(i) /\ (Stored(i) => Stored(i)')
    <3>1. CASE i = j
      BY <1>t, <2>1, <3>1 DEF Steady, Slots, Stored
    <3>2. CASE i # j
      BY <1>t, <2>1, <3>2 DEF Steady, Stored, Base, Shape
    <3> QED BY <3>1, <3>2
  <2> QED BY <2>1, <2>2, FileKept DEF Keeps
<1>3. ASSUME NEW j \in sc.jobs, UserNext(j) PROVE Kept
  <2>1. CASE Cancel(j)
    BY <1>d, <2>1 DEF Cancel
  <2>2. ASSUME NEW h, RetryGet(h, j) PROVE Kept
    BY <1>d, <2>2 DEF RetryGet
  <2>3. ASSUME NEW h, DeleteCheck(h, j) PROVE Kept
    BY <1>n, <2>3 DEF DeleteCheck
  <2>4. ASSUME NEW h, NEW m, NEW k, EditStore(h, j, m, k) PROVE Kept
    BY <1>n, <2>4 DEF EditStore
  <2> QED BY <1>2, <1>3, <2>1, <2>2, <2>3, <2>4 DEF UserNext
<1>4. ASSUME NEW h \in sc.handlers, HandlerNext(h) PROVE Kept
  <2>1. CASE RetryMark(h)
    BY <1>d, <2>1 DEF RetryMark
  <2>2. CASE DeleteJob(h)
    BY <1>t, <2>2 DEF DeleteJob, Fine, RequestFine
  <2>3. CASE SubmitCopy(h)
    <3>1. CASE UNCHANGED disk
      BY <1>d, <3>1
    <3>2. CASE Accept(hd[h].id, hd[h].job) /\ UNCHANGED heap /\ Persist
      <4>1. jobs' = [jobs EXCEPT ![hd[h].id] = [hd[h].job EXCEPT !.status = "pending"]]
        BY <3>2 DEF Accept
      <4>2. hd[h].job \in Job
        BY <1>t, Typed DEF Base, RequestType
      <4>3. \A i \in Jobs : Stored(i) => Stored(i)'
        BY <1>t, <4>1, <4>2 DEF Stored, Job
      <4>4. \A i \in Jobs : Steady(i)
        BY <3>2 DEF Steady
      <4> QED BY <3>2, <4>3, <4>4, FileKept DEF Keeps
    <3> QED BY <2>3, <3>1, <3>2 DEF SubmitCopy
  <2> QED BY <1>4, <2>1, <2>2, <2>3 DEF HandlerNext
<1>5. ASSUME NEW r \in RunIds, DeleteRun(r) PROVE Kept
  BY <1>n, <1>5 DEF DeleteRun
<1>6. ASSUME Crash PROVE Kept
  BY <1>6, CrashKept
<1> QED BY <1>1, <1>3, <1>4, <1>5, <1>6 DEF Step

(* What the file says was completed stays there as it was, through retries, *)
(* cancels and crashes: "re-runs only the cells that failed, keeping        *)
(* completed results" (help.html:359).                                      *)
THEOREM ResultsAreKept == Spec => CompletedIsKept
<1>1. ASSUME Inv2, Inv2', [Next]_<<vars, sc>>
      PROVE  [NoRemovals => Kept]_vars
  <2> SUFFICES ASSUME vars' # vars, NoRemovals PROVE Kept
    OBVIOUS
  <2>1. Step /\ sc' = sc
    BY <1>1 DEF Next
  <2>2. NoRemovals'
    BY <2>1 DEF NoRemovals
  <2> QED BY <1>1, <2>1, <2>2, StepKept DEF Inv2, Inv1
<1>2. ASSUME Inv2, Inv2', [Next]_<<vars, sc>>
      PROVE  [NoRemovals => \A j \in Jobs : disk.jobs[j].status # "absent" =>
                \A c \in DOMAIN disk.jobs[j].cells :
                    disk.jobs[j].cells[c].status = "completed" =>
                        disk'.jobs[j].cells[c] = disk.jobs[j].cells[c]]_vars
  BY <1>1, <1>2 DEF Kept
<1> QED BY <1>2, Inv2Init, Inv2Next, PTL DEF Spec, CompletedIsKept

----------------------------------------------------------------------------
(***************************************************************************)
(* The jobs' matrices (JobMatrix), for any requests, presets, saved configs *)
(* and limits: one job, edited between its runs, beside the queue above.    *)
(* What an edit carries over keeps its label because the cell that is       *)
(* carried brings its own sweep values and the identity fixes the           *)
(* overrides; nothing is needed of how a job expands into cells.            *)
(***************************************************************************)
IsCell(c) ==
    c = [model |-> c.model, build |-> c.build, preset |-> c.preset,
         sweep |-> c.sweep, status |-> c.status, result |-> c.result]

CellsAreCells == cells = [i \in DOMAIN cells |-> cells[i]]
                 /\ \A i \in DOMAIN cells : IsCell(cells[i])

IInv == CellsAreCells /\ CompletedIsAsLabelled

Labelled(o, c) == c.status = "completed" => c.result = Asked(o, c)

(* A cell as ExpandCells makes it has not been measured.                   *)
LEMMA FreshCell ==
    ASSUME NEW req, NEW i \in DOMAIN ExpandCells(req)
    PROVE  IsCell(ExpandCells(req)[i]) /\ ExpandCells(req)[i].status = "pending"
  <1> DEFINE all == Points(req)
  <1>1. ExpandCells(req)[i] = PendingCell(all[i])
    BY DEF ExpandCells
  <1>2. IsCell(PendingCell(all[i])) /\ PendingCell(all[i]).status = "pending"
    BY DEF IsCell, PendingCell
  <1>3. QED
    BY <1>1, <1>2

(* What a cell asks for depends on neither its status nor its result.      *)
LEMMA AskedIgnoresProgress ==
    ASSUME NEW o, NEW c, NEW d,
           c.model = d.model, c.build = d.build, c.preset = d.preset, c.sweep = d.sweep
    PROVE  Asked(o, c) = Asked(o, d)
  BY DEF Asked

(* UpdateJobDefinition's match: each cell after an edit is a fresh one, or *)
(* a completed one that was kept because the overrides are still the same. *)
LEMMA CarriedCell ==
    ASSUME NEW old, NEW o, NEW fresh, NEW p, NEW i \in DOMAIN fresh
    PROVE  \/ Carried(old, o, fresh, p)[i] = fresh[i]
           \/ /\ o = p
              /\ \E n \in DOMAIN old : Carried(old, o, fresh, p)[i] = old[n]
  <1> DEFINE Previous(n) == IsPrevious(n, old, o, fresh[i], p)
  <1>1. CASE \E n \in DOMAIN old : Previous(n)
    <2> DEFINE n == CHOOSE n \in DOMAIN old : Previous(n)
    <2>1. n \in DOMAIN old /\ Previous(n)
      BY <1>1
    <2>2. Identity(o, old[n]) = Identity(p, fresh[i])
      BY <2>1 DEF IsPrevious
    <2>3. o = p
      BY <2>2 DEF Identity
    <2>4. Carried(old, o, fresh, p)[i] = old[n]
      BY <1>1 DEF Carried
    <2>5. QED
      BY <2>1, <2>3, <2>4
  <1>2. CASE ~\E n \in DOMAIN old : Previous(n)
    BY <1>2 DEF Carried
  <1>3. QED
    BY <1>1, <1>2

LEMMA InitIInv == MatrixInit => IInv
  BY DEF MatrixInit, IInv, CellsAreCells, CompletedIsAsLabelled

(* handleCreateJob stores fresh cells only.                                *)
LEMMA CreateStep ==
    ASSUME NEW req, CreateJob(req)
    PROVE  IInv'
  <1>1. cells' = ExpandCells(Definition(req))
    BY DEF CreateJob
  <1>2. CellsAreCells'
    <2>1. cells' = [i \in DOMAIN cells' |-> cells'[i]]
      BY <1>1 DEF ExpandCells
    <2>2. \A i \in DOMAIN cells' : IsCell(cells'[i])
      BY <1>1, FreshCell
    <2>3. QED
      BY <2>1, <2>2 DEF CellsAreCells, IsCell
  <1>3. \A i \in DOMAIN cells' : cells'[i].status = "pending"
    BY <1>1, FreshCell
  <1>4. QED
    BY <1>2, <1>3 DEF IInv, CompletedIsAsLabelled

(* handleUpdateJob stores fresh cells and completed ones that were kept.   *)
LEMMA EditStep ==
    ASSUME IInv, NEW req, Edit(req)
    PROVE  IInv'
  <1> DEFINE def == Definition(req)
             fresh == ExpandCells(def)
  <1>1. /\ cells' = Carried(cells, job.overrides, fresh, def.overrides)
        /\ job' = def
    BY DEF Edit
  <1>2. DOMAIN cells' = DOMAIN fresh /\ cells' = [i \in DOMAIN cells' |-> cells'[i]]
    BY <1>1 DEF Carried
  <1>3. ASSUME NEW i \in DOMAIN cells'
        PROVE  IsCell(cells'[i]) /\ Labelled(job'.overrides, cells'[i])
    <2>1. CASE cells'[i] = fresh[i]
      BY <1>2, <2>1, FreshCell DEF Labelled
    <2>2. CASE /\ job.overrides = def.overrides
               /\ \E n \in DOMAIN cells : cells'[i] = cells[n]
      BY <1>1, <2>2 DEF IInv, CellsAreCells, CompletedIsAsLabelled, Labelled
    <2>3. QED
      BY <1>1, <1>2, <2>1, <2>2, CarriedCell
  <1>4. QED
    BY <1>2, <1>3 DEF IInv, CellsAreCells, CompletedIsAsLabelled, Labelled, IsCell

(* A step that gives some cells a status other than completed.             *)
LEMMA UncompletedStep ==
    ASSUME IInv, job' = job, DOMAIN cells' = DOMAIN cells,
           cells' = [i \in DOMAIN cells' |-> cells'[i]],
           \A i \in DOMAIN cells :
             \/ cells'[i] = cells[i]
             \/ \E s \in {"pending", "failed", "skipped"} :
                  cells'[i] = [cells[i] EXCEPT !.status = s]
    PROVE  IInv'
  <1>1. ASSUME NEW i \in DOMAIN cells
        PROVE  IsCell(cells'[i]) /\ Labelled(job'.overrides, cells'[i])
    <2>1. IsCell(cells[i]) /\ Labelled(job.overrides, cells[i])
      BY DEF IInv, CellsAreCells, CompletedIsAsLabelled, Labelled
    <2>2. ASSUME NEW s \in {"pending", "failed", "skipped"},
                 cells'[i] = [cells[i] EXCEPT !.status = s]
          PROVE  IsCell(cells'[i]) /\ cells'[i].status # "completed"
      BY <2>1, <2>2 DEF IsCell
    <2>3. QED
      BY <2>1, <2>2 DEF Labelled
  <1>2. QED
    BY <1>1 DEF IInv, CellsAreCells, CompletedIsAsLabelled, Labelled, IsCell

(* A measurement records what the cell asked for at that moment.           *)
LEMMA MeasureStep ==
    ASSUME IInv, MeasureCell
    PROVE  IInv'
  <1> DEFINE r == Asked(job.overrides, cells[pos])
  <1>1. pos \in DOMAIN cells /\ job' = job
    BY DEF MeasureCell, AtCell
  <1>2. cells' = [cells EXCEPT ![pos].status = "completed", ![pos].result = r]
    BY DEF MeasureCell
  <1>3. cells' = [i \in DOMAIN cells |->
                    IF i = pos THEN [cells[pos] EXCEPT !.status = "completed", !.result = r]
                    ELSE cells[i]]
    BY <1>1, <1>2 DEF IInv, CellsAreCells
  <1>4. ASSUME NEW i \in DOMAIN cells
        PROVE  IsCell(cells'[i]) /\ Labelled(job'.overrides, cells'[i])
    <2>1. IsCell(cells[i]) /\ Labelled(job.overrides, cells[i])
      BY DEF IInv, CellsAreCells, CompletedIsAsLabelled, Labelled
    <2>2. CASE i = pos
      <3>1. cells'[i] = [cells[i] EXCEPT !.status = "completed", !.result = r]
        BY <1>3, <2>2
      <3>2. /\ IsCell(cells'[i])
            /\ cells'[i].result = r
            /\ cells'[i].model = cells[i].model /\ cells'[i].build = cells[i].build
            /\ cells'[i].preset = cells[i].preset /\ cells'[i].sweep = cells[i].sweep
        BY <2>1, <3>1 DEF IsCell
      <3>3. Asked(job.overrides, cells'[i]) = Asked(job.overrides, cells[i])
        BY <3>2, AskedIgnoresProgress
      <3>4. QED
        BY <1>1, <2>2, <3>2, <3>3 DEF Labelled
    <2>3. CASE i # pos
      BY <1>1, <1>3, <2>1, <2>3
    <2>4. QED
      BY <2>2, <2>3
  <1>5. DOMAIN cells' = DOMAIN cells /\ cells' = [i \in DOMAIN cells' |-> cells'[i]]
    BY <1>3
  <1>6. QED
    BY <1>4, <1>5 DEF IInv, CellsAreCells, CompletedIsAsLabelled, Labelled, IsCell

(* Every step keeps the labels.                                            *)
LEMMA NextIInv == IInv /\ [MatrixNext]_matrixVars => IInv'
  <1> SUFFICES ASSUME IInv, [MatrixNext]_matrixVars PROVE IInv'
    OBVIOUS
  <1>1. ASSUME NEW req \in Requests, CreateJob(req) PROVE IInv'
    BY <1>1, CreateStep
  <1>2. ASSUME NEW req \in Requests, Edit(req) PROVE IInv'
    BY <1>2, EditStep
  <1>3. CASE Retry
    <2>1. job' = job /\ cells' = Marked
      BY <1>3 DEF Retry
    <2>2. DOMAIN cells' = DOMAIN cells /\ cells' = [i \in DOMAIN cells' |-> cells'[i]]
      BY <2>1 DEF Marked
    <2>3. \A i \in DOMAIN cells :
            cells'[i] = cells[i] \/ cells'[i] = [cells[i] EXCEPT !.status = "pending"]
      BY <2>1 DEF Marked
    <2>4. QED
      BY <2>1, <2>2, <2>3, UncompletedStep
  <1>4. CASE SkipCell \/ FailCell
    <2>1. PICK s \in {"failed", "skipped"} : cells' = [cells EXCEPT ![pos].status = s]
      BY <1>4 DEF SkipCell, FailCell
    <2>2. job' = job /\ pos \in DOMAIN cells
      BY <1>4 DEF SkipCell, FailCell, AtCell
    <2>3. cells' = [i \in DOMAIN cells |->
                      IF i = pos THEN [cells[i] EXCEPT !.status = s] ELSE cells[i]]
      BY <2>1, <2>2 DEF IInv, CellsAreCells
    <2>4. DOMAIN cells' = DOMAIN cells /\ cells' = [i \in DOMAIN cells' |-> cells'[i]]
      BY <2>3
    <2>5. \A i \in DOMAIN cells :
            cells'[i] = cells[i] \/ cells'[i] = [cells[i] EXCEPT !.status = s]
      BY <2>3
    <2>6. QED
      BY <2>2, <2>4, <2>5, UncompletedStep
  <1>5. CASE MeasureCell
    BY <1>5, MeasureStep
  <1>6. CASE PassCompletedCell \/ CancelJob \/ FinishJob \/ UNCHANGED matrixVars
    <2>1. job' = job /\ cells' = cells
      BY <1>6 DEF PassCompletedCell, CancelJob, FinishJob, matrixVars
    <2>2. QED
      BY <2>1, UncompletedStep DEF IInv, CellsAreCells
  <1>7. QED
    BY <1>1, <1>2, <1>3, <1>4, <1>5, <1>6 DEF MatrixNext

(* No result is ever shown under a configuration it was not measured at:   *)
(* what a completed cell holds is what the job, as it stands, says of it   *)
(* (cellIdentity and overrideKey in UpdateJobDefinition).                  *)
THEOREM ResultsAreAsLabelled == MatrixSpec => []CompletedIsAsLabelled
  <1>1. IInv => CompletedIsAsLabelled
    BY DEF IInv
  <1>2. QED
    BY InitIInv, NextIInv, <1>1, PTL DEF MatrixSpec
=============================================================================
