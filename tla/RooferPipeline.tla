--------------------------- MODULE RooferPipeline ---------------------------
(***************************************************************************)
(* The batch pipeline of the roofer application (main in roofer-app.cpp):  *)
(* cropper, reconstructor with its worker pool, sorter, serializer, tracer *)
(* and the joining main thread, with their queues, mutexes, condition      *)
(* variables and running flags.                                            *)
(*                                                                         *)
(* Granularity. A step is what one thread does between two points where    *)
(* another thread can observe or influence it. A critical section that     *)
(* does not wait is one step, guarded by its mutex being free. Only a      *)
(* consumer holds a mutex over several steps: from the moment its wait     *)
(* predicate was found false until condition_variable::wait has enqueued   *)
(* it ("blocking"), and, for the reconstructor, while it drains            *)
(* cropped_tiles. Storing a running flag and notifying are two steps,      *)
(* because the code takes no lock around either.                           *)
(*                                                                         *)
(* A BuildingTile is move-only: one queue at a time holds it. Queues hold  *)
(* tile ids and its two per-building vectors are functions of the tile id. *)
(* Buildings are numbered from 1.                                          *)
(***************************************************************************)
EXTENDS Naturals, Sequences, FiniteSets, Functions

CONSTANTS
  NTiles,         \* number of tiles in initial_tiles
  BuildingsCnt,   \* buildings_cnt of each tile, if cropping it succeeds
  Workers,        \* threads of the reconstructor pool
  CropOnly,       \* --crop-only
  Tracing,        \* a tracer thread is started (log level trace)
  Faults          \* which of AllFaults the environment may cause

Tiles == 1..NTiles

\* An exception that leaves crop_tile, the exit(1) calls inside it, and an
\* exception in the serializer outside the per-building handler.
AllFaults == {"crop_exception", "crop_exit", "write_exception"}

ASSUME PipelineAssumption ==
  /\ NTiles \in Nat
  /\ BuildingsCnt \in [Tiles -> Nat \ {0}]
  /\ IsFiniteSet(Workers)
  /\ CropOnly \in BOOLEAN
  /\ Tracing \in BOOLEAN
  /\ Faults \subseteq AllFaults

VARIABLES
  initial_tiles,            \* deque of the tiles still to crop
  crop_log,                 \* what the cropper logged of each tile
  cropped_tiles,            \* deque, under cropped_tiles_mutex
  cropped_buildings,        \* deque local to the reconstructor
  tasks,                    \* task queue of the pool
  worker,                   \* each pool thread: idle, running, notifying
  running_task,             \* the reference a running pool thread holds
  reconstructed_buildings,  \* deque, under reconstructed_buildings_mutex
  reconstructed_tiles,      \* tiles in reconstruction (searched by id only)
  pending_sorted,           \* the sorter's local deque
  finished_tile,            \* the sorter's local tile, a set of at most one
  sorted_tiles,             \* deque, under sorted_tiles_mutex
  pending_serialized,       \* the serializer's local deque
  buildings,                \* BuildingTile::buildings of each tile
  buildings_progresses,     \* BuildingTile::buildings_progresses
  written,                  \* the rows in the output file of each tile
  crop_running, reconstruction_running, sorting_running,
  serialization_running,    \* the running flags
  pc,                       \* control state of each thread
  process                   \* running, returned (main) or terminated

poolVars  == <<tasks, worker, running_task>>
queueVars == <<cropped_buildings, poolVars, reconstructed_buildings,
               reconstructed_tiles, pending_sorted, finished_tile,
               sorted_tiles, pending_serialized>>
cropVars  == <<initial_tiles, crop_log, cropped_tiles>>
tileVars  == <<buildings, buildings_progresses>>
flagVars  == <<crop_running, reconstruction_running, sorting_running,
               serialization_running>>
vars == <<cropVars, queueVars, tileVars, written, flagVars, pc, process>>

Threads == {"cropper", "reconstructor", "sorter", "serializer", "tracer"}
-----------------------------------------------------------------------------
(* Values.                                                                  *)

\* The enumerators of Progress that the pipeline uses; the sorter compares
\* them as numbers.
CROP_SUCCEEDED             == 2
RECONSTRUCTION_IN_PROGRESS == 4
RECONSTRUCTION_SUCCEEDED   == 5
RECONSTRUCTION_FAILED      == 6
Progress == {CROP_SUCCEEDED, RECONSTRUCTION_IN_PROGRESS,
             RECONSTRUCTION_SUCCEEDED, RECONSTRUCTION_FAILED}

\* A BuildingObject: the footprint it was made from, and what reconstruction
\* left in it: reconstruction_success, or extrusion_mode FAIL and no solids.
Building == [id : (0..NTiles) \X Nat, outcome : {"none", "success", "fail"}]
NoBuilding == [id |-> <<0, 0>>, outcome |-> "none"]   \* BuildingObject{}

BuildingObjectRef ==
  [tile_id : Tiles, building_idx : Nat, building : Building,
   progress : Progress]

\* What running_task holds of a pool thread that runs nothing.
NoTask == [tile_id |-> 0, building_idx |-> 0, building |-> NoBuilding,
           progress |-> RECONSTRUCTION_IN_PROGRESS]

CroppedBuildings(t) ==
  [i \in 1..BuildingsCnt[t] |-> [id |-> <<t, i>>, outcome |-> "none"]]

\* The row written for each building: the building and its status attribute.
WrittenRows(t) ==
  [i \in 1..BuildingsCnt[t] |->
     [building |-> buildings[t][i],
      success  |-> buildings_progresses[t][i] = RECONSTRUCTION_SUCCEEDED]]
-----------------------------------------------------------------------------
(* Control.                                                                 *)

\* cropped_tiles_mutex and the two other mutexes, see the header.
cropped_tiles_mutex_free == pc["reconstructor"] \notin {"blocking", "draining"}
\* Mutant: a producer pushes without the mutex.
NoMutex == TRUE

reconstructed_buildings_mutex_free == pc["sorter"] # "blocking"
sorted_tiles_mutex_free == pc["serializer"] # "blocking"

Goto(self, to) == pc' = [pc EXCEPT ![self] = to]

\* Mutant: the notification is forgotten.
NotWoken(state) == state

\* notify_one on the condition variable only thread c waits on: c, if it has
\* been enqueued, goes on to take the mutex and evaluate its predicate again.
Woken(state) == IF state = "waiting" THEN "locking" ELSE state
GotoAndNotify(self, to, c) ==
  pc' = [pc EXCEPT ![self] = to, ![c] = Woken(@)]

Init ==
  /\ initial_tiles = [i \in 1..NTiles |-> i]
  /\ crop_log = [t \in Tiles |-> "none"]
  /\ cropped_tiles = <<>>
  /\ cropped_buildings = <<>>
  /\ tasks = <<>>
  /\ worker = [w \in Workers |-> "idle"]
  /\ running_task = [w \in Workers |-> NoTask]
  /\ reconstructed_buildings = <<>>
  /\ reconstructed_tiles = {}
  /\ pending_sorted = <<>>
  /\ finished_tile = {}
  /\ sorted_tiles = <<>>
  /\ pending_serialized = <<>>
  /\ buildings = [t \in Tiles |-> <<>>]
  /\ buildings_progresses = [t \in Tiles |-> <<>>]
  /\ written = [t \in Tiles |-> <<>>]
  /\ crop_running = TRUE
  /\ reconstruction_running = TRUE
  /\ sorting_running = TRUE
  /\ serialization_running = TRUE
  /\ pc = [th \in Threads |->
             CASE th = "cropper" -> "cropping"
               [] th = "tracer" -> IF Tracing THEN "tracing" ELSE "absent"
               [] OTHER -> IF CropOnly THEN "absent" ELSE "locking"]
  /\ process = "running"
-----------------------------------------------------------------------------
(* The cropper.                                                             *)

\* No footprints in the tile, or an exception left crop_tile: the tile is
\* logged and popped, nothing of it reaches the pipeline.
CropNothing(result) ==
  /\ pc["cropper"] = "cropping"
  /\ initial_tiles # <<>>
  /\ result = "failed" => "crop_exception" \in Faults
  /\ crop_log' = [crop_log EXCEPT ![Head(initial_tiles)] = result]
  /\ initial_tiles' = Tail(initial_tiles)
  /\ UNCHANGED <<cropped_tiles, queueVars, tileVars, written, flagVars, pc,
                 process>>

\* exit(1) inside crop_tile ends the process.
CropExit ==
  /\ pc["cropper"] = "cropping"
  /\ initial_tiles # <<>>
  /\ "crop_exit" \in Faults
  /\ process' = "terminated"
  /\ UNCHANGED <<cropVars, queueVars, tileVars, written, flagVars, pc>>

CropTile ==
  /\ pc["cropper"] = "cropping"
  /\ initial_tiles # <<>>
  /\ cropped_tiles_mutex_free
  /\ LET t == Head(initial_tiles)
     IN  /\ crop_log' = [crop_log EXCEPT ![t] = "cropped"]
         /\ buildings' = [buildings EXCEPT ![t] = CroppedBuildings(t)]
         /\ buildings_progresses' =
              [buildings_progresses EXCEPT
                 ![t] = [i \in 1..BuildingsCnt[t] |-> CROP_SUCCEEDED]]
         /\ cropped_tiles' = Append(cropped_tiles, t)
  /\ Goto("cropper", "notifying")
  /\ UNCHANGED <<initial_tiles, queueVars, written, flagVars, process>>

CropperNotify ==
  /\ pc["cropper"] = "notifying"
  /\ initial_tiles' = Tail(initial_tiles)
  /\ GotoAndNotify("cropper", "cropping", "reconstructor")
  /\ UNCHANGED <<crop_log, cropped_tiles, queueVars, tileVars, written,
                 flagVars, process>>

CropperStop ==
  /\ pc["cropper"] = "cropping"
  /\ initial_tiles = <<>>
  /\ crop_running' = FALSE
  /\ Goto("cropper", "stop_notifying")
  /\ UNCHANGED <<cropVars, queueVars, tileVars, written,
                 reconstruction_running, sorting_running,
                 serialization_running, process>>

CropperStopNotify ==
  /\ pc["cropper"] = "stop_notifying"
  /\ GotoAndNotify("cropper", "done", "reconstructor")
  /\ UNCHANGED <<cropVars, queueVars, tileVars, written, flagVars, process>>

Cropper ==
  \/ \E result \in {"skipped", "failed"} : CropNothing(result)
  \/ CropExit
  \/ CropTile
  \/ CropperNotify
  \/ CropperStop
  \/ CropperStopNotify
-----------------------------------------------------------------------------
(* Waiting, the same for the three consumers.                               *)

\* condition_variable::wait: the mutex is released and the thread enqueued.
Block(self) ==
  /\ pc[self] = "blocking"
  /\ Goto(self, "waiting")
  /\ UNCHANGED <<cropVars, queueVars, tileVars, written, flagVars, process>>

\* A wait may return without a notification.
SpuriousWakeup(self) ==
  /\ pc[self] = "waiting"
  /\ Goto(self, "locking")
  /\ UNCHANGED <<cropVars, queueVars, tileVars, written, flagVars, process>>
-----------------------------------------------------------------------------
(* The reconstructor and its pool.                                          *)

ReconstructorLock ==
  /\ pc["reconstructor"] = "locking"
  /\ Goto("reconstructor",
          IF cropped_tiles # <<>> THEN "draining"
          ELSE IF crop_running THEN "blocking" ELSE "joining")
  /\ UNCHANGED <<cropVars, queueVars, tileVars, written, flagVars, process>>

\* One tile is moved to reconstructed_tiles, its buildings to
\* cropped_buildings. What is left in the tile are building slots that the
\* sorter resizes and fills: BuildingObject{}.
ReconstructorDrain ==
  /\ pc["reconstructor"] = "draining"
  /\ LET t == Head(cropped_tiles)
         n == BuildingsCnt[t]
     IN  /\ cropped_buildings' =
              cropped_buildings \o
                [i \in 1..n |->
                   [tile_id |-> t, building_idx |-> i,
                    building |-> buildings[t][i],
                    progress |-> RECONSTRUCTION_IN_PROGRESS]]
         /\ buildings' = [buildings EXCEPT ![t] = [i \in 1..n |-> NoBuilding]]
         /\ buildings_progresses' =
              [buildings_progresses EXCEPT
                 ![t] = [i \in 1..n |-> RECONSTRUCTION_IN_PROGRESS]]
         /\ reconstructed_tiles' = reconstructed_tiles \cup {t}
  /\ cropped_tiles' = Tail(cropped_tiles)
  /\ GotoAndNotify("reconstructor",
                   IF Tail(cropped_tiles) = <<>> THEN "submitting"
                                                 ELSE "draining", "sorter")
  /\ UNCHANGED <<initial_tiles, crop_log, poolVars,
                 reconstructed_buildings, pending_sorted, finished_tile,
                 sorted_tiles, pending_serialized, written, flagVars, process>>

\* detach_task of one building; the loop ends when none is left.
ReconstructorSubmit ==
  /\ pc["reconstructor"] = "submitting"
  /\ cropped_buildings # <<>>
  /\ tasks' = Append(tasks, Head(cropped_buildings))
  /\ cropped_buildings' = Tail(cropped_buildings)
  /\ Goto("reconstructor",
          IF Tail(cropped_buildings) = <<>> THEN "locking" ELSE "submitting")
  /\ UNCHANGED <<cropVars, worker, running_task, reconstructed_buildings,
                 reconstructed_tiles, pending_sorted, finished_tile,
                 sorted_tiles, pending_serialized, tileVars, written,
                 flagVars, process>>

\* Mutant: the reconstructor stops without waiting for its pool.
ReconstructorLeavePool ==
  /\ pc["reconstructor"] = "joining"
  /\ Goto("reconstructor", "stopping")
  /\ UNCHANGED <<cropVars, queueVars, tileVars, written, flagVars, process>>

\* thread_pool::wait returns when no task is queued and none is running.
ReconstructorJoinPool ==
  /\ pc["reconstructor"] = "joining"
  /\ tasks = <<>>
  /\ \A w \in Workers : worker[w] = "idle"
  /\ Goto("reconstructor", "stopping")
  /\ UNCHANGED <<cropVars, queueVars, tileVars, written, flagVars, process>>

ReconstructorStop ==
  /\ pc["reconstructor"] = "stopping"
  /\ reconstruction_running' = FALSE
  /\ Goto("reconstructor", "stop_notifying")
  /\ UNCHANGED <<cropVars, queueVars, tileVars, written, crop_running,
                 sorting_running, serialization_running, process>>

ReconstructorStopNotify ==
  /\ pc["reconstructor"] = "stop_notifying"
  /\ GotoAndNotify("reconstructor", "done", "sorter")
  /\ UNCHANGED <<cropVars, queueVars, tileVars, written, flagVars, process>>

Reconstructor ==
  \/ ReconstructorLock
  \/ Block("reconstructor")
  \/ ReconstructorDrain
  \/ ReconstructorSubmit
  \/ ReconstructorJoinPool
  \/ ReconstructorStop
  \/ ReconstructorStopNotify

WorkerTake(w) ==
  /\ worker[w] = "idle"
  /\ tasks # <<>>
  /\ worker' = [worker EXCEPT ![w] = "running"]
  /\ running_task' = [running_task EXCEPT ![w] = Head(tasks)]
  /\ tasks' = Tail(tasks)
  /\ UNCHANGED <<cropVars, cropped_buildings, reconstructed_buildings,
                 reconstructed_tiles, pending_sorted, finished_tile,
                 sorted_tiles, pending_serialized, tileVars, written,
                 flagVars, pc, process>>

\* reconstruct_building returned ("success") or threw ("fail"); either way
\* the reference, with the outcome in it, is queued for the sorter.
WorkerFinish(w, outcome) ==
  /\ worker[w] = "running"
  /\ reconstructed_buildings_mutex_free
  /\ reconstructed_buildings' =
       Append(reconstructed_buildings,
              [running_task[w] EXCEPT
                 !.building.outcome = outcome,
                 !.progress = IF outcome = "success"
                              THEN RECONSTRUCTION_SUCCEEDED
                              ELSE RECONSTRUCTION_FAILED])
  /\ worker' = [worker EXCEPT ![w] = "notifying"]
  /\ running_task' = [running_task EXCEPT ![w] = NoTask]
  /\ UNCHANGED <<cropVars, cropped_buildings, tasks, reconstructed_tiles,
                 pending_sorted, finished_tile, sorted_tiles,
                 pending_serialized, tileVars, written, flagVars, pc, process>>

WorkerNotify(w) ==
  /\ worker[w] = "notifying"
  /\ worker' = [worker EXCEPT ![w] = "idle"]
  /\ pc' = [pc EXCEPT !["sorter"] = Woken(@)]
  /\ UNCHANGED <<cropVars, cropped_buildings, tasks, running_task,
                 reconstructed_buildings, reconstructed_tiles, pending_sorted,
                 finished_tile, sorted_tiles, pending_serialized, tileVars,
                 written, flagVars, process>>

Worker(w) ==
  \/ WorkerTake(w)
  \/ \E outcome \in {"success", "fail"} : WorkerFinish(w, outcome)
  \/ WorkerNotify(w)
-----------------------------------------------------------------------------
(* The sorter.                                                              *)

\* Lock, evaluate the predicate; stop, wait, or swap the whole queue out.
SorterLock ==
  /\ pc["sorter"] = "locking"
  /\ \/ /\ reconstructed_buildings = <<>>
        /\ Goto("sorter",
                IF reconstruction_running THEN "blocking" ELSE "stopping")
        /\ UNCHANGED <<reconstructed_buildings, pending_sorted>>
     \/ /\ reconstructed_buildings # <<>>
        /\ pending_sorted' = reconstructed_buildings
        /\ reconstructed_buildings' = <<>>
        /\ Goto("sorter", "sorting")
  /\ UNCHANGED <<cropVars, cropped_buildings, poolVars,
                 reconstructed_tiles, finished_tile, sorted_tiles,
                 pending_serialized, tileVars, written, flagVars, process>>

\* Mutants: a tile is finished with its first building, or while one is still
\* in progress.
FinishedWithOne(progresses) ==
  \E i \in DOMAIN progresses : progresses[i] > RECONSTRUCTION_IN_PROGRESS
FinishedInProgress(progresses) ==
  \A i \in DOMAIN progresses : progresses[i] >= RECONSTRUCTION_IN_PROGRESS

Finished(progresses) ==
  \A i \in DOMAIN progresses : progresses[i] > RECONSTRUCTION_IN_PROGRESS

\* The state of the sorter after its local queue became q.
AfterSorting(q) == IF q = <<>> THEN "locking" ELSE "sorting"

\* Take one reference, put its building in its slot of its tile and, when
\* that was the last one, take the tile out of reconstructed_tiles. A
\* reference whose tile is not found is dropped.
SorterPlace ==
  /\ pc["sorter"] = "sorting"
  /\ LET r  == Head(pending_sorted)
         t  == r.tile_id
         ps == [buildings_progresses[t] EXCEPT ![r.building_idx] = r.progress]
         finishes == t \in reconstructed_tiles /\ Finished(ps)
     IN  /\ IF t \in reconstructed_tiles
            THEN /\ buildings' =
                      [buildings EXCEPT ![t][r.building_idx] = r.building]
                 /\ buildings_progresses' =
                      [buildings_progresses EXCEPT ![t] = ps]
            ELSE UNCHANGED tileVars
         /\ finished_tile' = IF finishes THEN {t} ELSE {}
         /\ reconstructed_tiles' = reconstructed_tiles \ finished_tile'
         /\ Goto("sorter", IF finishes THEN "handing_over"
                                       ELSE AfterSorting(Tail(pending_sorted)))
  /\ pending_sorted' = Tail(pending_sorted)
  /\ UNCHANGED <<cropVars, cropped_buildings, poolVars,
                 reconstructed_buildings, sorted_tiles, pending_serialized,
                 written, flagVars, process>>

SorterHandOver ==
  /\ pc["sorter"] = "handing_over"
  /\ sorted_tiles_mutex_free
  /\ \E t \in finished_tile : sorted_tiles' = Append(sorted_tiles, t)
  /\ finished_tile' = {}
  /\ Goto("sorter", "notifying")
  /\ UNCHANGED <<cropVars, cropped_buildings, poolVars,
                 reconstructed_buildings, reconstructed_tiles, pending_sorted,
                 pending_serialized, tileVars, written, flagVars, process>>

SorterNotify ==
  /\ pc["sorter"] = "notifying"
  /\ GotoAndNotify("sorter", AfterSorting(pending_sorted), "serializer")
  /\ UNCHANGED <<cropVars, queueVars, tileVars, written, flagVars, process>>

SorterStop ==
  /\ pc["sorter"] = "stopping"
  /\ sorting_running' = FALSE
  /\ Goto("sorter", "stop_notifying")
  /\ UNCHANGED <<cropVars, queueVars, tileVars, written, crop_running,
                 reconstruction_running, serialization_running, process>>

SorterStopNotify ==
  /\ pc["sorter"] = "stop_notifying"
  /\ GotoAndNotify("sorter", "done", "serializer")
  /\ UNCHANGED <<cropVars, queueVars, tileVars, written, flagVars, process>>

Sorter ==
  \/ SorterLock
  \/ Block("sorter")
  \/ SorterPlace
  \/ SorterHandOver
  \/ SorterNotify
  \/ SorterStop
  \/ SorterStopNotify
-----------------------------------------------------------------------------
(* The serializer, the tracer and main.                                     *)

SerializerLock ==
  /\ pc["serializer"] = "locking"
  /\ \/ /\ sorted_tiles = <<>>
        /\ Goto("serializer",
                IF sorting_running THEN "blocking" ELSE "stopping")
        /\ UNCHANGED <<sorted_tiles, pending_serialized>>
     \/ /\ sorted_tiles # <<>>
        /\ pending_serialized' = sorted_tiles
        /\ sorted_tiles' = <<>>
        /\ Goto("serializer", "writing")
  /\ UNCHANGED <<cropVars, cropped_buildings, poolVars,
                 reconstructed_buildings, reconstructed_tiles, pending_sorted,
                 finished_tile, tileVars, written, flagVars, process>>

\* Mutant: the tile is not popped after it was written.
SerializerWriteAgain ==
  /\ pc["serializer"] = "writing"
  /\ LET t == Head(pending_serialized)
     IN  written' = [written EXCEPT ![t] = WrittenRows(t)]
  /\ UNCHANGED <<cropVars, queueVars, tileVars, flagVars, pc, process>>

\* The output file of one tile, opened with truncation (TileSerializer has
\* the detail of a tile's rows).
SerializerWrite ==
  /\ pc["serializer"] = "writing"
  /\ LET t == Head(pending_serialized)
     IN  written' = [written EXCEPT ![t] = WrittenRows(t)]
  /\ pending_serialized' = Tail(pending_serialized)
  /\ Goto("serializer", IF Tail(pending_serialized) = <<>> THEN "locking"
                                                           ELSE "writing")
  /\ UNCHANGED <<cropVars, cropped_buildings, poolVars,
                 reconstructed_buildings, reconstructed_tiles, pending_sorted,
                 finished_tile, sorted_tiles, tileVars, flagVars, process>>

\* An exception that no handler of the thread catches: std::terminate.
SerializerThrow ==
  /\ pc["serializer"] = "writing"
  /\ "write_exception" \in Faults
  /\ process' = "terminated"
  /\ UNCHANGED <<cropVars, queueVars, tileVars, written, flagVars, pc>>

SerializerStop ==
  /\ pc["serializer"] = "stopping"
  /\ serialization_running' = FALSE
  /\ Goto("serializer", "done")
  /\ UNCHANGED <<cropVars, queueVars, tileVars, written, crop_running,
                 reconstruction_running, sorting_running, process>>

Serializer ==
  \/ SerializerLock
  \/ Block("serializer")
  \/ SerializerWrite
  \/ SerializerThrow
  \/ SerializerStop

\* The tracer leaves its loop when it reads the three flags as false.
TracerFinish ==
  /\ pc["tracer"] = "tracing"
  /\ ~ (crop_running \/ reconstruction_running \/ serialization_running)
  /\ Goto("tracer", "done")
  /\ UNCHANGED <<cropVars, queueVars, tileVars, written, flagVars, process>>

Joined(th) == pc[th] \in {"done", "absent"}

\* main joins every thread it has started, then returns.
MainReturn ==
  /\ \A th \in Threads : Joined(th)
  /\ process' = "returned"
  /\ UNCHANGED <<cropVars, queueVars, tileVars, written, flagVars, pc>>

Next ==
  /\ process = "running"
  /\ \/ Cropper
     \/ Reconstructor
     \/ \E w \in Workers : Worker(w)
     \/ Sorter
     \/ Serializer
     \/ TracerFinish
     \/ MainReturn
     \/ \E c \in {"reconstructor", "sorter", "serializer"} : SpuriousWakeup(c)

Spec == Init /\ [][Next]_vars

\* The operating system runs every thread that can run, and a thread that
\* contends for a mutex gets it if it is free again and again (cropper, pool
\* threads and sorter take a mutex that a waiting consumer holds for a
\* moment). A fault and a spurious wakeup are never owed.
Fairness ==
  /\ SF_vars(process = "running" /\ Cropper)
  /\ WF_vars(process = "running" /\ Reconstructor)
  /\ \A w \in Workers : SF_vars(process = "running" /\ Worker(w))
  /\ SF_vars(process = "running" /\ Sorter)
  /\ WF_vars(process = "running" /\ Serializer)
  /\ WF_vars(process = "running" /\ TracerFinish)
  /\ WF_vars(process = "running" /\ MainReturn)

FairSpec == Spec /\ Fairness
-----------------------------------------------------------------------------
(* Properties.                                                              *)

Row == [building : Building, success : BOOLEAN]

QueueTypes ==
  /\ initial_tiles \in Seq(Tiles)
  /\ cropped_buildings \in Seq(BuildingObjectRef)
  /\ reconstructed_buildings \in Seq(BuildingObjectRef)
  /\ pending_sorted \in Seq(BuildingObjectRef)

PoolTypes ==
  /\ tasks \in Seq(BuildingObjectRef)
  /\ worker \in [Workers -> {"idle", "running", "notifying"}]
  /\ running_task \in [Workers -> BuildingObjectRef \cup {NoTask}]
  /\ \A w \in Workers : worker[w] = "running" => running_task[w] # NoTask

TileTypes ==
  /\ crop_log \in [Tiles -> {"none", "skipped", "failed", "cropped"}]
  /\ buildings \in [Tiles -> Seq(Building)]
  /\ buildings_progresses \in [Tiles -> Seq(Progress)]
  /\ written \in [Tiles -> Seq(Row)]

ControlTypes ==
  /\ crop_running \in BOOLEAN
  /\ reconstruction_running \in BOOLEAN
  /\ sorting_running \in BOOLEAN
  /\ serialization_running \in BOOLEAN
  /\ pc = [th \in Threads |-> pc[th]]
  /\ pc["cropper"] \in {"cropping", "notifying", "stop_notifying", "done"}
  /\ pc["reconstructor"] \in
       {"absent", "locking", "blocking", "waiting", "draining", "submitting",
        "joining", "stopping", "stop_notifying", "done"}
  /\ pc["sorter"] \in
       {"absent", "locking", "blocking", "waiting", "sorting", "handing_over",
        "notifying", "stopping", "stop_notifying", "done"}
  /\ pc["serializer"] \in
       {"absent", "locking", "blocking", "waiting", "writing", "stopping",
        "done"}
  /\ pc["tracer"] \in {"absent", "tracing", "done"}
  /\ process \in {"running", "returned", "terminated"}

\* A consumer holds a local deque, and the sorter a finished tile, only in the
\* part of its loop that works it off; the loops that take the front of a
\* deque run only while there is one.
LocalQueues ==
  /\ pc["cropper"] = "notifying" => initial_tiles # <<>>
  /\ pc["reconstructor"] = "draining" => cropped_tiles # <<>>
  /\ pc["reconstructor"] = "draining" \/
       (pc["reconstructor"] = "submitting" <=> cropped_buildings # <<>>)
  /\ pc["sorter"] \in {"handing_over", "notifying"} \/
       (pc["sorter"] = "sorting" <=> pending_sorted # <<>>)
  /\ finished_tile = {} <=> pc["sorter"] # "handing_over"
  /\ pc["serializer"] = "writing" <=> pending_serialized # <<>>

\* Both per-building vectors have one element for each building of the tile;
\* only such tiles are queued.
SizedTiles ==
  {t \in Tiles : /\ DOMAIN buildings[t] = 1..BuildingsCnt[t]
                 /\ DOMAIN buildings_progresses[t] = 1..BuildingsCnt[t]}

SizedQueues ==
  /\ cropped_tiles \in Seq(SizedTiles)
  /\ reconstructed_tiles \subseteq SizedTiles
  /\ finished_tile \subseteq SizedTiles
  /\ sorted_tiles \in Seq(SizedTiles)
  /\ pending_serialized \in Seq(SizedTiles)

BasicTypes ==
  QueueTypes /\ PoolTypes /\ TileTypes /\ ControlTypes /\ LocalQueues

TypeOK == BasicTypes /\ SizedQueues

\* No lost wakeup for data: a consumer that sleeps although its queue is not
\* empty is about to be notified. This is what pushing under the mutex and
\* notifying after it must achieve; it says nothing of the running flags.
SleepersAreWoken ==
  /\ pc["reconstructor"] = "waiting" /\ cropped_tiles # <<>>
       => pc["cropper"] = "notifying"
  /\ pc["sorter"] = "waiting" /\ reconstructed_buildings # <<>>
       => \E w \in Workers : worker[w] = "notifying"
  /\ pc["serializer"] = "waiting" /\ sorted_tiles # <<>>
       => pc["sorter"] = "notifying"

\* The stop protocol: a stage that has stopped has left nothing in the
\* queues before it, and every earlier stage has stopped; so the errors main
\* logs for a queue that is not empty after the joins cannot occur.
StoppedStagesAreDrained ==
  /\ pc["reconstructor"] \in {"stopping", "stop_notifying", "done"} =>
       /\ ~ crop_running
       /\ initial_tiles = <<>>
       /\ cropped_tiles = <<>>
       /\ cropped_buildings = <<>>
       /\ tasks = <<>>
       /\ \A w \in Workers : worker[w] = "idle"
  /\ pc["sorter"] \in {"stopping", "stop_notifying", "done"} =>
       /\ pc["reconstructor"] \in {"stop_notifying", "done"}
       /\ reconstructed_buildings = <<>>
       /\ pending_sorted = <<>>
       /\ finished_tile = {}
  /\ pc["serializer"] \in {"stopping", "done"} =>
       /\ pc["sorter"] \in {"stop_notifying", "done"}
       /\ sorted_tiles = <<>>
       /\ pending_serialized = <<>>

\* What makes the two properties above inductive. A flag is false once its
\* thread is past the store; a consumer leaves its loop when the flag before
\* it is false and its queue empty, and a producer that is past its store
\* adds nothing.
StopInv ==
  /\ crop_running <=> pc["cropper"] \notin {"stop_notifying", "done"}
  /\ ~ crop_running => initial_tiles = <<>>
  /\ reconstruction_running <=>
       pc["reconstructor"] \notin {"stop_notifying", "done"}
  /\ sorting_running <=> pc["sorter"] \notin {"stop_notifying", "done"}
  /\ pc["reconstructor"] \in {"joining", "stopping", "stop_notifying", "done"}
       => ~ crop_running /\ cropped_tiles = <<>>
  /\ pc["reconstructor"] \in {"stopping", "stop_notifying", "done"}
       => tasks = <<>> /\ \A w \in Workers : worker[w] = "idle"
  /\ pc["sorter"] \in {"stopping", "stop_notifying", "done"}
       => ~ reconstruction_running /\ reconstructed_buildings = <<>>
  /\ pc["serializer"] \in {"stopping", "done"}
       => ~ sorting_running /\ sorted_tiles = <<>>

\* Between its predicate and its sleep a consumer keeps the mutex, so that
\* its queue stays empty; an element that arrives while it sleeps comes with
\* a notification.
SleepInv ==
  /\ pc["reconstructor"] = "blocking" => cropped_tiles = <<>>
  /\ pc["sorter"] = "blocking" => reconstructed_buildings = <<>>
  /\ pc["serializer"] = "blocking" => sorted_tiles = <<>>
  /\ SleepersAreWoken

\* How many references in queue q, pool threads and slots of tile t carry
\* building b.
Places(q, b) == {k \in DOMAIN q : q[k].building.id = b}
CarriedIn(q, b) == Cardinality(Places(q, b))
RunningOn(b) == {w \in Workers : worker[w] = "running" /\ running_task[w].building.id = b}
SlotsOf(t, b) == {k \in DOMAIN buildings[t] : buildings[t][k].id = b}

CopiesOf(t, b) ==
  CarriedIn(cropped_buildings, b) + CarriedIn(tasks, b) + Cardinality(RunningOn(b))
  + CarriedIn(reconstructed_buildings, b) + CarriedIn(pending_sorted, b)
  + Cardinality(SlotsOf(t, b))

\* No building is lost or duplicated on its way through four queues, the
\* pool and back into its tile, whatever the order of the threads.
EachBuildingOnce ==
  \A t \in Tiles : \A i \in 1..BuildingsCnt[t] :
    CopiesOf(t, <<t, i>>) = IF crop_log[t] = "cropped" THEN 1 ELSE 0

\* Building i of tile t is back in its place and its outcome is known.
Placed(t, i) ==
  /\ buildings[t][i].id = <<t, i>>
  /\ buildings[t][i].outcome # "none"
  /\ buildings_progresses[t][i] = IF buildings[t][i].outcome = "success"
                                  THEN RECONSTRUCTION_SUCCEEDED
                                  ELSE RECONSTRUCTION_FAILED

\* A tile the sorter lets go has every building back in its original place
\* with the outcome the status attribute will report.
SortedTilesInOrder ==
  \A t \in finished_tile \cup Range(sorted_tiles) \cup Range(pending_serialized) :
    \A i \in 1..BuildingsCnt[t] : Placed(t, i)

\* What makes these two properties inductive: which tiles a queue may hold,
\* and which references.  A tile is unstarted, then undrained, then each of
\* its slots is empty or filled, and in the end complete.
Unstarted == {t \in Tiles : crop_log[t] = "none" /\ buildings[t] = <<>>}

Undrained ==
  {t \in Tiles : /\ crop_log[t] = "cropped"
                 /\ buildings[t] = CroppedBuildings(t)
                 /\ \A i \in 1..BuildingsCnt[t] : buildings_progresses[t][i] = CROP_SUCCEEDED}

Empty(t, i) ==
  buildings[t][i] = NoBuilding /\ buildings_progresses[t][i] = RECONSTRUCTION_IN_PROGRESS

Drained ==
  {t \in Tiles : /\ crop_log[t] = "cropped"
                 /\ DOMAIN buildings[t] = 1..BuildingsCnt[t]
                 /\ \A i \in 1..BuildingsCnt[t] : Empty(t, i) \/ Placed(t, i)}

Complete == {t \in Drained : \A i \in 1..BuildingsCnt[t] : Placed(t, i)}

Refs ==
  {r \in BuildingObjectRef : /\ r.tile_id \in Drained
                             /\ r.building_idx \in 1..BuildingsCnt[r.tile_id]
                             /\ r.building.id = <<r.tile_id, r.building_idx>>}

OpenRefs == {r \in Refs : r.building.outcome = "none"}

DecidedRefs ==
  {r \in Refs : /\ r.building.outcome # "none"
                /\ r.progress = IF r.building.outcome = "success"
                                THEN RECONSTRUCTION_SUCCEEDED
                                ELSE RECONSTRUCTION_FAILED}

Distinct(q) == \A j, k \in DOMAIN q : q[j] = q[k] => j = k

TilesInOrder ==
  /\ Distinct(initial_tiles) /\ Distinct(cropped_tiles)
  /\ (IF pc["cropper"] = "notifying" THEN Tail(initial_tiles) ELSE initial_tiles)
       \in Seq(Unstarted)
  /\ cropped_tiles \in Seq(Undrained)
  /\ reconstructed_tiles \subseteq Drained
  /\ finished_tile \subseteq Complete
  /\ sorted_tiles \in Seq(Complete)
  /\ pending_serialized \in Seq(Complete)

RefsInOrder ==
  /\ cropped_buildings \in Seq(OpenRefs)
  /\ tasks \in Seq(OpenRefs)
  /\ \A w \in Workers : worker[w] = "running" => running_task[w] \in OpenRefs
  /\ reconstructed_buildings \in Seq(DecidedRefs)
  /\ pending_sorted \in Seq(DecidedRefs)

\* No tile is given up before it is complete, and one that was not cropped
\* has no building.
NoTileForgotten ==
  \A t \in Tiles :
    /\ crop_log[t] # "cropped" => buildings[t] = <<>>
    /\ crop_log[t] = "cropped" => t \in Undrained \cup reconstructed_tiles \cup Complete

OrderInv == TilesInOrder /\ RefsInOrder

\* What was written of a tile is what the tile still holds.
WrittenInOrder ==
  \A t \in Tiles : written[t] # <<>> => t \in Complete /\ written[t] = WrittenRows(t)

\* The abstract batch: a tile is open from the push onto cropped_tiles until
\* it is written; the outcome of a building is known once its reference is
\* in reconstructed_buildings.
Decided(t, i) ==
  {r \in Range(reconstructed_buildings) \cup Range(pending_sorted) :
     r.building.id = <<t, i>>}

StageOf(t) ==
  IF crop_log[t] = "none" THEN "queued"
  ELSE IF crop_log[t] # "cropped" THEN "dropped"
  ELSE IF written[t] = <<>> THEN "open" ELSE "written"

SlotOutcome(t, i) == IF buildings[t] = <<>> THEN "none" ELSE buildings[t][i].outcome

OutcomeOf(t, i) ==
  IF Decided(t, i) # {} THEN (CHOOSE r \in Decided(t, i) : TRUE).building.outcome
                        ELSE SlotOutcome(t, i)

BatchStage == [t \in Tiles |-> StageOf(t)]
BatchOutcome == [t \in Tiles |-> [i \in 1..BuildingsCnt[t] |-> OutcomeOf(t, i)]]

Batch == INSTANCE BatchSpec WITH stage <- BatchStage,
                                 outcome <- BatchOutcome,
                                 output <- written

\* The pipeline implements the abstract batch.
ImplementsBatch == Batch!Spec

\* Whatever happens to the stopping threads, every cropped tile is written:
\* a thread that never wakes up again has no data left to process.
EveryCroppedTileIsWritten ==
  \A t \in Tiles : crop_log[t] = "cropped" ~> written[t] # <<>>

\* The pipeline comes to rest: from some point on the cropper has ended, the
\* pool is idle and no consumer works off a queue: each has ended or does
\* nothing but wait.
ComesToRest ==
  <>[] /\ pc["cropper"] = "done"
       /\ \A w \in Workers : worker[w] = "idle"
       /\ \A c \in {"reconstructor", "sorter", "serializer"} :
            pc[c] \in {"locking", "blocking", "waiting", "done"}

=============================================================================
