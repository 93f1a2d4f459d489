--------------------------- MODULE PipelineProofs ---------------------------
(***************************************************************************)
(* Theorems about RooferPipeline, for every number of tiles, buildings and *)
(* pool threads, every fault set and both modes: the invariants of its     *)
(* queues and pools, and that it implements BatchSpec (no building is lost *)
(* or doubled on its way, and what is written is in order).                *)
(***************************************************************************)
EXTENDS RooferPipeline, FiniteSetTheorems, SequenceTheorems, TLAPS

\* A function on 1..n with values in S is a sequence over S.
LEMMA SeqOfFunction ==
  ASSUME NEW S, NEW n \in Nat, NEW f \in [1..n -> S]
  PROVE  f \in Seq(S)
BY SeqDef

\* Replacing an element of a sequence leaves a sequence.
LEMMA SeqExcept ==
  ASSUME NEW S, NEW s \in Seq(S), NEW i, NEW v \in S
  PROVE  [s EXCEPT ![i] = v] \in Seq(S)
<1>1. PICK n \in Nat : s \in [1..n -> S]
  BY SeqDef
<1>2. [s EXCEPT ![i] = v] \in [1..n -> S]
  BY <1>1
<1> QED
  BY <1>1, <1>2, SeqOfFunction

\* What the queue operations return, for the solver.
LEMMA QueueOps ==
  ASSUME NEW S, NEW s \in Seq(S)
  PROVE  /\ \A e \in S : Append(s, e) \in Seq(S) /\ Append(s, e) # <<>>
         /\ s # <<>> => Head(s) \in S /\ Tail(s) \in Seq(S)
         /\ <<>> \in Seq(S)
         /\ \A u \in Seq(S) : s \o u \in Seq(S)
BY AppendProperties, HeadTailProperties, EmptySeq, ConcatProperties

LEMMA ConcatNonEmpty ==
  ASSUME NEW S, NEW s \in Seq(S), NEW u \in Seq(S), u # <<>>
  PROVE  s \o u # <<>>
<1>1. Len(s) \in Nat /\ Len(u) \in Nat \ {0}
  BY EmptySeq, LenProperties
<1>2. Len(s \o u) = Len(s) + Len(u)
  BY ConcatProperties
<1>3. Len(s \o u) # 0
  BY <1>1, <1>2
<1> QED
  BY <1>3, EmptySeq

LEMMA TypesOfValues ==
  /\ NoBuilding \in Building
  /\ \A t \in Tiles : /\ BuildingsCnt[t] \in Nat \ {0}
                      /\ CroppedBuildings(t) \in Seq(Building)
                      /\ [i \in 1..BuildingsCnt[t] |-> NoBuilding]
                           \in Seq(Building)
  /\ \A t \in Tiles, p \in Progress :
       [i \in 1..BuildingsCnt[t] |-> p] \in Seq(Progress)
<1>1. NoBuilding \in Building
  BY PipelineAssumption DEF NoBuilding, Building
<1>2. ASSUME NEW t \in Tiles
      PROVE  BuildingsCnt[t] \in Nat \ {0}
  BY PipelineAssumption
<1>3. ASSUME NEW t \in Tiles, NEW i \in 1..BuildingsCnt[t]
      PROVE  [id |-> <<t, i>>, outcome |-> "none"] \in Building
  <2>1. t \in 0..NTiles /\ i \in Nat
    BY <1>2, PipelineAssumption DEF Tiles
  <2> QED
    BY <2>1 DEF Building
<1>4. ASSUME NEW t \in Tiles
      PROVE  /\ CroppedBuildings(t) \in [1..BuildingsCnt[t] -> Building]
             /\ [i \in 1..BuildingsCnt[t] |-> NoBuilding]
                  \in [1..BuildingsCnt[t] -> Building]
  BY <1>1, <1>3 DEF CroppedBuildings
<1>5. ASSUME NEW t \in Tiles, NEW p \in Progress
      PROVE  [i \in 1..BuildingsCnt[t] |-> p]
               \in [1..BuildingsCnt[t] -> Progress]
  OBVIOUS
<1> QED
  BY <1>1, <1>2, <1>4, <1>5, SeqOfFunction

\* A step that changes neither a queue nor a tile keeps their types.
LEMMA ControlStep ==
  ASSUME TypeOK, UNCHANGED <<initial_tiles, cropped_tiles, queueVars>>,
         UNCHANGED <<crop_log, tileVars, written>>
  PROVE  QueueTypes' /\ PoolTypes' /\ TileTypes'
BY DEF TypeOK, BasicTypes, QueueTypes, PoolTypes, TileTypes, queueVars,
       poolVars, tileVars

\* The queued tiles are tiles.
LEMMA TileQueues ==
  ASSUME TypeOK
  PROVE  /\ cropped_tiles \in Seq(Tiles)
         /\ sorted_tiles \in Seq(Tiles)
         /\ pending_serialized \in Seq(Tiles)
<1>1. SizedTiles \subseteq Tiles
  BY DEF SizedTiles
<1> QED
  BY <1>1, SeqMonotonic DEF TypeOK, SizedQueues

LEMMA CropperTypes == TypeOK /\ Cropper => BasicTypes'
<1> SUFFICES ASSUME TypeOK, Cropper
             PROVE  BasicTypes'
  OBVIOUS
<1> USE DEF TypeOK, BasicTypes
<1>1. ASSUME NEW result \in {"skipped", "failed"}, CropNothing(result)
      PROVE  BasicTypes'
  <2>1. Tail(initial_tiles) \in Seq(Tiles) /\ Head(initial_tiles) \in Tiles
    BY <1>1, QueueOps DEF CropNothing, QueueTypes
  <2>2. QueueTypes' /\ PoolTypes'
    BY <1>1, <2>1 DEF CropNothing, QueueTypes, PoolTypes, queueVars, poolVars
  <2>3. TileTypes'
    BY <1>1, <2>1 DEF CropNothing, TileTypes, tileVars
  <2>4. ControlTypes' /\ LocalQueues'
    <3>1. ControlTypes'
      BY <1>1 DEF CropNothing, ControlTypes, flagVars
    <3>2. LocalQueues'
      BY <1>1 DEF CropNothing, ControlTypes, LocalQueues, queueVars
    <3> QED
      BY <3>1, <3>2
  <2> QED
    BY <2>2, <2>3, <2>4
<1>2. CASE CropExit
  <2>1. QueueTypes' /\ PoolTypes' /\ TileTypes'
    BY <1>2, ControlStep DEF CropExit, cropVars
  <2>2. ControlTypes' /\ LocalQueues'
    <3>1. ControlTypes'
      BY <1>2 DEF CropExit, ControlTypes, flagVars
    <3>2. LocalQueues'
      BY <1>2 DEF CropExit, ControlTypes, LocalQueues, cropVars, queueVars
    <3> QED
      BY <3>1, <3>2
  <2> QED
    BY <2>1, <2>2
<1>3. CASE CropTile
  <2> DEFINE t == Head(initial_tiles)
  <2>1. t \in Tiles
    BY <1>3, QueueOps DEF CropTile, QueueTypes
  <2>2. QueueTypes' /\ PoolTypes'
    BY <1>3, <2>1 DEF CropTile, QueueTypes, PoolTypes, queueVars, poolVars
  <2>3. CroppedBuildings(t) \in Seq(Building)
    BY <2>1, TypesOfValues
  <2>4. [i \in 1..BuildingsCnt[t] |-> CROP_SUCCEEDED] \in Seq(Progress)
    BY <2>1, TypesOfValues DEF Progress
  <2>5. TileTypes'
    BY <1>3, <2>1, <2>3, <2>4 DEF CropTile, TileTypes
  <2>6. Append(cropped_tiles, t) # <<>>
    BY <2>1, TileQueues, QueueOps
  <2>7. ControlTypes' /\ LocalQueues'
    <3>1. ControlTypes'
      BY <1>3, <2>6 DEF CropTile, Goto, Threads, ControlTypes, flagVars
    <3>2. LocalQueues'
      BY <1>3, <2>6 DEF CropTile, Goto, Threads, ControlTypes, LocalQueues,
         queueVars
    <3> QED
      BY <3>1, <3>2
  <2> QED
    BY <2>2, <2>5, <2>7
<1>4. CASE CropperNotify
  <2>1. Tail(initial_tiles) \in Seq(Tiles)
    BY <1>4, QueueOps DEF CropperNotify, QueueTypes, LocalQueues
  <2>2. QueueTypes' /\ PoolTypes' /\ TileTypes'
    BY <1>4, <2>1 DEF CropperNotify, QueueTypes, PoolTypes, TileTypes,
                      queueVars, poolVars, tileVars
  <2>3. ControlTypes' /\ LocalQueues'
    <3>1. ControlTypes'
      BY <1>4 DEF CropperNotify, GotoAndNotify, Woken, Threads, ControlTypes,
         flagVars
    <3>2. LocalQueues'
      BY <1>4 DEF CropperNotify, GotoAndNotify, Woken, Threads, ControlTypes,
         LocalQueues, queueVars
    <3> QED
      BY <3>1, <3>2
  <2> QED
    BY <2>2, <2>3
<1>5. CASE CropperStop
  <2>1. QueueTypes' /\ PoolTypes' /\ TileTypes'
    BY <1>5, ControlStep DEF CropperStop, cropVars
  <2>2. ControlTypes'
    BY <1>5 DEF CropperStop, Goto, Threads, ControlTypes, flagVars
  <2>3. LocalQueues'
    BY <1>5 DEF CropperStop, Goto, Threads, ControlTypes, LocalQueues,
                cropVars, queueVars
  <2> QED
    BY <2>1, <2>2, <2>3
<1>6. CASE CropperStopNotify
  <2>1. QueueTypes' /\ PoolTypes' /\ TileTypes'
    BY <1>6, ControlStep DEF CropperStopNotify, cropVars
  <2>2. ControlTypes'
    BY <1>6 DEF CropperStopNotify, GotoAndNotify, Woken, Threads, ControlTypes, flagVars
  <2>3. LocalQueues'
    BY <1>6 DEF CropperStopNotify, GotoAndNotify, Woken, Threads, ControlTypes, LocalQueues,
                cropVars, queueVars
  <2> QED
    BY <2>1, <2>2, <2>3
<1> QED
  BY <1>1, <1>2, <1>3, <1>4, <1>5, <1>6 DEF Cropper

LEMMA ReconstructorTypes == TypeOK /\ Reconstructor => BasicTypes'
<1> SUFFICES ASSUME TypeOK, Reconstructor
             PROVE  BasicTypes'
  OBVIOUS
<1> USE DEF TypeOK, BasicTypes
<1>1. CASE ReconstructorLock
  <2>1. QueueTypes' /\ PoolTypes' /\ TileTypes'
    BY <1>1, ControlStep DEF ReconstructorLock, cropVars
  <2>2. ControlTypes'
    BY <1>1 DEF ReconstructorLock, Goto, Threads, ControlTypes, flagVars
  <2>3. LocalQueues'
    BY <1>1 DEF ReconstructorLock, Goto, Threads, ControlTypes, LocalQueues,
                cropVars, queueVars
  <2> QED
    BY <2>1, <2>2, <2>3
<1>2. CASE Block("reconstructor")
  <2>1. QueueTypes' /\ PoolTypes' /\ TileTypes'
    BY <1>2, ControlStep DEF Block, cropVars
  <2>2. ControlTypes'
    BY <1>2 DEF Block, Goto, Threads, ControlTypes, flagVars
  <2>3. LocalQueues'
    BY <1>2 DEF Block, Goto, Threads, ControlTypes, LocalQueues,
                cropVars, queueVars
  <2> QED
    BY <2>1, <2>2, <2>3
<1>3. CASE ReconstructorDrain
  <2> DEFINE t == Head(cropped_tiles)
             n == BuildingsCnt[t]
             refs == [i \in 1..n |->
                        [tile_id |-> t, building_idx |-> i,
                         building |-> buildings[t][i],
                         progress |-> RECONSTRUCTION_IN_PROGRESS]]
  <2>1. t \in SizedTiles
    BY <1>3, QueueOps DEF ReconstructorDrain, SizedQueues, LocalQueues
  <2>2. t \in Tiles /\ n \in Nat \ {0} /\ DOMAIN buildings[t] = 1..n
    BY <2>1, TypesOfValues DEF SizedTiles
  <2>3. ASSUME NEW i \in 1..n
        PROVE  [tile_id |-> t, building_idx |-> i,
                building |-> buildings[t][i],
                progress |-> RECONSTRUCTION_IN_PROGRESS] \in BuildingObjectRef
    <3>1. buildings[t] \in Seq(Building)
      BY <2>2 DEF TileTypes
    <3>2. buildings[t][i] \in Building
      BY <2>2, <3>1, LenProperties
    <3> QED
      BY <2>2, <3>2 DEF BuildingObjectRef, Progress
  <2>4. refs \in [1..n -> BuildingObjectRef]
    BY <2>3
  <2>5. refs \in Seq(BuildingObjectRef)
    BY <2>2, <2>4, SeqOfFunction
  <2>6. refs # <<>>
    BY <2>2
  <2>7. cropped_buildings \o refs \in Seq(BuildingObjectRef)
    BY <2>5, QueueOps DEF QueueTypes
  <2>8. cropped_buildings \o refs # <<>>
    BY <2>5, <2>6, ConcatNonEmpty DEF QueueTypes
  <2>9. QueueTypes' /\ PoolTypes'
    BY <1>3, <2>7 DEF ReconstructorDrain, QueueTypes, PoolTypes, poolVars
  <2>10. TileTypes'
    <3>1. [i \in 1..n |-> NoBuilding] \in Seq(Building)
      BY <2>2, TypesOfValues
    <3>2. [i \in 1..n |-> RECONSTRUCTION_IN_PROGRESS] \in Seq(Progress)
      BY <2>2, TypesOfValues DEF Progress
    <3> QED
      BY <1>3, <2>2, <3>1, <3>2 DEF ReconstructorDrain, TileTypes
  <2>11. ControlTypes'
    BY <1>3 DEF ReconstructorDrain, GotoAndNotify, Woken, Threads,
                ControlTypes, flagVars
  <2>12. /\ cropped_buildings' = cropped_buildings \o refs
         /\ cropped_tiles' = Tail(cropped_tiles)
         /\ GotoAndNotify("reconstructor",
                          IF Tail(cropped_tiles) = <<>> THEN "submitting"
                                                        ELSE "draining",
                          "sorter")
         /\ UNCHANGED <<initial_tiles, pending_sorted, finished_tile,
                        pending_serialized>>
    BY <1>3 DEF ReconstructorDrain
  <2>13. LocalQueues'
    BY <1>3, <2>8, <2>12 DEF ReconstructorDrain, GotoAndNotify, Woken, Threads,
                             ControlTypes, LocalQueues
  <2> QED
    BY <2>9, <2>10, <2>11, <2>13
<1>4. CASE ReconstructorSubmit
  <2>1. /\ Tail(cropped_buildings) \in Seq(BuildingObjectRef)
        /\ Append(tasks, Head(cropped_buildings)) \in Seq(BuildingObjectRef)
    BY <1>4, QueueOps DEF ReconstructorSubmit, QueueTypes, PoolTypes
  <2>2. QueueTypes' /\ PoolTypes' /\ TileTypes'
    BY <1>4, <2>1 DEF ReconstructorSubmit, QueueTypes, PoolTypes, TileTypes,
                      cropVars, tileVars
  <2>3. ControlTypes' /\ LocalQueues'
    <3>1. ControlTypes'
      BY <1>4 DEF ReconstructorSubmit, Goto, Threads, ControlTypes, flagVars
    <3>2. LocalQueues'
      BY <1>4 DEF ReconstructorSubmit, Goto, Threads, ControlTypes,
         LocalQueues, cropVars
    <3> QED
      BY <3>1, <3>2
  <2> QED
    BY <2>2, <2>3
<1>5. CASE ReconstructorJoinPool
  <2>1. QueueTypes' /\ PoolTypes' /\ TileTypes'
    BY <1>5, ControlStep DEF ReconstructorJoinPool, cropVars
  <2>2. ControlTypes'
    BY <1>5 DEF ReconstructorJoinPool, Goto, Threads, ControlTypes, flagVars
  <2>3. LocalQueues'
    BY <1>5 DEF ReconstructorJoinPool, Goto, Threads, ControlTypes, LocalQueues,
                cropVars, queueVars
  <2> QED
    BY <2>1, <2>2, <2>3
<1>6. CASE ReconstructorStop
  <2>1. QueueTypes' /\ PoolTypes' /\ TileTypes'
    BY <1>6, ControlStep DEF ReconstructorStop, cropVars
  <2>2. ControlTypes'
    BY <1>6 DEF ReconstructorStop, Goto, Threads, ControlTypes, flagVars
  <2>3. LocalQueues'
    BY <1>6 DEF ReconstructorStop, Goto, Threads, ControlTypes, LocalQueues,
                cropVars, queueVars
  <2> QED
    BY <2>1, <2>2, <2>3
<1>7. CASE ReconstructorStopNotify
  <2>1. QueueTypes' /\ PoolTypes' /\ TileTypes'
    BY <1>7, ControlStep DEF ReconstructorStopNotify, cropVars
  <2>2. ControlTypes'
    BY <1>7 DEF ReconstructorStopNotify, GotoAndNotify, Woken, Threads, ControlTypes, flagVars
  <2>3. LocalQueues'
    BY <1>7 DEF ReconstructorStopNotify, GotoAndNotify, Woken, Threads, ControlTypes, LocalQueues,
                cropVars, queueVars
  <2> QED
    BY <2>1, <2>2, <2>3
<1> QED
  BY <1>1, <1>2, <1>3, <1>4, <1>5, <1>6, <1>7 DEF Reconstructor

LEMMA WorkerTypes ==
  ASSUME TypeOK, NEW w \in Workers, Worker(w)
  PROVE  BasicTypes'
<1> USE DEF TypeOK, BasicTypes
<1>1. CASE WorkerTake(w)
  <2>1. /\ Head(tasks) \in BuildingObjectRef
        /\ Tail(tasks) \in Seq(BuildingObjectRef)
    BY <1>1, QueueOps DEF WorkerTake, PoolTypes
  <2>2. NoTask \notin BuildingObjectRef
    BY PipelineAssumption DEF NoTask, BuildingObjectRef, Tiles
  <2>3. QueueTypes' /\ PoolTypes' /\ TileTypes'
    BY <1>1, <2>1, <2>2 DEF WorkerTake, QueueTypes, PoolTypes, TileTypes,
                            cropVars, tileVars
  <2>4. ControlTypes' /\ LocalQueues'
    <3>1. ControlTypes'
      BY <1>1 DEF WorkerTake, ControlTypes, flagVars
    <3>2. LocalQueues'
      BY <1>1 DEF WorkerTake, ControlTypes, LocalQueues, cropVars
    <3> QED
      BY <3>1, <3>2
  <2> QED
    BY <2>3, <2>4
<1>2. ASSUME NEW outcome \in {"success", "fail"}, WorkerFinish(w, outcome)
      PROVE  BasicTypes'
  <2> DEFINE r == [running_task[w] EXCEPT
                     !.building.outcome = outcome,
                     !.progress = IF outcome = "success"
                                  THEN RECONSTRUCTION_SUCCEEDED
                                  ELSE RECONSTRUCTION_FAILED]
  <2>1. running_task[w] \in BuildingObjectRef
    BY <1>2 DEF WorkerFinish, PoolTypes
  <2>2. r \in BuildingObjectRef
    BY <2>1 DEF BuildingObjectRef, Building, Progress
  <2>3. Append(reconstructed_buildings, r) \in Seq(BuildingObjectRef)
    BY <2>2, QueueOps DEF QueueTypes
  <2>4. QueueTypes' /\ TileTypes'
    BY <1>2, <2>3 DEF WorkerFinish, QueueTypes, TileTypes, cropVars, tileVars
  <2>5. PoolTypes'
    BY <1>2 DEF WorkerFinish, PoolTypes
  <2>6. ControlTypes' /\ LocalQueues'
    <3>1. ControlTypes'
      BY <1>2 DEF WorkerFinish, ControlTypes, flagVars
    <3>2. LocalQueues'
      BY <1>2 DEF WorkerFinish, ControlTypes, LocalQueues, cropVars
    <3> QED
      BY <3>1, <3>2
  <2> QED
    BY <2>4, <2>5, <2>6
<1>3. CASE WorkerNotify(w)
  <2>1. QueueTypes' /\ PoolTypes' /\ TileTypes'
    BY <1>3 DEF WorkerNotify, QueueTypes, PoolTypes, TileTypes, cropVars,
                tileVars
  <2>2. ControlTypes' /\ LocalQueues'
    <3>1. ControlTypes'
      BY <1>3 DEF WorkerNotify, Woken, Threads, ControlTypes, flagVars
    <3>2. LocalQueues'
      BY <1>3 DEF WorkerNotify, Woken, Threads, ControlTypes, LocalQueues,
         cropVars
    <3> QED
      BY <3>1, <3>2
  <2> QED
    BY <2>1, <2>2
<1> QED
  BY <1>1, <1>2, <1>3 DEF Worker

LEMMA SorterTypes == TypeOK /\ Sorter => BasicTypes'
<1> SUFFICES ASSUME TypeOK, Sorter
             PROVE  BasicTypes'
  OBVIOUS
<1> USE DEF TypeOK, BasicTypes
<1>1. CASE SorterLock
  <2>1. QueueTypes' /\ PoolTypes' /\ TileTypes'
    BY <1>1, QueueOps DEF SorterLock, QueueTypes, PoolTypes, TileTypes,
                          cropVars, poolVars, tileVars
  <2>2. ControlTypes' /\ LocalQueues'
    <3>1. ControlTypes'
      BY <1>1 DEF SorterLock, Goto, Threads, ControlTypes, flagVars
    <3>2. LocalQueues'
      BY <1>1 DEF SorterLock, Goto, Threads, ControlTypes, LocalQueues,
         cropVars
    <3> QED
      BY <3>1, <3>2
  <2> QED
    BY <2>1, <2>2
<1>2. CASE Block("sorter")
  <2>1. QueueTypes' /\ PoolTypes' /\ TileTypes'
    BY <1>2, ControlStep DEF Block, cropVars
  <2>2. ControlTypes'
    BY <1>2 DEF Block, Goto, Threads, ControlTypes, flagVars
  <2>3. LocalQueues'
    BY <1>2 DEF Block, Goto, Threads, ControlTypes, LocalQueues,
                cropVars, queueVars
  <2> QED
    BY <2>1, <2>2, <2>3
<1>3. CASE SorterPlace
  <2> DEFINE r  == Head(pending_sorted)
             t  == r.tile_id
             ps == [buildings_progresses[t] EXCEPT ![r.building_idx] = r.progress]
             bs == [buildings[t] EXCEPT ![r.building_idx] = r.building]
             finishes == t \in reconstructed_tiles /\ Finished(ps)
  <2>1. r \in BuildingObjectRef /\ Tail(pending_sorted) \in Seq(BuildingObjectRef)
    BY <1>3, QueueOps DEF SorterPlace, QueueTypes, LocalQueues
  <2>2. t \in Tiles /\ r.building \in Building /\ r.progress \in Progress
    BY <2>1 DEF BuildingObjectRef
  <2>3. finished_tile' = IF finishes THEN {t} ELSE {}
    BY <1>3 DEF SorterPlace
  <2>4. pc' = [pc EXCEPT !["sorter"] = IF finishes THEN "handing_over"
                            ELSE AfterSorting(Tail(pending_sorted))]
    BY <1>3 DEF SorterPlace, Goto
  <2>5. QueueTypes' /\ PoolTypes'
    BY <1>3, <2>1, <2>2, <2>3
    DEF SorterPlace, QueueTypes, PoolTypes, cropVars, poolVars
  <2>6. ps \in Seq(Progress) /\ bs \in Seq(Building)
    BY <2>2, SeqExcept DEF TileTypes
  <2>7. \/ UNCHANGED tileVars
        \/ /\ buildings' = [buildings EXCEPT ![t] = bs]
           /\ buildings_progresses' = [buildings_progresses EXCEPT ![t] = ps]
    BY <1>3 DEF SorterPlace
  <2>8. TileTypes'
    BY <1>3, <2>2, <2>6, <2>7 DEF SorterPlace, TileTypes, cropVars, tileVars
  <2>9. pending_sorted' = Tail(pending_sorted)
    BY <1>3 DEF SorterPlace
  <2>10. ControlTypes' /\ LocalQueues'
    <3>1. ControlTypes'
      BY <1>3, <2>3, <2>4, <2>9 DEF SorterPlace, AfterSorting, Threads,
         ControlTypes, flagVars
    <3>2. LocalQueues'
      BY <1>3, <2>3, <2>4, <2>9 DEF SorterPlace, AfterSorting, Threads,
         ControlTypes, LocalQueues, cropVars
    <3> QED
      BY <3>1, <3>2
  <2> QED
    BY <2>5, <2>8, <2>10
<1>4. CASE SorterHandOver
  <2>1. PICK t \in finished_tile : sorted_tiles' = Append(sorted_tiles, t)
    BY <1>4 DEF SorterHandOver
  <2>2. QueueTypes' /\ PoolTypes' /\ TileTypes'
    BY <1>4 DEF SorterHandOver, QueueTypes, PoolTypes, TileTypes,
                      cropVars, poolVars, tileVars
  <2>3. ControlTypes' /\ LocalQueues'
    <3>1. ControlTypes'
      BY <1>4 DEF SorterHandOver, Goto, Threads, ControlTypes, flagVars
    <3>2. LocalQueues'
      BY <1>4 DEF SorterHandOver, Goto, Threads, ControlTypes, LocalQueues,
         cropVars
    <3> QED
      BY <3>1, <3>2
  <2> QED
    BY <2>2, <2>3
<1>5. CASE SorterNotify
  <2>1. QueueTypes' /\ PoolTypes' /\ TileTypes'
    BY <1>5, ControlStep DEF SorterNotify, AfterSorting, cropVars
  <2>2. ControlTypes'
    BY <1>5 DEF SorterNotify, AfterSorting, GotoAndNotify, Woken, Threads, ControlTypes, flagVars
  <2>3. LocalQueues'
    BY <1>5 DEF SorterNotify, AfterSorting, GotoAndNotify, Woken, Threads, ControlTypes, LocalQueues,
                cropVars, queueVars
  <2> QED
    BY <2>1, <2>2, <2>3
<1>6. CASE SorterStop
  <2>1. QueueTypes' /\ PoolTypes' /\ TileTypes'
    BY <1>6, ControlStep DEF SorterStop, cropVars
  <2>2. ControlTypes'
    BY <1>6 DEF SorterStop, Goto, Threads, ControlTypes, flagVars
  <2>3. LocalQueues'
    BY <1>6 DEF SorterStop, Goto, Threads, ControlTypes, LocalQueues,
                cropVars, queueVars
  <2> QED
    BY <2>1, <2>2, <2>3
<1>7. CASE SorterStopNotify
  <2>1. QueueTypes' /\ PoolTypes' /\ TileTypes'
    BY <1>7, ControlStep DEF SorterStopNotify, cropVars
  <2>2. ControlTypes'
    BY <1>7 DEF SorterStopNotify, GotoAndNotify, Woken, Threads, ControlTypes, flagVars
  <2>3. LocalQueues'
    BY <1>7 DEF SorterStopNotify, GotoAndNotify, Woken, Threads, ControlTypes, LocalQueues,
                cropVars, queueVars
  <2> QED
    BY <2>1, <2>2, <2>3
<1> QED
  BY <1>1, <1>2, <1>3, <1>4, <1>5, <1>6, <1>7 DEF Sorter

LEMMA SerializerTypes == TypeOK /\ Serializer => BasicTypes'
<1> SUFFICES ASSUME TypeOK, Serializer
             PROVE  BasicTypes'
  OBVIOUS
<1> USE DEF TypeOK, BasicTypes
<1>1. CASE SerializerLock
  <2>1. QueueTypes' /\ PoolTypes' /\ TileTypes'
    BY <1>1, QueueOps DEF SerializerLock, QueueTypes, PoolTypes, TileTypes,
                          cropVars, poolVars, tileVars
  <2>2. ControlTypes' /\ LocalQueues'
    <3>1. ControlTypes'
      BY <1>1 DEF SerializerLock, Goto, Threads, ControlTypes, flagVars
    <3>2. LocalQueues'
      BY <1>1 DEF SerializerLock, Goto, Threads, ControlTypes, LocalQueues,
         cropVars
    <3> QED
      BY <3>1, <3>2
  <2> QED
    BY <2>1, <2>2
<1>2. CASE Block("serializer")
  <2>1. QueueTypes' /\ PoolTypes' /\ TileTypes'
    BY <1>2, ControlStep DEF Block, cropVars
  <2>2. ControlTypes'
    BY <1>2 DEF Block, Goto, Threads, ControlTypes, flagVars
  <2>3. LocalQueues'
    BY <1>2 DEF Block, Goto, Threads, ControlTypes, LocalQueues,
                cropVars, queueVars
  <2> QED
    BY <2>1, <2>2, <2>3
<1>3. CASE SerializerWrite
  <2> DEFINE t == Head(pending_serialized)
  <2>1. t \in SizedTiles /\ t \in Tiles
    BY <1>3, QueueOps DEF SerializerWrite, SizedQueues, SizedTiles, LocalQueues
  <2>2. WrittenRows(t) \in Seq(Row)
    <3> DEFINE n == BuildingsCnt[t]
    <3>1. n \in Nat
      BY <2>1, TypesOfValues
    <3>2. buildings[t] \in Seq(Building)
      BY <2>1 DEF TileTypes
    <3>3. \A i \in 1..n : buildings[t][i] \in Building
      BY <2>1, <3>2, LenProperties DEF SizedTiles
    <3>4. WrittenRows(t) \in [1..n -> Row]
      BY <3>3 DEF WrittenRows, Row
    <3> QED
      BY <3>1, <3>4, SeqOfFunction
  <2>3. QueueTypes' /\ PoolTypes' /\ TileTypes'
    BY <1>3, <2>1, <2>2 DEF SerializerWrite, QueueTypes, PoolTypes, TileTypes,
                            cropVars, poolVars, tileVars
  <2>4. ControlTypes' /\ LocalQueues'
    <3>1. ControlTypes'
      BY <1>3 DEF SerializerWrite, Goto, Threads, ControlTypes, flagVars
    <3>2. LocalQueues'
      BY <1>3 DEF SerializerWrite, Goto, Threads, ControlTypes, LocalQueues,
         cropVars
    <3> QED
      BY <3>1, <3>2
  <2> QED
    BY <2>3, <2>4
<1>4. CASE SerializerThrow
  <2>1. QueueTypes' /\ PoolTypes' /\ TileTypes'
    BY <1>4, ControlStep DEF SerializerThrow, cropVars
  <2>2. ControlTypes'
    BY <1>4 DEF SerializerThrow, Threads, ControlTypes, flagVars
  <2>3. LocalQueues'
    BY <1>4 DEF SerializerThrow, Threads, ControlTypes, LocalQueues,
                cropVars, queueVars
  <2> QED
    BY <2>1, <2>2, <2>3
<1>5. CASE SerializerStop
  <2>1. QueueTypes' /\ PoolTypes' /\ TileTypes'
    BY <1>5, ControlStep DEF SerializerStop, cropVars
  <2>2. ControlTypes'
    BY <1>5 DEF SerializerStop, Goto, Threads, ControlTypes, flagVars
  <2>3. LocalQueues'
    BY <1>5 DEF SerializerStop, Goto, Threads, ControlTypes, LocalQueues,
                cropVars, queueVars
  <2> QED
    BY <2>1, <2>2, <2>3
<1> QED
  BY <1>1, <1>2, <1>3, <1>4, <1>5 DEF Serializer

LEMMA BasicTypesPreserved == TypeOK /\ [Next]_vars => BasicTypes'
<1> SUFFICES ASSUME TypeOK, [Next]_vars
             PROVE  BasicTypes'
  OBVIOUS
<1> USE DEF TypeOK, BasicTypes
<1>1. CASE TracerFinish
  <2>1. QueueTypes' /\ PoolTypes' /\ TileTypes'
    BY <1>1, ControlStep DEF TracerFinish, cropVars
  <2>2. ControlTypes'
    BY <1>1 DEF TracerFinish, Goto, Threads, ControlTypes, flagVars
  <2>3. LocalQueues'
    BY <1>1 DEF TracerFinish, Goto, Threads, ControlTypes, LocalQueues,
                cropVars, queueVars
  <2> QED
    BY <2>1, <2>2, <2>3
<1>2. CASE MainReturn
  <2>1. QueueTypes' /\ PoolTypes' /\ TileTypes'
    BY <1>2, ControlStep DEF MainReturn, cropVars
  <2>2. ControlTypes'
    BY <1>2 DEF MainReturn, Threads, ControlTypes, flagVars
  <2>3. LocalQueues'
    BY <1>2 DEF MainReturn, Threads, ControlTypes, LocalQueues,
                cropVars, queueVars
  <2> QED
    BY <2>1, <2>2, <2>3
<1>3. ASSUME NEW c \in {"reconstructor", "sorter", "serializer"},
             SpuriousWakeup(c)
      PROVE  BasicTypes'
  <2>1. QueueTypes' /\ PoolTypes' /\ TileTypes'
    BY <1>3, ControlStep DEF SpuriousWakeup, cropVars
  <2>2. ControlTypes'
    BY <1>3 DEF SpuriousWakeup, Goto, Threads, ControlTypes, flagVars
  <2>3. LocalQueues'
    BY <1>3 DEF SpuriousWakeup, Goto, Threads, ControlTypes, LocalQueues,
                cropVars, queueVars
  <2> QED
    BY <2>1, <2>2, <2>3
<1>4. CASE UNCHANGED vars
  <2>1. QueueTypes' /\ PoolTypes' /\ TileTypes'
    BY <1>4, ControlStep DEF vars, cropVars
  <2>2. ControlTypes'
    BY <1>4 DEF vars, Threads, ControlTypes, flagVars
  <2>3. LocalQueues'
    BY <1>4 DEF vars, Threads, ControlTypes, LocalQueues,
                cropVars, queueVars
  <2> QED
    BY <2>1, <2>2, <2>3
<1> QED
  BY <1>1, <1>2, <1>3, <1>4, CropperTypes, ReconstructorTypes, WorkerTypes,
     SorterTypes, SerializerTypes
  DEF Next

\* A tile that has its two vectors sized keeps them sized.
LEMMA SizedTilesGrow == TypeOK /\ [Next]_vars => SizedTiles \subseteq SizedTiles'
<1> SUFFICES ASSUME TypeOK, [Next]_vars
             PROVE  SizedTiles \subseteq SizedTiles'
  OBVIOUS
<1> USE DEF TypeOK, BasicTypes
<1>1. CASE UNCHANGED tileVars
  BY <1>1 DEF tileVars, SizedTiles
<1>2. ASSUME NEW t \in Tiles, NEW bs, NEW ps,
             DOMAIN bs = 1..BuildingsCnt[t], DOMAIN ps = 1..BuildingsCnt[t],
             buildings' = [buildings EXCEPT ![t] = bs],
             buildings_progresses' = [buildings_progresses EXCEPT ![t] = ps]
      PROVE  SizedTiles \subseteq SizedTiles'
  BY <1>2 DEF SizedTiles, TileTypes
<1>3. CASE CropTile
  <2>1. Head(initial_tiles) \in Tiles
    BY <1>3, QueueOps DEF CropTile, QueueTypes
  <2> QED
    BY <1>2, <1>3, <2>1 DEF CropTile, CroppedBuildings
<1>4. CASE ReconstructorDrain
  <2>1. Head(cropped_tiles) \in Tiles
    BY <1>4, QueueOps, TileQueues DEF ReconstructorDrain, LocalQueues
  <2> QED
    BY <1>2, <1>4, <2>1 DEF ReconstructorDrain
<1>5. CASE SorterPlace
  <2> DEFINE r  == Head(pending_sorted)
             t  == r.tile_id
             ps == [buildings_progresses[t] EXCEPT ![r.building_idx] = r.progress]
             bs == [buildings[t] EXCEPT ![r.building_idx] = r.building]
  <2>1. CASE t \in reconstructed_tiles
    <3>1. t \in SizedTiles
      BY <2>1 DEF SizedQueues
    <3>2. /\ buildings' = [buildings EXCEPT ![t] = bs]
          /\ buildings_progresses' = [buildings_progresses EXCEPT ![t] = ps]
      BY <1>5, <2>1 DEF SorterPlace
    <3> QED
      BY <1>2, <3>1, <3>2 DEF SizedTiles
  <2>2. CASE t \notin reconstructed_tiles
    BY <1>1, <1>5, <2>2 DEF SorterPlace
  <2> QED
    BY <2>1, <2>2
<1> QED
  BY <1>1, <1>3, <1>4, <1>5
  DEF Next, Cropper, CropNothing, CropExit, CropperNotify, CropperStop,
      CropperStopNotify, Reconstructor, ReconstructorLock, Block,
      ReconstructorSubmit, ReconstructorJoinPool, ReconstructorStop,
      ReconstructorStopNotify, Worker, WorkerTake, WorkerFinish, WorkerNotify,
      Sorter, SorterLock, SorterHandOver, SorterNotify, SorterStop,
      SorterStopNotify, Serializer, SerializerLock, SerializerWrite,
      SerializerThrow, SerializerStop, TracerFinish, MainReturn,
      SpuriousWakeup, vars

\* Only tiles with sized vectors are queued.
LEMMA SizedQueuesPreserved == TypeOK /\ [Next]_vars => SizedQueues'
<1> SUFFICES ASSUME TypeOK, [Next]_vars
             PROVE  SizedQueues'
  OBVIOUS
<1> USE DEF TypeOK, BasicTypes
<1> DEFINE tileQueues == <<cropped_tiles, reconstructed_tiles, finished_tile,
                           sorted_tiles, pending_serialized>>
<1>1. SizedTiles \subseteq SizedTiles'
  BY SizedTilesGrow
<1>2. /\ cropped_tiles \in Seq(SizedTiles')
      /\ reconstructed_tiles \subseteq SizedTiles'
      /\ finished_tile \subseteq SizedTiles'
      /\ sorted_tiles \in Seq(SizedTiles')
      /\ pending_serialized \in Seq(SizedTiles')
  BY <1>1, SeqMonotonic DEF SizedQueues
<1>3. CASE UNCHANGED tileQueues
  BY <1>2, <1>3 DEF SizedQueues
<1>4. CASE CropTile
  <2> DEFINE t == Head(initial_tiles)
  <2>1. t \in Tiles
    BY <1>4, QueueOps DEF CropTile, QueueTypes
  <2>2. /\ buildings'[t] = [i \in 1..BuildingsCnt[t] |->
                              [id |-> <<t, i>>, outcome |-> "none"]]
        /\ buildings_progresses'[t] =
              [i \in 1..BuildingsCnt[t] |-> CROP_SUCCEEDED]
    BY <1>4, <2>1 DEF CropTile, TileTypes, CroppedBuildings
  <2>3. t \in SizedTiles'
    BY <2>1, <2>2 DEF SizedTiles
  <2>4. Append(cropped_tiles, t) \in Seq(SizedTiles')
    BY <1>2, <2>3, QueueOps
  <2> QED
    BY <1>2, <1>4, <2>4 DEF CropTile, SizedQueues, queueVars
<1>5. CASE ReconstructorDrain
  <2>1. /\ Head(cropped_tiles) \in SizedTiles'
        /\ Tail(cropped_tiles) \in Seq(SizedTiles')
    BY <1>2, <1>5, QueueOps DEF ReconstructorDrain, LocalQueues
  <2> QED
    BY <1>2, <1>5, <2>1 DEF ReconstructorDrain, SizedQueues
<1>6. CASE SorterPlace
  <2>1. /\ UNCHANGED <<cropped_tiles, sorted_tiles, pending_serialized>>
        /\ reconstructed_tiles' \subseteq reconstructed_tiles
        /\ finished_tile' \subseteq reconstructed_tiles
    BY <1>6 DEF SorterPlace, cropVars
  <2> QED
    BY <1>2, <2>1 DEF SizedQueues
<1>7. CASE SorterHandOver
  <2>1. PICK t \in finished_tile : sorted_tiles' = Append(sorted_tiles, t)
    BY <1>7 DEF SorterHandOver
  <2>2. sorted_tiles' \in Seq(SizedTiles')
    BY <1>2, <2>1, QueueOps
  <2> QED
    BY <1>2, <1>7, <2>2 DEF SorterHandOver, SizedQueues, cropVars
<1>8. CASE SerializerLock
  <2>1. <<>> \in Seq(SizedTiles')
    BY <1>2, QueueOps
  <2> QED
    BY <1>2, <1>8, <2>1 DEF SerializerLock, SizedQueues, cropVars
<1>9. CASE SerializerWrite
  <2>1. Tail(pending_serialized) \in Seq(SizedTiles')
    BY <1>2, <1>9, QueueOps DEF SerializerWrite, LocalQueues
  <2> QED
    BY <1>2, <1>9, <2>1 DEF SerializerWrite, SizedQueues, cropVars
<1> QED
  BY <1>3, <1>4, <1>5, <1>6, <1>7, <1>8, <1>9
  DEF Next, Cropper, CropNothing, CropExit, CropperNotify, CropperStop,
      CropperStopNotify, Reconstructor, ReconstructorLock, Block,
      ReconstructorSubmit, ReconstructorJoinPool, ReconstructorStop,
      ReconstructorStopNotify, Worker, WorkerTake, WorkerFinish, WorkerNotify,
      Sorter, SorterLock, SorterNotify, SorterStop, SorterStopNotify,
      Serializer, SerializerThrow, SerializerStop, TracerFinish, MainReturn,
      SpuriousWakeup, vars, cropVars, queueVars

LEMMA TypeInit == Init => TypeOK
<1> SUFFICES ASSUME Init
             PROVE  TypeOK
  OBVIOUS
<1>1. initial_tiles \in [1..NTiles -> Tiles] /\ NTiles \in Nat
  BY PipelineAssumption DEF Init, Tiles
<1>2. initial_tiles \in Seq(Tiles)
  BY <1>1, SeqOfFunction
<1>3. QueueTypes /\ SizedQueues
  BY <1>2, EmptySeq DEF Init, QueueTypes, SizedQueues
<1>4. PoolTypes
  BY EmptySeq DEF Init, PoolTypes
<1>5. TileTypes
  BY EmptySeq DEF Init, TileTypes
<1>6. pc["cropper"] = "cropping" /\ pc = [th \in Threads |-> pc[th]]
  BY DEF Init, Threads
<1>7. pc["tracer"] \in {"absent", "tracing"}
  BY DEF Init, Threads
<1>8. \A c \in {"reconstructor", "sorter", "serializer"} :
        pc[c] \in {"absent", "locking"}
  BY DEF Init, Threads
<1>9. ControlTypes
  BY <1>6, <1>7, <1>8 DEF Init, ControlTypes
<1>10. LocalQueues
  BY <1>6, <1>8 DEF Init, LocalQueues
<1> QED
  BY <1>3, <1>4, <1>5, <1>9, <1>10 DEF TypeOK, BasicTypes

\* Every variable keeps its type, and every queue the part of the code that
\* takes from it expects to be non-empty is non-empty there.
THEOREM TypeCorrect == Spec => []TypeOK
<1>1. Init => TypeOK
  BY TypeInit
<1>2. TypeOK /\ [Next]_vars => TypeOK'
  BY BasicTypesPreserved, SizedQueuesPreserved DEF TypeOK
<1> QED
  BY <1>1, <1>2, PTL DEF Spec

\* One case per action: only the four threads' own stores move a flag, and a
\* stage leaves its loop with the flag before it false and its queue empty.
LEMMA StopPreserved == TypeOK /\ StopInv /\ [Next]_vars => StopInv'
<1> SUFFICES ASSUME TypeOK, StopInv, [Next]_vars
             PROVE  StopInv'
  OBVIOUS
<1>0. ControlTypes /\ LocalQueues /\ worker \in [Workers -> {"idle", "running", "notifying"}]
  BY DEF TypeOK, BasicTypes, PoolTypes
<1> USE DEF ControlTypes, LocalQueues, StopInv, Threads
<1>1. ASSUME NEW result \in {"skipped", "failed"}, CropNothing(result)
      PROVE  StopInv'
  BY <1>0, <1>1 DEF CropNothing, cropVars, queueVars, poolVars, flagVars
<1>2. CASE CropExit
  BY <1>0, <1>2 DEF CropExit, cropVars, queueVars, poolVars, flagVars
<1>3. CASE CropTile
  BY <1>0, <1>3 DEF CropTile, Goto, cropped_tiles_mutex_free, cropVars,
     queueVars, poolVars, flagVars
<1>4. CASE CropperNotify
  BY <1>0, <1>4 DEF CropperNotify, GotoAndNotify, Woken, cropVars,
     queueVars, poolVars, flagVars
<1>5. CASE CropperStop
  BY <1>0, <1>5 DEF CropperStop, Goto, cropVars, queueVars, poolVars,
     flagVars
<1>6. CASE CropperStopNotify
  BY <1>0, <1>6 DEF CropperStopNotify, GotoAndNotify, Woken, cropVars,
     queueVars, poolVars, flagVars
<1>7. CASE ReconstructorLock
  BY <1>0, <1>7 DEF ReconstructorLock, Goto, cropVars, queueVars, poolVars,
     flagVars
<1>8. CASE ReconstructorDrain
  BY <1>0, <1>8 DEF ReconstructorDrain, GotoAndNotify, Woken, cropVars,
     queueVars, poolVars, flagVars
<1>9. CASE ReconstructorSubmit
  BY <1>0, <1>9 DEF ReconstructorSubmit, Goto, cropVars, queueVars,
     poolVars, flagVars
<1>10. CASE ReconstructorJoinPool
  BY <1>0, <1>10 DEF ReconstructorJoinPool, Goto, cropVars, queueVars,
     poolVars, flagVars
<1>11. CASE ReconstructorStop
  BY <1>0, <1>11 DEF ReconstructorStop, Goto, cropVars, queueVars, poolVars,
     flagVars
<1>12. CASE ReconstructorStopNotify
  BY <1>0, <1>12 DEF ReconstructorStopNotify, GotoAndNotify, Woken,
     cropVars, queueVars, poolVars, flagVars
<1>13. ASSUME NEW w \in Workers, WorkerTake(w)
      PROVE  StopInv'
  BY <1>0, <1>13 DEF WorkerTake, cropVars, queueVars, poolVars, flagVars
<1>14. ASSUME NEW w \in Workers, NEW outcome \in {"success", "fail"},
             WorkerFinish(w, outcome)
      PROVE  StopInv'
  BY <1>0, <1>14 DEF WorkerFinish, reconstructed_buildings_mutex_free,
     cropVars, queueVars, poolVars, flagVars
<1>15. ASSUME NEW w \in Workers, WorkerNotify(w)
      PROVE  StopInv'
  BY <1>0, <1>15 DEF WorkerNotify, Woken, cropVars, queueVars, poolVars,
     flagVars
<1>16. CASE SorterLock
  BY <1>0, <1>16 DEF SorterLock, Goto, cropVars, queueVars, poolVars,
     flagVars
<1>17. CASE SorterPlace
  BY <1>0, <1>17 DEF SorterPlace, Goto, AfterSorting, cropVars, queueVars,
     poolVars, flagVars
<1>18. CASE SorterHandOver
  BY <1>0, <1>18 DEF SorterHandOver, Goto, sorted_tiles_mutex_free,
     cropVars, queueVars, poolVars, flagVars
<1>19. CASE SorterNotify
  BY <1>0, <1>19 DEF SorterNotify, GotoAndNotify, Woken, AfterSorting,
     cropVars, queueVars, poolVars, flagVars
<1>20. CASE SorterStop
  BY <1>0, <1>20 DEF SorterStop, Goto, cropVars, queueVars, poolVars,
     flagVars
<1>21. CASE SorterStopNotify
  BY <1>0, <1>21 DEF SorterStopNotify, GotoAndNotify, Woken, cropVars,
     queueVars, poolVars, flagVars
<1>22. CASE SerializerLock
  BY <1>0, <1>22 DEF SerializerLock, Goto, cropVars, queueVars, poolVars,
     flagVars
<1>23. CASE SerializerWrite
  BY <1>0, <1>23 DEF SerializerWrite, Goto, cropVars, queueVars, poolVars,
     flagVars
<1>24. CASE SerializerThrow
  BY <1>0, <1>24 DEF SerializerThrow, cropVars, queueVars, poolVars,
     flagVars
<1>25. CASE SerializerStop
  BY <1>0, <1>25 DEF SerializerStop, Goto, cropVars, queueVars, poolVars,
     flagVars
<1>26. CASE TracerFinish
  BY <1>0, <1>26 DEF TracerFinish, Goto, cropVars, queueVars, poolVars,
     flagVars
<1>27. CASE MainReturn
  BY <1>0, <1>27 DEF MainReturn, Joined, cropVars, queueVars, poolVars,
     flagVars
<1>28. ASSUME NEW c \in {"reconstructor", "sorter", "serializer"},
             Block(c) \/ SpuriousWakeup(c)
      PROVE  StopInv'
  BY <1>0, <1>28 DEF Block, SpuriousWakeup, Goto, cropVars, queueVars,
     poolVars, flagVars
<1>29. CASE UNCHANGED vars
  BY <1>0, <1>29 DEF vars, cropVars, queueVars, poolVars, flagVars
<1> QED
  BY <1>1, <1>2, <1>3, <1>4, <1>5, <1>6, <1>7, <1>8, <1>9, <1>10, <1>11,
     <1>12, <1>13, <1>14, <1>15, <1>16, <1>17, <1>18, <1>19, <1>20, <1>21,
     <1>22, <1>23, <1>24, <1>25, <1>26, <1>27, <1>28, <1>29
  DEF Next, Cropper, Reconstructor, Worker, Sorter, Serializer

\* One case per action: a push needs the mutex a blocking consumer holds, and
\* who pushes notifies before it does anything else.
LEMMA SleepPreserved == TypeOK /\ SleepInv /\ [Next]_vars => SleepInv'
<1> SUFFICES ASSUME TypeOK, SleepInv, [Next]_vars
             PROVE  SleepInv'
  OBVIOUS
<1>0. ControlTypes /\ LocalQueues /\ worker \in [Workers -> {"idle", "running", "notifying"}]
  BY DEF TypeOK, BasicTypes, PoolTypes
<1> USE DEF ControlTypes, LocalQueues, SleepInv, Threads, SleepersAreWoken
<1>1. ASSUME NEW result \in {"skipped", "failed"}, CropNothing(result)
      PROVE  SleepInv'
  BY <1>0, <1>1 DEF CropNothing, cropVars, queueVars, poolVars, flagVars
<1>2. CASE CropExit
  BY <1>0, <1>2 DEF CropExit, cropVars, queueVars, poolVars, flagVars
<1>3. CASE CropTile
  BY <1>0, <1>3 DEF CropTile, Goto, cropped_tiles_mutex_free, cropVars,
     queueVars, poolVars, flagVars
<1>4. CASE CropperNotify
  BY <1>0, <1>4 DEF CropperNotify, GotoAndNotify, Woken, cropVars,
     queueVars, poolVars, flagVars
<1>5. CASE CropperStop
  BY <1>0, <1>5 DEF CropperStop, Goto, cropVars, queueVars, poolVars,
     flagVars
<1>6. CASE CropperStopNotify
  BY <1>0, <1>6 DEF CropperStopNotify, GotoAndNotify, Woken, cropVars,
     queueVars, poolVars, flagVars
<1>7. CASE ReconstructorLock
  BY <1>0, <1>7 DEF ReconstructorLock, Goto, cropVars, queueVars, poolVars,
     flagVars
<1>8. CASE ReconstructorDrain
  BY <1>0, <1>8 DEF ReconstructorDrain, GotoAndNotify, Woken, cropVars,
     queueVars, poolVars, flagVars
<1>9. CASE ReconstructorSubmit
  BY <1>0, <1>9 DEF ReconstructorSubmit, Goto, cropVars, queueVars,
     poolVars, flagVars
<1>10. CASE ReconstructorJoinPool
  BY <1>0, <1>10 DEF ReconstructorJoinPool, Goto, cropVars, queueVars,
     poolVars, flagVars
<1>11. CASE ReconstructorStop
  BY <1>0, <1>11 DEF ReconstructorStop, Goto, cropVars, queueVars, poolVars,
     flagVars
<1>12. CASE ReconstructorStopNotify
  BY <1>0, <1>12 DEF ReconstructorStopNotify, GotoAndNotify, Woken,
     cropVars, queueVars, poolVars, flagVars
<1>13. ASSUME NEW w \in Workers, WorkerTake(w)
      PROVE  SleepInv'
  BY <1>0, <1>13 DEF WorkerTake, cropVars, queueVars, poolVars, flagVars
<1>14. ASSUME NEW w \in Workers, NEW outcome \in {"success", "fail"},
             WorkerFinish(w, outcome)
      PROVE  SleepInv'
  BY <1>0, <1>14 DEF WorkerFinish, reconstructed_buildings_mutex_free,
     cropVars, queueVars, poolVars, flagVars
<1>15. ASSUME NEW w \in Workers, WorkerNotify(w)
      PROVE  SleepInv'
  BY <1>0, <1>15 DEF WorkerNotify, Woken, cropVars, queueVars, poolVars,
     flagVars
<1>16. CASE SorterLock
  BY <1>0, <1>16 DEF SorterLock, Goto, cropVars, queueVars, poolVars,
     flagVars
<1>17. CASE SorterPlace
  BY <1>0, <1>17 DEF SorterPlace, Goto, AfterSorting, cropVars, queueVars,
     poolVars, flagVars
<1>18. CASE SorterHandOver
  BY <1>0, <1>18 DEF SorterHandOver, Goto, sorted_tiles_mutex_free,
     cropVars, queueVars, poolVars, flagVars
<1>19. CASE SorterNotify
  BY <1>0, <1>19 DEF SorterNotify, GotoAndNotify, Woken, AfterSorting,
     cropVars, queueVars, poolVars, flagVars
<1>20. CASE SorterStop
  BY <1>0, <1>20 DEF SorterStop, Goto, cropVars, queueVars, poolVars,
     flagVars
<1>21. CASE SorterStopNotify
  BY <1>0, <1>21 DEF SorterStopNotify, GotoAndNotify, Woken, cropVars,
     queueVars, poolVars, flagVars
<1>22. CASE SerializerLock
  BY <1>0, <1>22 DEF SerializerLock, Goto, cropVars, queueVars, poolVars,
     flagVars
<1>23. CASE SerializerWrite
  BY <1>0, <1>23 DEF SerializerWrite, Goto, cropVars, queueVars, poolVars,
     flagVars
<1>24. CASE SerializerThrow
  BY <1>0, <1>24 DEF SerializerThrow, cropVars, queueVars, poolVars,
     flagVars
<1>25. CASE SerializerStop
  BY <1>0, <1>25 DEF SerializerStop, Goto, cropVars, queueVars, poolVars,
     flagVars
<1>26. CASE TracerFinish
  BY <1>0, <1>26 DEF TracerFinish, Goto, cropVars, queueVars, poolVars,
     flagVars
<1>27. CASE MainReturn
  BY <1>0, <1>27 DEF MainReturn, Joined, cropVars, queueVars, poolVars,
     flagVars
<1>28. ASSUME NEW c \in {"reconstructor", "sorter", "serializer"},
             Block(c) \/ SpuriousWakeup(c)
      PROVE  SleepInv'
  BY <1>0, <1>28 DEF Block, SpuriousWakeup, Goto, cropVars, queueVars,
     poolVars, flagVars
<1>29. CASE UNCHANGED vars
  BY <1>0, <1>29 DEF vars, cropVars, queueVars, poolVars, flagVars
<1> QED
  BY <1>1, <1>2, <1>3, <1>4, <1>5, <1>6, <1>7, <1>8, <1>9, <1>10, <1>11,
     <1>12, <1>13, <1>14, <1>15, <1>16, <1>17, <1>18, <1>19, <1>20, <1>21,
     <1>22, <1>23, <1>24, <1>25, <1>26, <1>27, <1>28, <1>29
  DEF Next, Cropper, Reconstructor, Worker, Sorter, Serializer

\* Main's errors for queues that are not empty after the joins are
\* unreachable: a stage that has stopped left nothing behind it.
THEOREM StoppedDrained == Spec => []StoppedStagesAreDrained
<1>1. Init => StopInv
  BY DEF Init, StopInv, Threads
<1>2. TypeOK /\ StopInv => StoppedStagesAreDrained
  BY DEF TypeOK, BasicTypes, ControlTypes, LocalQueues, StopInv,
     StoppedStagesAreDrained
<1>3. Spec => []StopInv
  <2>1. TypeOK /\ StopInv /\ [Next]_vars => StopInv'
    BY StopPreserved
  <2> QED
    BY <1>1, <2>1, TypeCorrect, PTL DEF Spec
<1> QED
  BY <1>2, <1>3, TypeCorrect, PTL

\* No wakeup for data is lost, for any number of tiles, buildings and pool
\* threads, spurious wakeups included.
THEOREM NoSleeperForgotten == Spec => []SleepersAreWoken
<1>1. Init => SleepInv
  BY DEF Init, SleepInv, SleepersAreWoken, Threads
<1>2. SleepInv => SleepersAreWoken
  BY DEF SleepInv
<1>3. TypeOK /\ SleepInv /\ [Next]_vars => SleepInv'
  BY SleepPreserved
<1> QED
  BY <1>1, <1>2, <1>3, TypeCorrect, PTL DEF Spec

-----------------------------------------------------------------------------
(* Queues without repetition.                                              *)

LEMMA DistinctTail ==
  ASSUME NEW S, NEW q \in Seq(S), q # <<>>, Distinct(q)
  PROVE  Distinct(Tail(q)) /\ Tail(q) \in Seq(S \ {Head(q)})
<1>1. /\ Tail(q) \in Seq(S)
      /\ Len(Tail(q)) = Len(q) - 1
      /\ \A i \in 1..Len(Tail(q)) : Tail(q)[i] = q[i + 1]
  BY HeadTailProperties
<1>2. /\ Len(q) \in Nat \ {0} /\ DOMAIN q = 1..Len(q)
      /\ DOMAIN Tail(q) = 1..Len(Tail(q))
  BY <1>1, LenProperties, EmptySeq
<1>3. Distinct(Tail(q))
  BY <1>1, <1>2 DEF Distinct
<1>4. \A i \in 1..Len(Tail(q)) : Tail(q)[i] # q[1]
  BY <1>1, <1>2 DEF Distinct
<1>5. Head(q) = q[1]
  OBVIOUS
<1>6. Tail(q) \in [1..Len(Tail(q)) -> S \ {Head(q)}]
  BY <1>1, <1>2, <1>4, <1>5, LenProperties
<1>7. Len(Tail(q)) \in Nat
  BY <1>1, LenProperties
<1> QED
  BY <1>3, <1>6, <1>7, SeqOfFunction

LEMMA DistinctAppend ==
  ASSUME NEW S, NEW q \in Seq(S), NEW e, e \notin S, Distinct(q)
  PROVE  Distinct(Append(q, e))
<1>1. q \in Seq(S \cup {e}) /\ e \in S \cup {e}
  BY SeqMonotonic
<1>2. /\ Append(q, e) \in Seq(S \cup {e})
      /\ Len(Append(q, e)) = Len(q) + 1
      /\ \A i \in 1..Len(q) : Append(q, e)[i] = q[i]
      /\ Append(q, e)[Len(q) + 1] = e
  BY <1>1, AppendProperties
<1>3. /\ Len(q) \in Nat /\ DOMAIN q = 1..Len(q)
      /\ DOMAIN Append(q, e) = 1..(Len(q) + 1)
  BY <1>2, LenProperties
<1>4. \A i \in 1..Len(q) : q[i] \in S
  BY ElementOfSeq
<1> QED
  BY <1>2, <1>3, <1>4 DEF Distinct

LEMMA DistinctEmpty == Distinct(<<>>)
BY DEF Distinct

-----------------------------------------------------------------------------
(* The sets of tiles and references.                                       *)

\* They depend on the tiles alone.
LEMMA SameSets ==
  ASSUME UNCHANGED <<crop_log, tileVars>>
  PROVE  /\ Unstarted' = Unstarted /\ Undrained' = Undrained
         /\ Drained' = Drained /\ Complete' = Complete
         /\ OpenRefs' = OpenRefs /\ DecidedRefs' = DecidedRefs
<1>1. buildings' = buildings /\ buildings_progresses' = buildings_progresses /\ crop_log' = crop_log
  BY DEF tileVars
<1>2. Unstarted' = Unstarted /\ Undrained' = Undrained
  BY <1>1 DEF Unstarted, Undrained
<1>3. Drained' = Drained
  BY <1>1 DEF Drained, Empty, Placed
<1>4. Complete' = Complete
  BY <1>1, <1>3 DEF Complete, Placed
<1>5. Refs' = Refs
  BY <1>3 DEF Refs
<1> QED
  BY <1>2, <1>3, <1>4, <1>5 DEF OpenRefs, DecidedRefs

\* More drained tiles admit more references.
LEMMA RefsGrow ==
  ASSUME Drained \subseteq Drained'
  PROVE  /\ OpenRefs \subseteq OpenRefs' /\ DecidedRefs \subseteq DecidedRefs'
BY DEF Refs, OpenRefs, DecidedRefs

\* A step that changes one tile only.
LEMMA OneTileChanges ==
  ASSUME TypeOK, NEW t \in Tiles,
         crop_log' = [crop_log EXCEPT ![t] = crop_log'[t]],
         buildings' = [buildings EXCEPT ![t] = buildings'[t]],
         buildings_progresses' = [buildings_progresses EXCEPT ![t] = buildings_progresses'[t]]
  PROVE  /\ Unstarted \ {t} \subseteq Unstarted'
         /\ Undrained \ {t} \subseteq Undrained'
         /\ Drained \ {t} \subseteq Drained'
         /\ Complete \ {t} \subseteq Complete'
<1>1. ASSUME NEW u \in Tiles \ {t}
      PROVE  /\ crop_log'[u] = crop_log[u] /\ buildings'[u] = buildings[u]
             /\ buildings_progresses'[u] = buildings_progresses[u]
  BY DEF TypeOK, BasicTypes, TileTypes
<1>2. \A u \in Tiles \ {t} : \A i : (Empty(u, i) => Empty(u, i)') /\ (Placed(u, i) => Placed(u, i)')
  BY <1>1 DEF Empty, Placed
<1>3. Unstarted \ {t} \subseteq Unstarted' /\ Undrained \ {t} \subseteq Undrained'
  BY <1>1 DEF Unstarted, Undrained
<1>4. Drained \ {t} \subseteq Drained'
  BY <1>1, <1>2 DEF Drained
<1>5. Complete \ {t} \subseteq Complete'
  BY <1>2, <1>4 DEF Complete, Drained
<1> QED
  BY <1>3, <1>4, <1>5

\* No tile is two of these, for a tile has buildings.
LEMMA StagesDiffer ==
  /\ Unstarted \cap (Undrained \cup Drained) = {}
  /\ Undrained \cap Drained = {}
  /\ Complete \subseteq Drained /\ Drained \subseteq Tiles
  /\ OpenRefs \subseteq BuildingObjectRef /\ DecidedRefs \subseteq BuildingObjectRef
<1>1. \A t \in Tiles : BuildingsCnt[t] \in Nat \ {0} /\ 1 \in 1..BuildingsCnt[t]
  BY PipelineAssumption
<1>2. \A t \in Tiles : \A i \in 1..BuildingsCnt[t] :
        Empty(t, i) \/ Placed(t, i) => buildings_progresses[t][i] # CROP_SUCCEEDED
  BY DEF Empty, Placed, CROP_SUCCEEDED, RECONSTRUCTION_IN_PROGRESS,
         RECONSTRUCTION_SUCCEEDED, RECONSTRUCTION_FAILED
<1>3. Undrained \cap Drained = {}
  BY <1>1, <1>2 DEF Undrained, Drained
<1> QED
  BY <1>3 DEF Unstarted, Undrained, Drained, Complete, Refs, OpenRefs, DecidedRefs

-----------------------------------------------------------------------------
(* Tiles and references are where they should be.                          *)

\* Steps that touch neither tiles nor their queues.
LEMMA OrderControl ==
  ASSUME OrderInv, UNCHANGED <<cropVars, queueVars, tileVars>>,
         (pc["cropper"] = "notifying") <=> (pc["cropper"] = "notifying")'
  PROVE  OrderInv'
<1>1. /\ Unstarted' = Unstarted /\ Undrained' = Undrained
      /\ Drained' = Drained /\ Complete' = Complete
      /\ OpenRefs' = OpenRefs /\ DecidedRefs' = DecidedRefs
  BY SameSets DEF cropVars
<1>2. TilesInOrder'
  BY <1>1 DEF OrderInv, TilesInOrder, Distinct, cropVars, queueVars
<1>3. RefsInOrder'
  BY <1>1 DEF OrderInv, RefsInOrder, queueVars, poolVars
<1> QED
  BY <1>2, <1>3 DEF OrderInv

\* References keep their places while tiles change.
LEMMA RefsKept ==
  ASSUME RefsInOrder, Drained \subseteq Drained',
         UNCHANGED <<cropped_buildings, poolVars, reconstructed_buildings>>
  PROVE  /\ cropped_buildings' \in Seq(OpenRefs')
         /\ tasks' \in Seq(OpenRefs')
         /\ \A w \in Workers : worker'[w] = "running" => running_task'[w] \in OpenRefs'
         /\ reconstructed_buildings' \in Seq(DecidedRefs')
         /\ pending_sorted \in Seq(DecidedRefs')
<1>1. OpenRefs \subseteq OpenRefs' /\ DecidedRefs \subseteq DecidedRefs'
  BY RefsGrow
<1>2. /\ Seq(OpenRefs) \subseteq Seq(OpenRefs')
      /\ Seq(DecidedRefs) \subseteq Seq(DecidedRefs')
  BY <1>1, SeqMonotonic
<1> QED
  BY <1>1, <1>2 DEF RefsInOrder, poolVars

\* The cropper is done with the first tile.
LEMMA CropNothingOrder ==
  ASSUME TypeOK, OrderInv, NEW result \in {"skipped", "failed"}, CropNothing(result)
  PROVE  OrderInv'
<1> DEFINE t == Head(initial_tiles)
<1>1. initial_tiles \in Seq(Unstarted) /\ initial_tiles # <<>> /\ Distinct(initial_tiles)
  BY DEF OrderInv, TilesInOrder, CropNothing
<1>2. /\ Distinct(Tail(initial_tiles)) /\ Tail(initial_tiles) \in Seq(Unstarted \ {t})
      /\ t \in Unstarted
  BY <1>1, DistinctTail, QueueOps
<1>3. t \in Tiles /\ t \notin Undrained /\ t \notin Drained /\ t \notin Complete
  BY <1>2, StagesDiffer DEF Unstarted
<1>4. /\ Unstarted \ {t} \subseteq Unstarted' /\ Undrained \subseteq Undrained'
      /\ Drained \subseteq Drained' /\ Complete \subseteq Complete'
  BY <1>3, OneTileChanges DEF CropNothing, tileVars, TypeOK, BasicTypes, TileTypes
<1>5. /\ Seq(Unstarted \ {t}) \subseteq Seq(Unstarted') /\ Seq(Undrained) \subseteq Seq(Undrained')
      /\ Seq(Complete) \subseteq Seq(Complete')
  BY <1>4, SeqMonotonic
<1>6. TilesInOrder'
  BY <1>2, <1>4, <1>5 DEF OrderInv, TilesInOrder, CropNothing, queueVars, Distinct
<1>7. RefsInOrder'
  BY <1>4, RefsKept DEF OrderInv, RefsInOrder, CropNothing, queueVars
<1> QED
  BY <1>6, <1>7 DEF OrderInv

LEMMA CropTileOrder == TypeOK /\ OrderInv /\ CropTile => OrderInv'
<1> SUFFICES ASSUME TypeOK, OrderInv, CropTile
             PROVE  OrderInv'
  OBVIOUS
<1> DEFINE t == Head(initial_tiles)
<1>1. initial_tiles \in Seq(Unstarted) /\ initial_tiles # <<>> /\ Distinct(initial_tiles)
  BY DEF OrderInv, TilesInOrder, CropTile
<1>2. /\ Distinct(Tail(initial_tiles)) /\ Tail(initial_tiles) \in Seq(Unstarted \ {t})
      /\ t \in Unstarted
  BY <1>1, DistinctTail, QueueOps
<1>3. t \in Tiles /\ t \notin Undrained /\ t \notin Drained /\ t \notin Complete
  BY <1>2, StagesDiffer DEF Unstarted
<1>4. /\ crop_log' = [crop_log EXCEPT ![t] = "cropped"]
      /\ buildings' = [buildings EXCEPT ![t] = CroppedBuildings(t)]
      /\ buildings_progresses' =
           [buildings_progresses EXCEPT ![t] = [i \in 1..BuildingsCnt[t] |-> CROP_SUCCEEDED]]
      /\ cropped_tiles' = Append(cropped_tiles, t)
      /\ pc' = [pc EXCEPT !["cropper"] = "notifying"]
  BY DEF CropTile, Goto
<1>5. /\ crop_log'[t] = "cropped" /\ buildings'[t] = CroppedBuildings(t)
      /\ buildings_progresses'[t] = [i \in 1..BuildingsCnt[t] |-> CROP_SUCCEEDED]
  BY <1>3, <1>4 DEF TypeOK, BasicTypes, TileTypes
<1>6. /\ Unstarted \ {t} \subseteq Unstarted' /\ Undrained \subseteq Undrained'
      /\ Drained \subseteq Drained' /\ Complete \subseteq Complete'
  BY <1>3, <1>4, <1>5, OneTileChanges
<1>7. t \in Undrained'
  BY <1>3, <1>5 DEF Undrained, CroppedBuildings
<1>8. /\ Seq(Unstarted \ {t}) \subseteq Seq(Unstarted') /\ Seq(Undrained) \subseteq Seq(Undrained')
      /\ Seq(Complete) \subseteq Seq(Complete')
  BY <1>6, SeqMonotonic
<1>9. cropped_tiles' \in Seq(Undrained') /\ Distinct(cropped_tiles')
  <2>1. cropped_tiles \in Seq(Undrained) /\ Distinct(cropped_tiles)
    BY DEF OrderInv, TilesInOrder
  <2> QED
    BY <1>3, <1>4, <1>7, <1>8, <2>1, DistinctAppend, QueueOps
<1>10. pc'["cropper"] = "notifying"
  BY <1>4 DEF TypeOK, BasicTypes, ControlTypes, Threads
<1>11. TilesInOrder'
  BY <1>1, <1>2, <1>6, <1>8, <1>9, <1>10
  DEF OrderInv, TilesInOrder, CropTile, queueVars, Distinct
<1>12. RefsInOrder'
  BY <1>6, RefsKept DEF OrderInv, RefsInOrder, CropTile, queueVars
<1> QED
  BY <1>11, <1>12 DEF OrderInv

LEMMA CropperNotifyOrder == TypeOK /\ OrderInv /\ CropperNotify => OrderInv'
<1> SUFFICES ASSUME TypeOK, OrderInv, CropperNotify
             PROVE  OrderInv'
  OBVIOUS
<1>1. /\ Unstarted' = Unstarted /\ Undrained' = Undrained
      /\ Drained' = Drained /\ Complete' = Complete
      /\ OpenRefs' = OpenRefs /\ DecidedRefs' = DecidedRefs
  BY SameSets DEF CropperNotify
<1>2. initial_tiles # <<>> /\ initial_tiles \in Seq(Tiles) /\ Distinct(initial_tiles)
  BY DEF CropperNotify, TypeOK, BasicTypes, LocalQueues, QueueTypes, OrderInv, TilesInOrder
<1>3. Distinct(Tail(initial_tiles))
  BY <1>2, DistinctTail
<1>4. Tail(initial_tiles) \in Seq(Unstarted)
  BY DEF CropperNotify, OrderInv, TilesInOrder
<1>5. pc'["cropper"] # "notifying"
  BY DEF CropperNotify, GotoAndNotify, TypeOK, BasicTypes, ControlTypes, Threads
<1>6. TilesInOrder'
  BY <1>1, <1>3, <1>4, <1>5 DEF OrderInv, TilesInOrder, CropperNotify, queueVars, Distinct
<1>7. RefsInOrder'
  BY <1>1 DEF OrderInv, RefsInOrder, CropperNotify, queueVars, poolVars
<1> QED
  BY <1>6, <1>7 DEF OrderInv

\* A tile is taken from cropped_tiles, its slots are emptied and there is a
\* reference for each of its buildings.
LEMMA DrainOrder == TypeOK /\ OrderInv /\ ReconstructorDrain => OrderInv'
<1> SUFFICES ASSUME TypeOK, OrderInv, ReconstructorDrain
             PROVE  OrderInv'
  OBVIOUS
<1> DEFINE t == Head(cropped_tiles)
           n == BuildingsCnt[t]
           refs == [i \in 1..n |->
                      [tile_id |-> t, building_idx |-> i, building |-> buildings[t][i],
                       progress |-> RECONSTRUCTION_IN_PROGRESS]]
<1>1. cropped_tiles \in Seq(Undrained) /\ cropped_tiles # <<>> /\ Distinct(cropped_tiles)
  BY DEF ReconstructorDrain, TypeOK, BasicTypes, LocalQueues, OrderInv, TilesInOrder
<1>2. /\ Distinct(Tail(cropped_tiles)) /\ Tail(cropped_tiles) \in Seq(Undrained \ {t})
      /\ t \in Undrained
  BY <1>1, DistinctTail, QueueOps
<1>3. /\ t \in Tiles /\ t \notin Unstarted /\ t \notin Drained /\ t \notin Complete
      /\ n \in Nat \ {0} /\ crop_log[t] = "cropped" /\ buildings[t] = CroppedBuildings(t)
  BY <1>2, StagesDiffer, TypesOfValues DEF Undrained
<1>4. /\ buildings' = [buildings EXCEPT ![t] = [i \in 1..n |-> NoBuilding]]
      /\ buildings_progresses' =
           [buildings_progresses EXCEPT ![t] = [i \in 1..n |-> RECONSTRUCTION_IN_PROGRESS]]
      /\ crop_log' = crop_log
      /\ cropped_buildings' = cropped_buildings \o refs
      /\ cropped_tiles' = Tail(cropped_tiles)
      /\ reconstructed_tiles' = reconstructed_tiles \cup {t}
  BY DEF ReconstructorDrain
<1>5. /\ buildings'[t] = [i \in 1..n |-> NoBuilding]
      /\ buildings_progresses'[t] = [i \in 1..n |-> RECONSTRUCTION_IN_PROGRESS]
  BY <1>3, <1>4 DEF TypeOK, BasicTypes, TileTypes
<1>6. /\ Unstarted \subseteq Unstarted' /\ Undrained \ {t} \subseteq Undrained'
      /\ Drained \subseteq Drained' /\ Complete \subseteq Complete'
  BY <1>3, <1>4, <1>5, OneTileChanges DEF TypeOK, BasicTypes, TileTypes
<1>7. t \in Drained'
  BY <1>3, <1>4, <1>5 DEF Drained, Empty
<1>8. /\ Seq(Unstarted) \subseteq Seq(Unstarted') /\ Seq(Undrained \ {t}) \subseteq Seq(Undrained')
      /\ Seq(Complete) \subseteq Seq(Complete')
  BY <1>6, SeqMonotonic
<1>9. (pc["cropper"] = "notifying") <=> (pc'["cropper"] = "notifying")
  BY DEF ReconstructorDrain, GotoAndNotify, TypeOK, BasicTypes, ControlTypes, Threads
<1>10. TilesInOrder'
  BY <1>2, <1>4, <1>6, <1>7, <1>8, <1>9
  DEF OrderInv, TilesInOrder, ReconstructorDrain, Distinct
<1>11. ASSUME NEW i \in 1..n
       PROVE  refs[i] \in OpenRefs'
  <2>1. buildings[t][i] = [id |-> <<t, i>>, outcome |-> "none"]
    BY <1>3 DEF CroppedBuildings
  <2>2. buildings[t][i] \in Building
    BY <1>3, <2>1, PipelineAssumption DEF Building, Tiles
  <2> QED
    BY <1>3, <1>7, <2>1, <2>2
    DEF OpenRefs, Refs, BuildingObjectRef, Progress, Tiles
<1>12. refs \in Seq(OpenRefs')
  BY <1>3, <1>11, SeqOfFunction
<1>13. OpenRefs \subseteq OpenRefs' /\ DecidedRefs \subseteq DecidedRefs'
  BY <1>6, RefsGrow
<1>14. Seq(OpenRefs) \subseteq Seq(OpenRefs') /\ Seq(DecidedRefs) \subseteq Seq(DecidedRefs')
  BY <1>13, SeqMonotonic
<1>15. cropped_buildings' \in Seq(OpenRefs')
  BY <1>4, <1>12, <1>14, QueueOps DEF OrderInv, RefsInOrder
<1>16. RefsInOrder'
  BY <1>13, <1>14, <1>15 DEF OrderInv, RefsInOrder, ReconstructorDrain, poolVars
<1> QED
  BY <1>10, <1>16 DEF OrderInv

\* Steps that move references between queues and leave the tiles alone.
LEMMA RefsMove ==
  ASSUME OrderInv, RefsInOrder',
         UNCHANGED <<cropVars, tileVars, reconstructed_tiles, finished_tile, sorted_tiles,
                     pending_serialized>>,
         (pc["cropper"] = "notifying") <=> (pc["cropper"] = "notifying")'
  PROVE  OrderInv'
<1>1. /\ Unstarted' = Unstarted /\ Undrained' = Undrained
      /\ Drained' = Drained /\ Complete' = Complete
  BY SameSets DEF cropVars
<1>2. TilesInOrder'
  BY <1>1 DEF OrderInv, TilesInOrder, Distinct, cropVars
<1> QED
  BY <1>2 DEF OrderInv

LEMMA SubmitOrder == TypeOK /\ OrderInv /\ ReconstructorSubmit => OrderInv'
<1> SUFFICES ASSUME TypeOK, OrderInv, ReconstructorSubmit
             PROVE  OrderInv'
  OBVIOUS
<1>1. OpenRefs' = OpenRefs /\ DecidedRefs' = DecidedRefs
  BY SameSets DEF ReconstructorSubmit, cropVars
<1>2. /\ Tail(cropped_buildings) \in Seq(OpenRefs)
      /\ Append(tasks, Head(cropped_buildings)) \in Seq(OpenRefs)
  BY QueueOps DEF ReconstructorSubmit, OrderInv, RefsInOrder
<1>3. RefsInOrder'
  BY <1>1, <1>2 DEF OrderInv, RefsInOrder, ReconstructorSubmit
<1>4. (pc["cropper"] = "notifying") <=> (pc'["cropper"] = "notifying")
  BY DEF ReconstructorSubmit, Goto, TypeOK, BasicTypes, ControlTypes, Threads
<1> QED
  BY <1>3, <1>4, RefsMove DEF ReconstructorSubmit

LEMMA WorkerOrder ==
  ASSUME TypeOK, OrderInv, NEW w \in Workers, Worker(w)
  PROVE  OrderInv'
<1>1. CASE WorkerTake(w)
  <2>1. OpenRefs' = OpenRefs /\ DecidedRefs' = DecidedRefs
    BY <1>1, SameSets DEF WorkerTake, cropVars
  <2>2. Head(tasks) \in OpenRefs /\ Tail(tasks) \in Seq(OpenRefs)
    BY <1>1, QueueOps DEF WorkerTake, OrderInv, RefsInOrder
  <2>3. RefsInOrder'
    BY <1>1, <2>1, <2>2
    DEF OrderInv, RefsInOrder, WorkerTake, TypeOK, BasicTypes, PoolTypes
  <2> QED
    BY <1>1, <2>3, RefsMove DEF WorkerTake
<1>2. ASSUME NEW outcome \in {"success", "fail"}, WorkerFinish(w, outcome)
      PROVE  OrderInv'
  <2> DEFINE r == [running_task[w] EXCEPT
                     !.building.outcome = outcome,
                     !.progress = IF outcome = "success"
                                  THEN RECONSTRUCTION_SUCCEEDED
                                  ELSE RECONSTRUCTION_FAILED]
  <2>1. OpenRefs' = OpenRefs /\ DecidedRefs' = DecidedRefs
    BY <1>2, SameSets DEF WorkerFinish, cropVars
  <2>2. running_task[w] \in OpenRefs
    BY <1>2 DEF WorkerFinish, OrderInv, RefsInOrder
  <2>3. r \in DecidedRefs
    BY <2>2 DEF OpenRefs, DecidedRefs, Refs, BuildingObjectRef, Building, Progress
  <2>4. Append(reconstructed_buildings, r) \in Seq(DecidedRefs)
    BY <2>3, QueueOps DEF OrderInv, RefsInOrder
  <2>5. RefsInOrder'
    BY <1>2, <2>1, <2>4
    DEF OrderInv, RefsInOrder, WorkerFinish, TypeOK, BasicTypes, PoolTypes
  <2> QED
    BY <1>2, <2>5, RefsMove DEF WorkerFinish
<1>3. CASE WorkerNotify(w)
  <2>1. OpenRefs' = OpenRefs /\ DecidedRefs' = DecidedRefs
    BY <1>3, SameSets DEF WorkerNotify, cropVars
  <2>2. RefsInOrder'
    BY <1>3, <2>1 DEF OrderInv, RefsInOrder, WorkerNotify, TypeOK, BasicTypes, PoolTypes
  <2>3. (pc["cropper"] = "notifying") <=> (pc'["cropper"] = "notifying")
    BY <1>3 DEF WorkerNotify, TypeOK, BasicTypes, ControlTypes, Threads
  <2> QED
    BY <1>3, <2>2, <2>3, RefsMove DEF WorkerNotify
<1> QED
  BY <1>1, <1>2, <1>3 DEF Worker

\* Placing a decided reference fills its slot and touches no other.
LEMMA PlaceFills ==
  ASSUME TypeOK, OrderInv, SorterPlace,
         NEW r, r = Head(pending_sorted), NEW t, t = r.tile_id, t \in reconstructed_tiles
  PROVE  /\ r \in DecidedRefs
         /\ t \in Tiles /\ t \in Drained /\ crop_log' = crop_log
         /\ \A u \in Tiles : DOMAIN buildings'[u] = DOMAIN buildings[u]
         /\ DOMAIN buildings_progresses'[t] = 1..BuildingsCnt[t]
         /\ buildings'[t][r.building_idx] = r.building
         /\ Placed(t, r.building_idx)'
         /\ \A u \in Tiles : \A i \in 1..BuildingsCnt[u] :
              <<u, i>> # <<t, r.building_idx>> =>
                /\ buildings'[u][i] = buildings[u][i]
                /\ buildings_progresses'[u][i] = buildings_progresses[u][i]
<1> DEFINE ps == [buildings_progresses[t] EXCEPT ![r.building_idx] = r.progress]
<1>1. pending_sorted \in Seq(DecidedRefs) /\ pending_sorted # <<>>
  BY DEF OrderInv, RefsInOrder, SorterPlace, TypeOK, BasicTypes, LocalQueues
<1>2. r \in DecidedRefs
  BY <1>1, QueueOps
<1>3. /\ t \in Drained /\ t \in Tiles /\ r.building_idx \in 1..BuildingsCnt[t]
      /\ r.building.id = <<t, r.building_idx>>
  BY <1>2, StagesDiffer DEF DecidedRefs, Refs
<1>4. /\ buildings \in [Tiles -> Seq(Building)] /\ buildings_progresses \in [Tiles -> Seq(Progress)]
      /\ DOMAIN buildings[t] = 1..BuildingsCnt[t] /\ DOMAIN buildings_progresses[t] = 1..BuildingsCnt[t]
  BY <1>3 DEF TypeOK, BasicTypes, TileTypes, SizedQueues, SizedTiles
<1>5. /\ buildings' = [buildings EXCEPT ![t] = [buildings[t] EXCEPT ![r.building_idx] = r.building]]
      /\ buildings_progresses' = [buildings_progresses EXCEPT ![t] = ps]
      /\ crop_log' = crop_log
  BY DEF SorterPlace, cropVars
<1>6. /\ buildings'[t] = [buildings[t] EXCEPT ![r.building_idx] = r.building]
      /\ buildings_progresses'[t] = ps
      /\ \A u \in Tiles \ {t} : buildings'[u] = buildings[u] /\ buildings_progresses'[u] = buildings_progresses[u]
  BY <1>3, <1>4, <1>5
<1>7. \A u \in Tiles : DOMAIN buildings'[u] = DOMAIN buildings[u]
  BY <1>6
<1>8. buildings'[t][r.building_idx] = r.building /\ buildings_progresses'[t][r.building_idx] = r.progress
  BY <1>3, <1>4, <1>6
<1>9. Placed(t, r.building_idx)'
  BY <1>2, <1>3, <1>8 DEF Placed, DecidedRefs
<1>10. \A u \in Tiles : \A i \in 1..BuildingsCnt[u] :
         <<u, i>> # <<t, r.building_idx>> =>
           buildings'[u][i] = buildings[u][i] /\ buildings_progresses'[u][i] = buildings_progresses[u][i]
  <2> SUFFICES ASSUME NEW u \in Tiles, NEW i \in 1..BuildingsCnt[u], <<u, i>> # <<t, r.building_idx>>
               PROVE  /\ buildings'[u][i] = buildings[u][i]
                      /\ buildings_progresses'[u][i] = buildings_progresses[u][i]
    OBVIOUS
  <2>1. CASE u # t
    BY <1>6, <2>1
  <2>2. CASE u = t /\ i # r.building_idx
    BY <1>4, <1>6, <2>2
  <2> QED
    BY <2>1, <2>2
<1>11. DOMAIN buildings_progresses'[t] = 1..BuildingsCnt[t]
  BY <1>4, <1>6
<1> QED
  BY <1>2, <1>3, <1>5, <1>7, <1>8, <1>9, <1>10, <1>11

LEMMA PlaceOrder == TypeOK /\ OrderInv /\ SorterPlace => OrderInv'
<1> SUFFICES ASSUME TypeOK, OrderInv, SorterPlace
             PROVE  OrderInv'
  OBVIOUS
<1>0. PICK r, t : r = Head(pending_sorted) /\ t = r.tile_id
  OBVIOUS
<1>1. /\ (pc["cropper"] = "notifying") <=> (pc'["cropper"] = "notifying")
      /\ pending_sorted \in Seq(DecidedRefs) /\ pending_sorted # <<>>
      /\ Tail(pending_sorted) \in Seq(DecidedRefs)
  <2>1. pending_sorted \in Seq(DecidedRefs) /\ pending_sorted # <<>>
    BY DEF OrderInv, RefsInOrder, SorterPlace, TypeOK, BasicTypes, LocalQueues
  <2> QED
    BY <2>1, QueueOps DEF SorterPlace, Goto, TypeOK, BasicTypes, ControlTypes, Threads
<1>2. CASE t \notin reconstructed_tiles
  <2>1. /\ UNCHANGED tileVars /\ finished_tile' = {} /\ reconstructed_tiles' = reconstructed_tiles
    BY <1>0, <1>2 DEF SorterPlace
  <2>2. /\ Unstarted' = Unstarted /\ Undrained' = Undrained
        /\ Drained' = Drained /\ Complete' = Complete
        /\ OpenRefs' = OpenRefs /\ DecidedRefs' = DecidedRefs
    BY <2>1, SameSets DEF SorterPlace, cropVars
  <2>3. TilesInOrder'
    BY <1>1, <2>1, <2>2 DEF OrderInv, TilesInOrder, SorterPlace, cropVars, Distinct
  <2>4. RefsInOrder'
    BY <1>1, <2>2 DEF OrderInv, RefsInOrder, SorterPlace, poolVars
  <2> QED
    BY <2>3, <2>4 DEF OrderInv
<1>3. CASE t \in reconstructed_tiles
  <2>1. /\ t \in Tiles /\ t \in Drained /\ crop_log' = crop_log
        /\ \A u \in Tiles : DOMAIN buildings'[u] = DOMAIN buildings[u]
        /\ DOMAIN buildings_progresses'[t] = 1..BuildingsCnt[t]
        /\ Placed(t, r.building_idx)'
        /\ \A u \in Tiles : \A i \in 1..BuildingsCnt[u] :
             <<u, i>> # <<t, r.building_idx>> =>
               /\ buildings'[u][i] = buildings[u][i]
               /\ buildings_progresses'[u][i] = buildings_progresses[u][i]
    BY <1>0, <1>3, PlaceFills
  <2>2. \A u \in Tiles : \A i \in 1..BuildingsCnt[u] :
          (Placed(u, i) => Placed(u, i)') /\ (Empty(u, i) => Empty(u, i)' \/ Placed(u, i)')
    BY <2>1 DEF Placed, Empty
  <2>3. Drained \subseteq Drained'
    BY <2>1, <2>2 DEF Drained
  <2>4. Complete \subseteq Complete'
    BY <2>2, <2>3 DEF Complete, Drained
  <2>5. Unstarted \subseteq Unstarted' /\ Undrained \subseteq Undrained'
    <3>1. t \notin Unstarted /\ t \notin Undrained
      BY <2>1, StagesDiffer
    <3>2. \A u \in Tiles \ {t} : buildings'[u] = buildings[u] /\ buildings_progresses'[u] = buildings_progresses[u]
      BY <1>0, <1>3 DEF SorterPlace, TypeOK, BasicTypes, TileTypes
    <3> QED
      BY <2>1, <3>1, <3>2 DEF Unstarted, Undrained
  <2>6. reconstructed_tiles' \subseteq reconstructed_tiles /\ finished_tile' \subseteq Complete'
    <3>1. finished_tile' # {} => finished_tile' = {t} /\ Finished(buildings_progresses'[t])
      BY <1>0, <1>3, <2>1 DEF SorterPlace, TypeOK, BasicTypes, TileTypes
    <3>2. ASSUME Finished(buildings_progresses'[t]), NEW i \in 1..BuildingsCnt[t]
          PROVE  Placed(t, i)'
      <4>1. buildings_progresses'[t][i] # RECONSTRUCTION_IN_PROGRESS
        BY <2>1, <3>2 DEF Finished, RECONSTRUCTION_IN_PROGRESS
      <4>2. Empty(t, i)' \/ Placed(t, i)'
        BY <2>1, <2>3 DEF Drained
      <4> QED
        BY <4>1, <4>2 DEF Empty
    <3>3. Finished(buildings_progresses'[t]) => t \in Complete'
      BY <2>1, <2>3, <3>2 DEF Complete
    <3> QED
      BY <3>1, <3>3 DEF SorterPlace
  <2>7. /\ Seq(Unstarted) \subseteq Seq(Unstarted') /\ Seq(Undrained) \subseteq Seq(Undrained')
        /\ Seq(Complete) \subseteq Seq(Complete')
    BY <2>4, <2>5, SeqMonotonic
  <2>8. TilesInOrder'
    BY <1>1, <2>3, <2>6, <2>7 DEF OrderInv, TilesInOrder, SorterPlace, cropVars, Distinct
  <2>9. DecidedRefs \subseteq DecidedRefs'
    BY <2>3, RefsGrow
  <2>10. Seq(DecidedRefs) \subseteq Seq(DecidedRefs')
    BY <2>9, SeqMonotonic
  <2>11. RefsInOrder'
    BY <1>1, <2>3, <2>10, RefsKept DEF OrderInv, SorterPlace, RefsInOrder
  <2> QED
    BY <2>8, <2>11 DEF OrderInv
<1> QED
  BY <1>2, <1>3

LEMMA SorterOrder == TypeOK /\ OrderInv /\ Sorter => OrderInv'
<1> SUFFICES ASSUME TypeOK, OrderInv, Sorter
             PROVE  OrderInv'
  OBVIOUS
<1>0. \A to : Goto("sorter", to) => ((pc["cropper"] = "notifying") <=> (pc'["cropper"] = "notifying"))
  BY DEF Goto, TypeOK, BasicTypes, ControlTypes, Threads
<1>1. CASE SorterLock
  <2>1. OpenRefs' = OpenRefs /\ DecidedRefs' = DecidedRefs
    BY <1>1, SameSets DEF SorterLock, cropVars
  <2>2. RefsInOrder'
    BY <1>1, <2>1, QueueOps DEF OrderInv, RefsInOrder, SorterLock, poolVars
  <2> QED
    BY <1>0, <1>1, <2>2, RefsMove DEF SorterLock
<1>2. CASE SorterHandOver
  <2>1. /\ Unstarted' = Unstarted /\ Undrained' = Undrained
        /\ Drained' = Drained /\ Complete' = Complete
        /\ OpenRefs' = OpenRefs /\ DecidedRefs' = DecidedRefs
    BY <1>2, SameSets DEF SorterHandOver, cropVars
  <2>2. sorted_tiles' \in Seq(Complete)
    BY <1>2, QueueOps DEF SorterHandOver, OrderInv, TilesInOrder
  <2>3. TilesInOrder'
    BY <1>0, <1>2, <2>1, <2>2 DEF OrderInv, TilesInOrder, SorterHandOver, cropVars, Distinct
  <2>4. RefsInOrder'
    BY <1>2, <2>1 DEF OrderInv, RefsInOrder, SorterHandOver, poolVars
  <2> QED
    BY <2>3, <2>4 DEF OrderInv
<1>3. CASE Block("sorter") \/ SorterStop
  BY <1>0, <1>3, OrderControl DEF Block, SorterStop
<1>4. CASE SorterNotify \/ SorterStopNotify
  <2>1. (pc["cropper"] = "notifying") <=> (pc'["cropper"] = "notifying")
    BY <1>4 DEF SorterNotify, SorterStopNotify, GotoAndNotify, TypeOK, BasicTypes, ControlTypes, Threads
  <2> QED
    BY <1>4, <2>1, OrderControl DEF SorterNotify, SorterStopNotify
<1> QED
  BY <1>1, <1>2, <1>3, <1>4, PlaceOrder DEF Sorter

LEMMA SerializerOrder == TypeOK /\ OrderInv /\ Serializer => OrderInv'
<1> SUFFICES ASSUME TypeOK, OrderInv, Serializer
             PROVE  OrderInv'
  OBVIOUS
<1>0. \A to : Goto("serializer", to) => ((pc["cropper"] = "notifying") <=> (pc'["cropper"] = "notifying"))
  BY DEF Goto, TypeOK, BasicTypes, ControlTypes, Threads
<1>1. CASE SerializerLock \/ SerializerWrite
  <2>1. /\ Unstarted' = Unstarted /\ Undrained' = Undrained
        /\ Drained' = Drained /\ Complete' = Complete
        /\ OpenRefs' = OpenRefs /\ DecidedRefs' = DecidedRefs
    BY <1>1, SameSets DEF SerializerLock, SerializerWrite, cropVars
  <2>2. sorted_tiles' \in Seq(Complete) /\ pending_serialized' \in Seq(Complete)
    <3>1. pending_serialized # <<>> => Tail(pending_serialized) \in Seq(Complete)
      BY QueueOps DEF OrderInv, TilesInOrder
    <3>2. <<>> \in Seq(Complete)
      BY EmptySeq
    <3> QED
      BY <1>1, <3>1, <3>2 DEF SerializerLock, SerializerWrite, OrderInv, TilesInOrder,
                             TypeOK, BasicTypes, LocalQueues
  <2>3. TilesInOrder'
    BY <1>0, <1>1, <2>1, <2>2
    DEF OrderInv, TilesInOrder, SerializerLock, SerializerWrite, cropVars, Distinct
  <2>4. RefsInOrder'
    BY <1>1, <2>1 DEF OrderInv, RefsInOrder, SerializerLock, SerializerWrite, poolVars
  <2> QED
    BY <2>3, <2>4 DEF OrderInv
<1>2. CASE Block("serializer") \/ SerializerThrow \/ SerializerStop
  BY <1>0, <1>2, OrderControl DEF Block, SerializerThrow, SerializerStop
<1> QED
  BY <1>1, <1>2 DEF Serializer

LEMMA OrderPreserved == TypeOK /\ OrderInv /\ [Next]_vars => OrderInv'
<1> SUFFICES ASSUME TypeOK, OrderInv, [Next]_vars
             PROVE  OrderInv'
  OBVIOUS
<1>1. CASE CropExit \/ MainReturn \/ UNCHANGED vars
  BY <1>1, OrderControl DEF CropExit, MainReturn, vars
<1>2. ASSUME \/ CropperStop \/ CropperStopNotify \/ ReconstructorLock \/ ReconstructorJoinPool
             \/ ReconstructorStop \/ ReconstructorStopNotify \/ TracerFinish
             \/ \E c \in {"reconstructor", "sorter", "serializer"} : Block(c) \/ SpuriousWakeup(c)
      PROVE  OrderInv'
  <2>1. (pc["cropper"] = "notifying") <=> (pc'["cropper"] = "notifying")
    BY <1>2 DEF CropperStop, CropperStopNotify, ReconstructorLock, ReconstructorJoinPool,
       ReconstructorStop, ReconstructorStopNotify, TracerFinish, Block, SpuriousWakeup,
       Goto, GotoAndNotify, TypeOK, BasicTypes, ControlTypes, Threads
  <2>2. UNCHANGED <<cropVars, queueVars, tileVars>>
    BY <1>2 DEF CropperStop, CropperStopNotify, ReconstructorLock, ReconstructorJoinPool,
       ReconstructorStop, ReconstructorStopNotify, TracerFinish, Block, SpuriousWakeup
  <2> QED
    BY <2>1, <2>2, OrderControl
<1> QED
  BY <1>1, <1>2, CropNothingOrder, CropTileOrder, CropperNotifyOrder, DrainOrder, SubmitOrder,
     WorkerOrder, SorterOrder, SerializerOrder
  DEF Next, Cropper, Reconstructor

LEMMA OrderInit == Init => OrderInv
<1> SUFFICES ASSUME Init
             PROVE  OrderInv
  OBVIOUS
<1>1. initial_tiles \in [1..NTiles -> Tiles] /\ NTiles \in Nat
  BY PipelineAssumption DEF Init, Tiles
<1>2. Tiles = Unstarted
  BY DEF Init, Unstarted
<1>3. initial_tiles \in Seq(Unstarted)
  BY <1>1, <1>2, SeqOfFunction
<1>4. Distinct(initial_tiles)
  BY DEF Init, Distinct
<1>5. pc["cropper"] # "notifying"
  BY DEF Init, Threads
<1>6. TilesInOrder
  BY <1>3, <1>4, <1>5, DistinctEmpty, EmptySeq DEF Init, TilesInOrder
<1>7. RefsInOrder
  BY EmptySeq DEF Init, RefsInOrder
<1> QED
  BY <1>6, <1>7 DEF OrderInv

LEMMA OrderHolds == Spec => []OrderInv
BY OrderInit, OrderPreserved, TypeCorrect, PTL DEF Spec

\* A tile the sorter lets go has every building in its original place with
\* the outcome its status attribute will report, whatever the order in which
\* the pool threads finish and however the tiles are interleaved.
THEOREM SortedInOrder == Spec => []SortedTilesInOrder
<1>1. OrderInv => SortedTilesInOrder
  <2> SUFFICES ASSUME OrderInv
               PROVE  SortedTilesInOrder
    OBVIOUS
  <2>1. Range(sorted_tiles) \subseteq Complete /\ Range(pending_serialized) \subseteq Complete
    BY ElementOfSeq, LenProperties DEF OrderInv, TilesInOrder, Range
  <2> QED
    BY <2>1 DEF OrderInv, TilesInOrder, SortedTilesInOrder, Complete
<1> QED
  BY <1>1, OrderHolds, PTL

-----------------------------------------------------------------------------
(* Counting references.                                                    *)

LEMMA CarriedFinite ==
  ASSUME NEW S, NEW q \in Seq(S), NEW b
  PROVE  IsFiniteSet(Places(q, b)) /\ CarriedIn(q, b) \in Nat
<1>1. Len(q) \in Nat /\ DOMAIN q = 1..Len(q)
  BY LenProperties
<1>2. IsFiniteSet(1..Len(q)) /\ Places(q, b) \in SUBSET (1..Len(q))
  BY <1>1, FS_Interval DEF Places
<1>3. IsFiniteSet(Places(q, b))
  BY <1>2, FS_Subset
<1> QED
  BY <1>3, FS_CardinalityType DEF CarriedIn

LEMMA CarriedEmpty == \A b : CarriedIn(<<>>, b) = 0
<1>1. \A b : Places(<<>>, b) = {}
  BY DEF Places
<1> QED
  BY <1>1, FS_EmptySet DEF CarriedIn

\* Appending a reference to the building adds one.
LEMMA CarriedAppend ==
  ASSUME NEW S, NEW q \in Seq(S), NEW e \in S, NEW b
  PROVE  CarriedIn(Append(q, e), b) = CarriedIn(q, b) + (IF e.building.id = b THEN 1 ELSE 0)
<1>1. /\ Len(q) \in Nat /\ DOMAIN q = 1..Len(q)
      /\ DOMAIN Append(q, e) = 1..(Len(q) + 1)
      /\ \A k \in 1..Len(q) : Append(q, e)[k] = q[k]
      /\ Append(q, e)[Len(q) + 1] = e
  BY LenProperties, AppendProperties
<1>2. Places(Append(q, e), b) = IF e.building.id = b THEN Places(q, b) \cup {Len(q) + 1}
                                                     ELSE Places(q, b)
  BY <1>1 DEF Places
<1>3. IsFiniteSet(Places(q, b)) /\ Len(q) + 1 \notin Places(q, b) /\ CarriedIn(q, b) \in Nat
  BY <1>1, CarriedFinite DEF Places
<1>4. Cardinality(Places(q, b) \cup {Len(q) + 1}) = Cardinality(Places(q, b)) + 1
  BY <1>3, FS_AddElement
<1> QED
  BY <1>2, <1>3, <1>4 DEF CarriedIn

\* Concatenation adds the counts.
LEMMA CarriedConcat ==
  ASSUME NEW S, NEW q \in Seq(S), NEW u \in Seq(S), NEW b
  PROVE  CarriedIn(q \o u, b) = CarriedIn(q, b) + CarriedIn(u, b)
<1> DEFINE moved == {k \in DOMAIN (q \o u) : k > Len(q) /\ (q \o u)[k].building.id = b}
<1>1. /\ Len(q) \in Nat /\ DOMAIN q = 1..Len(q)
      /\ Len(u) \in Nat /\ DOMAIN u = 1..Len(u)
      /\ DOMAIN (q \o u) = 1..(Len(q) + Len(u))
      /\ \A k \in 1..Len(q) : (q \o u)[k] = q[k]
      /\ \A k \in 1..Len(u) : (q \o u)[k + Len(q)] = u[k]
  BY LenProperties, ConcatProperties
<1>2. Places(q \o u, b) = Places(q, b) \cup moved /\ Places(q, b) \cap moved = {}
  BY <1>1 DEF Places
<1>3. IsFiniteSet(moved) /\ Cardinality(moved) = Cardinality(Places(u, b))
  <2> DEFINE f == [k \in Places(u, b) |-> k + Len(q)]
  <2>1. f \in [Places(u, b) -> moved]
    BY <1>1 DEF Places
  <2>2. \A j, k \in Places(u, b) : f[j] = f[k] => j = k
    BY <1>1 DEF Places
  <2>3. ASSUME NEW m \in moved
        PROVE  \E k \in Places(u, b) : f[k] = m
    <3>1. m - Len(q) \in Places(u, b) /\ f[m - Len(q)] = m
      BY <1>1 DEF Places
    <3> QED
      BY <3>1
  <2>4. f \in Bijection(Places(u, b), moved)
    BY <2>1, <2>2, <2>3 DEF Bijection, Injection, Surjection, IsInjective
  <2> QED
    BY <2>4, CarriedFinite, FS_Bijection DEF ExistsBijection
<1>4. IsFiniteSet(Places(q, b)) /\ CarriedIn(q, b) \in Nat /\ CarriedIn(u, b) \in Nat
  BY CarriedFinite
<1>5. Cardinality(Places(q, b) \cup moved)
        = Cardinality(Places(q, b)) + Cardinality(moved) - Cardinality(Places(q, b) \cap moved)
  BY <1>3, <1>4, FS_Union
<1>6. Cardinality(Places(q, b) \cap moved) = 0
  BY <1>2, FS_EmptySet
<1> HIDE DEF moved
<1> QED
  BY <1>2, <1>3, <1>4, <1>5, <1>6 DEF CarriedIn

\* Taking the first reference to the building takes one.
LEMMA CarriedTail ==
  ASSUME NEW S, NEW q \in Seq(S), q # <<>>, NEW b
  PROVE  /\ CarriedIn(q, b) = CarriedIn(Tail(q), b) + (IF Head(q).building.id = b THEN 1 ELSE 0)
         /\ CarriedIn(Tail(q), b) \in Nat
<1>1. Head(q) \in S /\ Tail(q) \in Seq(S) /\ <<Head(q)>> \in Seq(S) /\ q = <<Head(q)>> \o Tail(q)
  BY HeadTailProperties, ConcatProperties, LenProperties, EmptySeq
<1>2. CarriedIn(q, b) = CarriedIn(<<Head(q)>>, b) + CarriedIn(Tail(q), b)
  BY <1>1, CarriedConcat
<1>3. <<Head(q)>> = Append(<<>>, Head(q)) /\ <<>> \in Seq(S)
  BY EmptySeq
<1>4. CarriedIn(Append(<<>>, Head(q)), b) = CarriedIn(<<>>, b) + (IF Head(q).building.id = b THEN 1 ELSE 0)
  BY <1>1, <1>3, CarriedAppend
<1>5. CarriedIn(<<Head(q)>>, b) = IF Head(q).building.id = b THEN 1 ELSE 0
  BY <1>3, <1>4, CarriedEmpty
<1>6. CarriedIn(Tail(q), b) \in Nat
  BY <1>1, CarriedFinite
<1> QED
  BY <1>2, <1>5, <1>6

\* The six counts are numbers.
LEMMA CountTypes ==
  ASSUME TypeOK, NEW t \in Tiles, NEW b
  PROVE  /\ CarriedIn(cropped_buildings, b) \in Nat /\ CarriedIn(tasks, b) \in Nat
         /\ IsFiniteSet(RunningOn(b)) /\ Cardinality(RunningOn(b)) \in Nat
         /\ CarriedIn(reconstructed_buildings, b) \in Nat /\ CarriedIn(pending_sorted, b) \in Nat
         /\ IsFiniteSet(SlotsOf(t, b)) /\ Cardinality(SlotsOf(t, b)) \in Nat
<1>1. /\ CarriedIn(cropped_buildings, b) \in Nat /\ CarriedIn(tasks, b) \in Nat
      /\ CarriedIn(reconstructed_buildings, b) \in Nat /\ CarriedIn(pending_sorted, b) \in Nat
  BY CarriedFinite DEF TypeOK, BasicTypes, QueueTypes, PoolTypes
<1>2. IsFiniteSet(RunningOn(b))
  <2>1. RunningOn(b) \in SUBSET Workers
    BY DEF RunningOn
  <2> QED
    BY <2>1, PipelineAssumption, FS_Subset
<1>3. IsFiniteSet(SlotsOf(t, b))
  <2>1. buildings[t] \in Seq(Building)
    BY DEF TypeOK, BasicTypes, TileTypes
  <2>2. Len(buildings[t]) \in Nat /\ SlotsOf(t, b) \in SUBSET (1..Len(buildings[t]))
    BY <2>1, LenProperties DEF SlotsOf
  <2>3. IsFiniteSet(1..Len(buildings[t]))
    BY <2>2, FS_Interval
  <2> QED
    BY <2>2, <2>3, FS_Subset
<1> QED
  BY <1>1, <1>2, <1>3, FS_CardinalityType

\* What the slots of a tile carry after it was cropped, and after it was
\* drained.
LEMMA SlotValues ==
  ASSUME NEW t \in Tiles, NEW u \in Tiles, NEW i \in 1..BuildingsCnt[u], NEW f
  PROVE  /\ f = CroppedBuildings(u)
              => {k \in DOMAIN f : f[k].id = <<u, i>>} = {i}
         /\ f = [k \in 1..BuildingsCnt[t] |-> NoBuilding]
              => {k \in DOMAIN f : f[k].id = <<u, i>>} = {}
<1>1. \A k : <<u, k>> = <<u, i>> => k = i
  OBVIOUS
<1>2. ASSUME f = CroppedBuildings(u)
      PROVE  {k \in DOMAIN f : f[k].id = <<u, i>>} = {i}
  <2>1. DOMAIN f = 1..BuildingsCnt[u] /\ \A k \in 1..BuildingsCnt[u] : f[k].id = <<u, k>>
    BY <1>2 DEF CroppedBuildings
  <2> QED
    BY <1>1, <2>1
<1>3. ASSUME f = [k \in 1..BuildingsCnt[t] |-> NoBuilding]
      PROVE  {k \in DOMAIN f : f[k].id = <<u, i>>} = {}
  <2>1. u # 0
    BY PipelineAssumption DEF Tiles
  <2>2. <<0, 0>> # <<u, i>>
    BY <2>1
  <2>3. \A k \in DOMAIN f : f[k].id = <<0, 0>>
    BY <1>3 DEF NoBuilding
  <2> QED
    BY <2>2, <2>3
<1> QED
  BY <1>2, <1>3

\* A step that keeps the count of every building, and opens no tile.
LEMMA OnceKept ==
  ASSUME EachBuildingOnce,
         \A t \in Tiles : crop_log'[t] = "cropped" <=> crop_log[t] = "cropped",
         \A t \in Tiles : \A i \in 1..BuildingsCnt[t] :
           CopiesOf(t, <<t, i>>)' = CopiesOf(t, <<t, i>>)
  PROVE  EachBuildingOnce'
BY DEF EachBuildingOnce

LEMMA OnceControl ==
  ASSUME EachBuildingOnce, UNCHANGED <<queueVars, tileVars>>,
         \A t \in Tiles : crop_log'[t] = "cropped" <=> crop_log[t] = "cropped"
  PROVE  EachBuildingOnce'
<1>1. \A t, b : CopiesOf(t, b)' = CopiesOf(t, b)
  BY DEF CopiesOf, CarriedIn, Places, RunningOn, SlotsOf, queueVars, poolVars, tileVars
<1> QED
  BY <1>1, OnceKept

LEMMA CropTileOnce == TypeOK /\ OrderInv /\ EachBuildingOnce /\ CropTile => EachBuildingOnce'
<1> SUFFICES ASSUME TypeOK, OrderInv, EachBuildingOnce, CropTile
             PROVE  EachBuildingOnce'
  OBVIOUS
<1>0. PICK t : t = Head(initial_tiles)
  OBVIOUS
<1>1. t \in Unstarted
  BY <1>0, QueueOps DEF CropTile, OrderInv, TilesInOrder
<1>2. /\ t \in Tiles /\ crop_log[t] = "none" /\ buildings[t] = <<>>
      /\ crop_log' = [crop_log EXCEPT ![t] = "cropped"]
      /\ buildings' = [buildings EXCEPT ![t] = CroppedBuildings(t)]
      /\ buildings'[t] = CroppedBuildings(t) /\ crop_log'[t] = "cropped"
      /\ UNCHANGED queueVars
  BY <1>0, <1>1 DEF CropTile, Unstarted, TypeOK, BasicTypes, TileTypes
<1>3. \A b : /\ CarriedIn(cropped_buildings, b)' = CarriedIn(cropped_buildings, b)
             /\ CarriedIn(tasks, b)' = CarriedIn(tasks, b)
             /\ RunningOn(b)' = RunningOn(b)
             /\ CarriedIn(reconstructed_buildings, b)' = CarriedIn(reconstructed_buildings, b)
             /\ CarriedIn(pending_sorted, b)' = CarriedIn(pending_sorted, b)
  BY <1>2 DEF CarriedIn, Places, RunningOn, queueVars, poolVars
<1>4. ASSUME NEW u \in Tiles, NEW i \in 1..BuildingsCnt[u]
      PROVE  CopiesOf(u, <<u, i>>)' = IF crop_log'[u] = "cropped" THEN 1 ELSE 0
  <2>1. CASE u # t
    <3>1. crop_log'[u] = crop_log[u] /\ buildings'[u] = buildings[u]
      BY <1>2, <2>1 DEF TypeOK, BasicTypes, TileTypes
    <3>2. SlotsOf(u, <<u, i>>)' = SlotsOf(u, <<u, i>>)
      BY <3>1 DEF SlotsOf
    <3> QED
      BY <1>3, <3>1, <3>2 DEF CopiesOf, EachBuildingOnce
  <2>2. CASE u = t
    <3>1. SlotsOf(u, <<u, i>>) = {} /\ SlotsOf(u, <<u, i>>)' = {i}
      BY <1>2, <2>2, SlotValues DEF SlotsOf
    <3>2. Cardinality(SlotsOf(u, <<u, i>>)) = 0 /\ Cardinality(SlotsOf(u, <<u, i>>)') = 1
      BY <3>1, FS_EmptySet, FS_Singleton
    <3>3. CopiesOf(u, <<u, i>>) = 0
      BY <1>2, <2>2 DEF EachBuildingOnce
    <3>4. CopiesOf(u, <<u, i>>)' = CopiesOf(u, <<u, i>>) + 1
      BY <1>3, <3>2, CountTypes DEF CopiesOf
    <3> QED
      BY <1>2, <2>2, <3>3, <3>4
  <2> QED
    BY <2>1, <2>2
<1> QED
  BY <1>4 DEF EachBuildingOnce

\* The references of a drained tile are its slots.
LEMMA DrainOnce ==
  TypeOK /\ OrderInv /\ EachBuildingOnce /\ ReconstructorDrain => EachBuildingOnce'
<1> SUFFICES ASSUME TypeOK, OrderInv, EachBuildingOnce, ReconstructorDrain
             PROVE  EachBuildingOnce'
  OBVIOUS
<1>0. PICK t : t = Head(cropped_tiles)
  OBVIOUS
<1>1. t \in Undrained
  BY <1>0, QueueOps DEF ReconstructorDrain, OrderInv, TilesInOrder, TypeOK, BasicTypes, LocalQueues
<1> DEFINE n == BuildingsCnt[t]
<1>2. /\ t \in Tiles /\ n \in Nat \ {0} /\ buildings[t] = CroppedBuildings(t)
      /\ t \in SizedTiles
  BY <1>0, <1>1, TypesOfValues, QueueOps
  DEF Undrained, ReconstructorDrain, TypeOK, SizedQueues, BasicTypes, LocalQueues
<1>3. PICK refs \in Seq(BuildingObjectRef) :
        /\ DOMAIN refs = 1..n
        /\ \A k \in 1..n : refs[k].building.id = <<t, k>>
        /\ cropped_buildings' = cropped_buildings \o refs
  <2> DEFINE refs == [k \in 1..n |->
                        [tile_id |-> t, building_idx |-> k, building |-> buildings[t][k],
                         progress |-> RECONSTRUCTION_IN_PROGRESS]]
  <2>1. \A k \in 1..n : buildings[t][k].id = <<t, k>>
    BY <1>2 DEF CroppedBuildings
  <2>2. \A k \in 1..n : buildings[t][k] \in Building
    <3>1. buildings[t] \in Seq(Building) /\ DOMAIN buildings[t] = 1..n
      BY <1>2, TypesOfValues DEF CroppedBuildings
    <3> QED
      BY <3>1, ElementOfSeq, LenProperties
  <2>3. refs \in [1..n -> BuildingObjectRef]
    BY <1>2, <2>2 DEF BuildingObjectRef, Progress
  <2>4. refs \in Seq(BuildingObjectRef)
    BY <1>2, <2>3, SeqOfFunction
  <2>5. cropped_buildings' = cropped_buildings \o refs
    BY <1>0 DEF ReconstructorDrain
  <2> QED
    BY <2>1, <2>4, <2>5
<1>4. /\ crop_log' = crop_log
      /\ buildings'[t] = [i \in 1..n |-> NoBuilding]
      /\ \A u \in Tiles \ {t} : buildings'[u] = buildings[u]
      /\ UNCHANGED <<poolVars, reconstructed_buildings, pending_sorted>>
  BY <1>0, <1>2 DEF ReconstructorDrain, TypeOK, BasicTypes, TileTypes
<1>5. \A b : /\ CarriedIn(tasks, b)' = CarriedIn(tasks, b)
             /\ RunningOn(b)' = RunningOn(b)
             /\ CarriedIn(reconstructed_buildings, b)' = CarriedIn(reconstructed_buildings, b)
             /\ CarriedIn(pending_sorted, b)' = CarriedIn(pending_sorted, b)
  BY <1>4 DEF CarriedIn, Places, RunningOn, poolVars
<1>6. ASSUME NEW u \in Tiles, NEW i \in 1..BuildingsCnt[u]
      PROVE  CopiesOf(u, <<u, i>>)' = CopiesOf(u, <<u, i>>)
  <2> DEFINE b == <<u, i>>
  <2>1. CarriedIn(cropped_buildings', b) = CarriedIn(cropped_buildings, b) + CarriedIn(refs, b)
    BY <1>3, CarriedConcat DEF TypeOK, BasicTypes, QueueTypes
  <2>2. CarriedIn(cropped_buildings, b)' = CarriedIn(cropped_buildings', b)
    BY DEF CarriedIn, Places
  <2>3. CarriedIn(refs, b) \in Nat /\ IsFiniteSet(Places(refs, b))
    BY CarriedFinite
  <2>4. /\ Cardinality(SlotsOf(u, b)) = Cardinality(SlotsOf(u, b)') + CarriedIn(refs, b)
        /\ Cardinality(SlotsOf(u, b)') \in Nat
    <3>1. CASE u # t
      <4>1. SlotsOf(u, b)' = SlotsOf(u, b) /\ Places(refs, b) = {}
        <5>1. \A k : <<t, k>> # b
          BY <3>1
        <5>2. \A k \in DOMAIN refs : refs[k].building.id # b
          BY <1>3, <5>1
        <5>3. buildings'[u] = buildings[u]
          BY <1>4, <3>1
        <5>4. Places(refs, b) = {}
          BY <5>2 DEF Places
        <5> QED
          BY <5>3, <5>4 DEF SlotsOf
      <4>2. CarriedIn(refs, b) = 0
        BY <4>1, FS_EmptySet DEF CarriedIn
      <4> QED
        BY <4>1, <4>2, CountTypes
    <3>2. CASE u = t
      <4>1. SlotsOf(u, b) = {i}
        BY <1>2, <3>2, SlotValues DEF SlotsOf
      <4>2. SlotsOf(u, b)' = {}
        BY <1>4, <3>2, SlotValues DEF SlotsOf
      <4>4. Places(refs, b) = {i}
        <5>1. \A k : <<t, k>> = b => k = i
          BY <3>2
        <5>2. \A k \in DOMAIN refs : refs[k].building.id = <<t, k>>
          BY <1>3
        <5> QED
          BY <1>3, <3>2, <5>1, <5>2 DEF Places
      <4>3. CarriedIn(refs, b) = 1 /\ Cardinality(SlotsOf(u, b)) = 1 /\ Cardinality(SlotsOf(u, b)') = 0
        BY <4>1, <4>2, <4>4, FS_Singleton, FS_EmptySet DEF CarriedIn
      <4> QED
        BY <4>3
    <3> QED
      BY <3>1, <3>2
  <2> QED
    BY <1>5, <2>1, <2>2, <2>3, <2>4, CountTypes DEF CopiesOf
<1> QED
  BY <1>4, <1>6, OnceKept

\* From cropped_buildings into the pool.
LEMMA SubmitOnce == TypeOK /\ EachBuildingOnce /\ ReconstructorSubmit => EachBuildingOnce'
<1> SUFFICES ASSUME TypeOK, EachBuildingOnce, ReconstructorSubmit
             PROVE  EachBuildingOnce'
  OBVIOUS
<1>0. PICK e : e = Head(cropped_buildings)
  OBVIOUS
<1>1. /\ cropped_buildings \in Seq(BuildingObjectRef) /\ cropped_buildings # <<>>
      /\ tasks \in Seq(BuildingObjectRef) /\ e \in BuildingObjectRef
      /\ cropped_buildings' = Tail(cropped_buildings) /\ tasks' = Append(tasks, e)
      /\ UNCHANGED <<cropVars, tileVars, worker, running_task, reconstructed_buildings, pending_sorted>>
  BY <1>0, QueueOps DEF ReconstructorSubmit, TypeOK, BasicTypes, QueueTypes, PoolTypes
<1>2. ASSUME NEW t \in Tiles, NEW b
      PROVE  CopiesOf(t, b)' = CopiesOf(t, b)
  <2>1. /\ CarriedIn(cropped_buildings, b)
             = CarriedIn(cropped_buildings', b) + (IF e.building.id = b THEN 1 ELSE 0)
        /\ CarriedIn(cropped_buildings', b) \in Nat
    BY <1>0, <1>1, CarriedTail
  <2>2. CarriedIn(tasks', b) = CarriedIn(tasks, b) + (IF e.building.id = b THEN 1 ELSE 0)
    BY <1>1, CarriedAppend
  <2>3. /\ RunningOn(b)' = RunningOn(b) /\ SlotsOf(t, b)' = SlotsOf(t, b)
        /\ CarriedIn(reconstructed_buildings, b)' = CarriedIn(reconstructed_buildings, b)
        /\ CarriedIn(pending_sorted, b)' = CarriedIn(pending_sorted, b)
        /\ CarriedIn(cropped_buildings, b)' = CarriedIn(cropped_buildings', b)
        /\ CarriedIn(tasks, b)' = CarriedIn(tasks', b)
    BY <1>1 DEF RunningOn, SlotsOf, CarriedIn, Places, tileVars
  <2> QED
    BY <2>1, <2>2, <2>3, CountTypes DEF CopiesOf
<1> QED
  BY <1>1, <1>2, OnceKept DEF cropVars

\* From the task queue to a pool thread, and from there to the sorter.
LEMMA WorkerOnce ==
  ASSUME TypeOK, EachBuildingOnce, NEW w \in Workers, Worker(w)
  PROVE  EachBuildingOnce'
<1>0. /\ tasks \in Seq(BuildingObjectRef) /\ reconstructed_buildings \in Seq(BuildingObjectRef)
      /\ worker \in [Workers -> {"idle", "running", "notifying"}]
      /\ running_task \in [Workers -> BuildingObjectRef \cup {NoTask}]
      /\ worker[w] = "running" => running_task[w] # NoTask
  BY DEF TypeOK, BasicTypes, QueueTypes, PoolTypes
<1>1. CASE WorkerTake(w)
  <2>0. PICK e : e = Head(tasks)
    OBVIOUS
  <2>1. ASSUME NEW t \in Tiles, NEW b
        PROVE  CopiesOf(t, b)' = CopiesOf(t, b)
    <3>1. /\ CarriedIn(tasks, b) = CarriedIn(tasks', b) + (IF e.building.id = b THEN 1 ELSE 0)
          /\ CarriedIn(tasks', b) \in Nat
      BY <1>0, <1>1, <2>0, CarriedTail DEF WorkerTake
    <3>2. /\ worker'[w] = "running" /\ running_task'[w] = e /\ worker[w] # "running"
          /\ \A v \in Workers \ {w} : worker'[v] = worker[v] /\ running_task'[v] = running_task[v]
      BY <1>0, <1>1, <2>0 DEF WorkerTake
    <3>3. /\ w \notin RunningOn(b)
          /\ RunningOn(b)' = IF e.building.id = b THEN RunningOn(b) \cup {w} ELSE RunningOn(b)
      BY <3>2 DEF RunningOn
    <3>4. Cardinality(RunningOn(b) \cup {w}) = Cardinality(RunningOn(b)) + 1
      BY <3>3, CountTypes, FS_AddElement
    <3>5. Cardinality(RunningOn(b)') = Cardinality(RunningOn(b)) + (IF e.building.id = b THEN 1 ELSE 0)
      BY <3>3, <3>4, CountTypes
    <3>6. /\ SlotsOf(t, b)' = SlotsOf(t, b)
          /\ CarriedIn(cropped_buildings, b)' = CarriedIn(cropped_buildings, b)
          /\ CarriedIn(reconstructed_buildings, b)' = CarriedIn(reconstructed_buildings, b)
          /\ CarriedIn(pending_sorted, b)' = CarriedIn(pending_sorted, b)
          /\ CarriedIn(tasks, b)' = CarriedIn(tasks', b)
      BY <1>1 DEF WorkerTake, SlotsOf, CarriedIn, Places, tileVars
    <3> QED
      BY <3>1, <3>5, <3>6, CountTypes DEF CopiesOf
  <2> QED
    BY <1>1, <2>1, OnceKept DEF WorkerTake, cropVars
<1>2. ASSUME NEW outcome \in {"success", "fail"}, WorkerFinish(w, outcome)
      PROVE  EachBuildingOnce'
  <2>0. PICK e : e = [running_task[w] EXCEPT
                        !.building.outcome = outcome,
                        !.progress = IF outcome = "success"
                                     THEN RECONSTRUCTION_SUCCEEDED
                                     ELSE RECONSTRUCTION_FAILED]
    OBVIOUS
  <2>1. e \in BuildingObjectRef /\ e.building.id = running_task[w].building.id
    <3>1. running_task[w] \in BuildingObjectRef
      BY <1>0, <1>2 DEF WorkerFinish
    <3> QED
      BY <2>0, <3>1 DEF BuildingObjectRef, Building, Progress
  <2>2. ASSUME NEW t \in Tiles, NEW b
        PROVE  CopiesOf(t, b)' = CopiesOf(t, b)
    <3>1. CarriedIn(reconstructed_buildings', b)
            = CarriedIn(reconstructed_buildings, b) + (IF e.building.id = b THEN 1 ELSE 0)
      <4>1. reconstructed_buildings' = Append(reconstructed_buildings, e)
        BY <1>2, <2>0 DEF WorkerFinish
      <4> QED
        BY <1>0, <2>1, <4>1, CarriedAppend
    <3>2. /\ worker[w] = "running" /\ worker'[w] # "running"
          /\ \A v \in Workers \ {w} : worker'[v] = worker[v] /\ running_task'[v] = running_task[v]
      BY <1>0, <1>2 DEF WorkerFinish
    <3>3. /\ w \in RunningOn(b) <=> e.building.id = b
          /\ RunningOn(b)' = RunningOn(b) \ {w}
      BY <2>1, <3>2 DEF RunningOn
    <3>4. Cardinality(RunningOn(b)) = Cardinality(RunningOn(b)') + (IF e.building.id = b THEN 1 ELSE 0)
      <4>1. Cardinality(RunningOn(b) \ {w})
              = IF w \in RunningOn(b) THEN Cardinality(RunningOn(b)) - 1 ELSE Cardinality(RunningOn(b))
        BY CountTypes, FS_RemoveElement
      <4> QED
        BY <3>3, <4>1, CountTypes
    <3>5. /\ SlotsOf(t, b)' = SlotsOf(t, b)
          /\ CarriedIn(cropped_buildings, b)' = CarriedIn(cropped_buildings, b)
          /\ CarriedIn(tasks, b)' = CarriedIn(tasks, b)
          /\ CarriedIn(pending_sorted, b)' = CarriedIn(pending_sorted, b)
          /\ CarriedIn(reconstructed_buildings, b)' = CarriedIn(reconstructed_buildings', b)
      BY <1>2 DEF WorkerFinish, SlotsOf, CarriedIn, Places, tileVars
    <3>6. IsFiniteSet(RunningOn(b)') /\ Cardinality(RunningOn(b)') \in Nat
      BY <3>3, CountTypes, FS_RemoveElement, FS_CardinalityType
    <3> QED
      BY <3>1, <3>4, <3>5, <3>6, CountTypes DEF CopiesOf
  <2> QED
    BY <1>2, <2>2, OnceKept DEF WorkerFinish, cropVars
<1>3. CASE WorkerNotify(w)
  <2>1. \A b : RunningOn(b)' = RunningOn(b)
    BY <1>0, <1>3 DEF WorkerNotify, RunningOn
  <2>2. \A t, b : CopiesOf(t, b)' = CopiesOf(t, b)
    BY <1>3, <2>1 DEF WorkerNotify, CopiesOf, CarriedIn, Places, SlotsOf, tileVars
  <2> QED
    BY <1>3, <2>2, OnceKept DEF WorkerNotify, cropVars
<1> QED
  BY <1>1, <1>2, <1>3 DEF Worker

\* The sorter swaps the whole queue out; its own was empty.
LEMMA SwapOnce == TypeOK /\ EachBuildingOnce /\ SorterLock => EachBuildingOnce'
<1> SUFFICES ASSUME TypeOK, EachBuildingOnce, SorterLock
             PROVE  EachBuildingOnce'
  OBVIOUS
<1>1. pending_sorted = <<>>
  BY DEF SorterLock, TypeOK, BasicTypes, LocalQueues
<1>2. ASSUME NEW t \in Tiles, NEW b
      PROVE  CopiesOf(t, b)' = CopiesOf(t, b)
  <2>1. /\ RunningOn(b)' = RunningOn(b) /\ SlotsOf(t, b)' = SlotsOf(t, b)
        /\ CarriedIn(cropped_buildings, b)' = CarriedIn(cropped_buildings, b)
        /\ CarriedIn(tasks, b)' = CarriedIn(tasks, b)
        /\ CarriedIn(reconstructed_buildings, b)' = CarriedIn(reconstructed_buildings', b)
        /\ CarriedIn(pending_sorted, b)' = CarriedIn(pending_sorted', b)
    BY DEF SorterLock, RunningOn, SlotsOf, CarriedIn, Places, tileVars, poolVars
  <2>2. \/ reconstructed_buildings' = reconstructed_buildings /\ pending_sorted' = pending_sorted
        \/ reconstructed_buildings' = <<>> /\ pending_sorted' = reconstructed_buildings
    BY DEF SorterLock
  <2>3. CarriedIn(<<>>, b) = 0
    BY CarriedEmpty
  <2> QED
    BY <1>1, <2>1, <2>2, <2>3, CountTypes DEF CopiesOf
<1> QED
  BY <1>2, OnceKept DEF SorterLock, cropVars

\* The sorter finds the tile of every reference, and the slot still empty:
\* the tile would be complete, or the slot filled, with a second copy.
LEMMA PlaceFindsSlot ==
  ASSUME TypeOK, OrderInv, NoTileForgotten, EachBuildingOnce, SorterPlace,
         NEW r, r = Head(pending_sorted), NEW t, t = r.tile_id
  PROVE  t \in reconstructed_tiles /\ Empty(t, r.building_idx)
<1>1. pending_sorted \in Seq(DecidedRefs) /\ pending_sorted # <<>>
  BY DEF OrderInv, RefsInOrder, SorterPlace, TypeOK, BasicTypes, LocalQueues
<1>2. r \in DecidedRefs
  BY <1>1, QueueOps
<1>3. /\ t \in Drained /\ t \in Tiles /\ r.building_idx \in 1..BuildingsCnt[t]
      /\ r.building.id = <<t, r.building_idx>> /\ crop_log[t] = "cropped"
      /\ DOMAIN buildings[t] = 1..BuildingsCnt[t]
  BY <1>2, StagesDiffer DEF DecidedRefs, Refs, Drained
<1> DEFINE b == <<t, r.building_idx>>
<1>4. CarriedIn(pending_sorted, b) >= 1
  <2>1. /\ CarriedIn(pending_sorted, b) = CarriedIn(Tail(pending_sorted), b) + 1
        /\ CarriedIn(Tail(pending_sorted), b) \in Nat
    BY <1>1, <1>3, CarriedTail
  <2> QED
    BY <2>1
<1>5. Cardinality(SlotsOf(t, b)) = 0
  <2>1. CopiesOf(t, b) = 1
    BY <1>3 DEF EachBuildingOnce
  <2> QED
    BY <1>3, <1>4, <2>1, CountTypes DEF CopiesOf
<1>6. r.building_idx \notin SlotsOf(t, b)
  BY <1>3, <1>5, CountTypes, FS_EmptySet
<1>7. ~ Placed(t, r.building_idx)
  BY <1>3, <1>6 DEF Placed, SlotsOf
<1>8. t \in reconstructed_tiles
  BY <1>3, <1>7, StagesDiffer DEF NoTileForgotten, Complete
<1> QED
  BY <1>3, <1>7, <1>8 DEF Drained

\* From the sorter's queue back into the tile.
LEMMA PlaceOnce ==
  TypeOK /\ OrderInv /\ NoTileForgotten /\ EachBuildingOnce /\ SorterPlace => EachBuildingOnce'
<1> SUFFICES ASSUME TypeOK, OrderInv, NoTileForgotten, EachBuildingOnce, SorterPlace
             PROVE  EachBuildingOnce'
  OBVIOUS
<1>0. PICK r, t : r = Head(pending_sorted) /\ t = r.tile_id
  OBVIOUS
<1>1. t \in reconstructed_tiles /\ Empty(t, r.building_idx)
  BY <1>0, PlaceFindsSlot
<1>2. /\ r \in DecidedRefs /\ t \in Tiles /\ t \in Drained /\ crop_log' = crop_log
      /\ \A u \in Tiles : DOMAIN buildings'[u] = DOMAIN buildings[u]
      /\ buildings'[t][r.building_idx] = r.building
      /\ \A u \in Tiles : \A i \in 1..BuildingsCnt[u] :
           <<u, i>> # <<t, r.building_idx>> => buildings'[u][i] = buildings[u][i]
  BY <1>0, <1>1, PlaceFills
<1>3. /\ r.building_idx \in 1..BuildingsCnt[t] /\ r.building.id = <<t, r.building_idx>>
      /\ DOMAIN buildings[t] = 1..BuildingsCnt[t]
  BY <1>0, <1>2 DEF DecidedRefs, Refs, Drained
<1>4. pending_sorted \in Seq(DecidedRefs) /\ pending_sorted # <<>>
  BY DEF OrderInv, RefsInOrder, SorterPlace, TypeOK, BasicTypes, LocalQueues
<1>5. ASSUME NEW u \in Tiles, NEW i \in 1..BuildingsCnt[u]
      PROVE  CopiesOf(u, <<u, i>>)' = CopiesOf(u, <<u, i>>)
  <2> DEFINE b == <<u, i>>
  <2>1. /\ CarriedIn(pending_sorted, b)
             = CarriedIn(pending_sorted', b) + (IF r.building.id = b THEN 1 ELSE 0)
        /\ CarriedIn(pending_sorted', b) \in Nat
    BY <1>0, <1>4, CarriedTail DEF SorterPlace
  <2>2. Cardinality(SlotsOf(u, b)') = Cardinality(SlotsOf(u, b)) + (IF r.building.id = b THEN 1 ELSE 0)
    <3>1. CASE u # t
      <4>1. buildings'[u] = buildings[u]
        BY <1>0, <1>1, <1>2, <3>1 DEF SorterPlace, TypeOK, BasicTypes, TileTypes
      <4>2. r.building.id # b /\ SlotsOf(u, b)' = SlotsOf(u, b)
        BY <1>3, <3>1, <4>1 DEF SlotsOf
      <4> QED
        BY <4>2, CountTypes
    <3>2. CASE u = t /\ i # r.building_idx
      <4>1. u # 0
        BY PipelineAssumption DEF Tiles
      <4>2. buildings[t][r.building_idx].id # b /\ buildings'[t][r.building_idx].id # b
        BY <1>1, <1>2, <1>3, <3>2, <4>1 DEF Empty, NoBuilding
      <4>3. \A k \in DOMAIN buildings[t] : k # r.building_idx => buildings'[t][k] = buildings[t][k]
        BY <1>2, <1>3
      <4>4. \A k \in DOMAIN buildings[t] : buildings'[t][k].id = b <=> buildings[t][k].id = b
        BY <4>2, <4>3
      <4>5. SlotsOf(u, b)' = SlotsOf(u, b)
        BY <1>2, <3>2, <4>4 DEF SlotsOf
      <4>6. r.building.id # b
        BY <1>3, <3>2
      <4> QED
        BY <4>5, <4>6, CountTypes
    <3>3. CASE u = t /\ i = r.building_idx
      <4>1. u # 0
        BY PipelineAssumption DEF Tiles
      <4>2. i \notin SlotsOf(u, b)
        BY <1>1, <3>3, <4>1 DEF Empty, NoBuilding, SlotsOf
      <4>3. \A k \in DOMAIN buildings[t] : k # r.building_idx => buildings'[t][k] = buildings[t][k]
        BY <1>2, <1>3
      <4>4. SlotsOf(u, b)' = SlotsOf(u, b) \cup {i}
        BY <1>2, <1>3, <3>3, <4>3 DEF SlotsOf
      <4>5. Cardinality(SlotsOf(u, b) \cup {i}) = Cardinality(SlotsOf(u, b)) + 1
        BY <4>2, CountTypes, FS_AddElement
      <4> QED
        BY <1>3, <3>3, <4>4, <4>5
    <3> QED
      BY <3>1, <3>2, <3>3
  <2>3. /\ RunningOn(b)' = RunningOn(b)
        /\ CarriedIn(cropped_buildings, b)' = CarriedIn(cropped_buildings, b)
        /\ CarriedIn(tasks, b)' = CarriedIn(tasks, b)
        /\ CarriedIn(reconstructed_buildings, b)' = CarriedIn(reconstructed_buildings, b)
        /\ CarriedIn(pending_sorted, b)' = CarriedIn(pending_sorted', b)
    BY DEF SorterPlace, RunningOn, CarriedIn, Places, poolVars
  <2> QED
    BY <2>1, <2>2, <2>3, CountTypes DEF CopiesOf
<1> QED
  BY <1>2, <1>5, OnceKept

\* A tile is given up by one stage only when the next one has it.
LEMMA ForgottenKept ==
  ASSUME NoTileForgotten, UNCHANGED <<crop_log, tileVars, reconstructed_tiles>>
  PROVE  NoTileForgotten'
<1>1. Undrained' = Undrained /\ Complete' = Complete
  BY SameSets
<1> QED
  BY <1>1 DEF NoTileForgotten, tileVars

LEMMA ForgottenPreserved ==
  TypeOK /\ OrderInv /\ NoTileForgotten /\ [Next]_vars => NoTileForgotten'
<1> SUFFICES ASSUME TypeOK, OrderInv, NoTileForgotten, [Next]_vars
             PROVE  NoTileForgotten'
  OBVIOUS
<1>0. crop_log \in [Tiles -> {"none", "skipped", "failed", "cropped"}] /\ buildings \in [Tiles -> Seq(Building)]
  BY DEF TypeOK, BasicTypes, TileTypes
<1>1. ASSUME NEW result \in {"skipped", "failed"}, CropNothing(result)
      PROVE  NoTileForgotten'
  <2>0. PICK t : t = Head(initial_tiles)
    OBVIOUS
  <2>1. t \in Unstarted
    BY <1>1, <2>0, QueueOps DEF CropNothing, OrderInv, TilesInOrder
  <2>2. /\ t \in Tiles /\ crop_log[t] = "none" /\ buildings[t] = <<>>
        /\ t \notin Undrained /\ t \notin Complete
    BY <2>1, StagesDiffer DEF Unstarted
  <2>3. /\ crop_log'[t] = result /\ \A u \in Tiles \ {t} : crop_log'[u] = crop_log[u]
        /\ crop_log' = [crop_log EXCEPT ![t] = crop_log'[t]]
        /\ UNCHANGED tileVars /\ reconstructed_tiles' = reconstructed_tiles
    BY <1>0, <1>1, <2>0, <2>2 DEF CropNothing, queueVars
  <2>4. Undrained \subseteq Undrained' /\ Complete \subseteq Complete'
    BY <2>2, <2>3, OneTileChanges DEF tileVars, TypeOK, BasicTypes, TileTypes
  <2> QED
    BY <2>2, <2>3, <2>4 DEF NoTileForgotten, tileVars
<1>2. CASE CropTile
  <2>0. PICK t : t = Head(initial_tiles)
    OBVIOUS
  <2>1. t \in Unstarted
    BY <1>2, <2>0, QueueOps DEF CropTile, OrderInv, TilesInOrder
  <2>2. t \in Tiles /\ t \notin Undrained /\ t \notin Complete
    BY <2>1, StagesDiffer DEF Unstarted
  <2>3. /\ crop_log' = [crop_log EXCEPT ![t] = "cropped"]
        /\ buildings' = [buildings EXCEPT ![t] = CroppedBuildings(t)]
        /\ buildings_progresses' =
             [buildings_progresses EXCEPT ![t] = [i \in 1..BuildingsCnt[t] |-> CROP_SUCCEEDED]]
        /\ reconstructed_tiles' = reconstructed_tiles
    BY <1>2, <2>0 DEF CropTile, queueVars
  <2>4. /\ crop_log'[t] = "cropped" /\ buildings'[t] = CroppedBuildings(t)
        /\ buildings_progresses'[t] = [i \in 1..BuildingsCnt[t] |-> CROP_SUCCEEDED]
        /\ \A u \in Tiles \ {t} : crop_log'[u] = crop_log[u] /\ buildings'[u] = buildings[u]
    BY <2>2, <2>3 DEF TypeOK, BasicTypes, TileTypes
  <2>5. Undrained \subseteq Undrained' /\ Complete \subseteq Complete'
    BY <2>2, <2>3, <2>4, OneTileChanges
  <2>6. t \in Undrained'
    BY <2>2, <2>4 DEF Undrained, CroppedBuildings
  <2> QED
    BY <2>3, <2>4, <2>5, <2>6 DEF NoTileForgotten
<1>3. CASE ReconstructorDrain
  <2>0. PICK t : t = Head(cropped_tiles)
    OBVIOUS
  <2>1. t \in Undrained
    BY <1>3, <2>0, QueueOps DEF ReconstructorDrain, OrderInv, TilesInOrder, TypeOK, BasicTypes, LocalQueues
  <2>2. t \in Tiles /\ t \notin Complete /\ crop_log[t] = "cropped"
    BY <2>1, StagesDiffer DEF Undrained
  <2>3. /\ crop_log' = crop_log
        /\ reconstructed_tiles' = reconstructed_tiles \cup {t}
        /\ buildings' = [buildings EXCEPT ![t] = [i \in 1..BuildingsCnt[t] |-> NoBuilding]]
        /\ buildings_progresses' =
             [buildings_progresses EXCEPT ![t] = [i \in 1..BuildingsCnt[t] |-> RECONSTRUCTION_IN_PROGRESS]]
    BY <1>3, <2>0 DEF ReconstructorDrain
  <2>4. \A u \in Tiles \ {t} : buildings'[u] = buildings[u]
    BY <1>0, <2>3
  <2>5. Undrained \ {t} \subseteq Undrained' /\ Complete \subseteq Complete'
    BY <2>2, <2>3, OneTileChanges DEF TypeOK, BasicTypes, TileTypes
  <2> QED
    BY <2>2, <2>3, <2>4, <2>5 DEF NoTileForgotten
<1>4. CASE SorterPlace
  <2>0. PICK r, t : r = Head(pending_sorted) /\ t = r.tile_id
    OBVIOUS
  <2>1. CASE t \notin reconstructed_tiles
    BY <1>4, <2>0, <2>1, ForgottenKept DEF SorterPlace, cropVars
  <2>2. CASE t \in reconstructed_tiles
    <3>1. /\ t \in Tiles /\ t \in Drained /\ crop_log' = crop_log
          /\ \A u \in Tiles : DOMAIN buildings'[u] = DOMAIN buildings[u]
          /\ Placed(t, r.building_idx)'
          /\ \A u \in Tiles : \A i \in 1..BuildingsCnt[u] :
               <<u, i>> # <<t, r.building_idx>> =>
                 /\ buildings'[u][i] = buildings[u][i]
                 /\ buildings_progresses'[u][i] = buildings_progresses[u][i]
      BY <1>4, <2>0, <2>2, PlaceFills
    <3>2. \A u \in Tiles \ {t} : buildings'[u] = buildings[u] /\ buildings_progresses'[u] = buildings_progresses[u]
      BY <1>4, <2>0, <2>2 DEF SorterPlace, TypeOK, BasicTypes, TileTypes
    <3>3. Undrained \subseteq Undrained'
      BY <3>1, <3>2, StagesDiffer DEF Undrained
    <3>4. Complete \subseteq Complete'
      BY <3>1 DEF Complete, Drained, Placed
    <3>5. reconstructed_tiles \subseteq reconstructed_tiles' \cup Complete'
      <4>1. reconstructed_tiles' = reconstructed_tiles \ finished_tile'
        BY <1>4 DEF SorterPlace
      <4>2. OrderInv'
        BY <1>4, PlaceOrder
      <4> QED
        BY <4>1, <4>2 DEF OrderInv, TilesInOrder
    <3>6. crop_log[t] = "cropped"
      BY <3>1 DEF Drained
    <3> QED
      BY <3>1, <3>2, <3>3, <3>4, <3>5, <3>6 DEF NoTileForgotten
  <2> QED
    BY <2>1, <2>2
<1>5. CASE \/ CropExit \/ CropperNotify \/ CropperStop \/ CropperStopNotify
           \/ ReconstructorLock \/ ReconstructorSubmit \/ ReconstructorJoinPool
           \/ ReconstructorStop \/ ReconstructorStopNotify
           \/ SorterLock \/ SorterHandOver \/ SorterNotify \/ SorterStop \/ SorterStopNotify
           \/ Serializer \/ TracerFinish \/ MainReturn \/ UNCHANGED vars
           \/ \E w \in Workers : Worker(w)
           \/ \E c \in {"reconstructor", "sorter", "serializer"} : Block(c) \/ SpuriousWakeup(c)
  <2>1. UNCHANGED <<crop_log, tileVars, reconstructed_tiles>>
    BY <1>5 DEF CropExit, CropperNotify, CropperStop, CropperStopNotify, ReconstructorLock,
       ReconstructorSubmit, ReconstructorJoinPool, ReconstructorStop, ReconstructorStopNotify,
       Worker, WorkerTake, WorkerFinish, WorkerNotify, SorterLock, SorterHandOver, SorterNotify,
       SorterStop, SorterStopNotify, Serializer, SerializerLock, SerializerWrite, SerializerThrow,
       SerializerStop, TracerFinish, MainReturn, Block, SpuriousWakeup, vars, cropVars, queueVars
  <2> QED
    BY <2>1, ForgottenKept
<1> QED
  BY <1>1, <1>2, <1>3, <1>4, <1>5 DEF Next, Cropper, Reconstructor, Sorter, Serializer

LEMMA OncePreserved ==
  TypeOK /\ OrderInv /\ NoTileForgotten /\ EachBuildingOnce /\ [Next]_vars => EachBuildingOnce'
<1> SUFFICES ASSUME TypeOK, OrderInv, NoTileForgotten, EachBuildingOnce, [Next]_vars
             PROVE  EachBuildingOnce'
  OBVIOUS
<1>1. ASSUME NEW result \in {"skipped", "failed"}, CropNothing(result)
      PROVE  EachBuildingOnce'
  <2>0. PICK t : t = Head(initial_tiles)
    OBVIOUS
  <2>1. t \in Unstarted
    BY <1>1, <2>0, QueueOps DEF CropNothing, OrderInv, TilesInOrder
  <2>2. \A u \in Tiles : crop_log'[u] = "cropped" <=> crop_log[u] = "cropped"
    BY <1>1, <2>0, <2>1 DEF CropNothing, Unstarted, TypeOK, BasicTypes, TileTypes
  <2> QED
    BY <1>1, <2>2, OnceControl DEF CropNothing
<1>2. CASE \/ CropExit \/ CropperNotify \/ CropperStop \/ CropperStopNotify
           \/ ReconstructorLock \/ ReconstructorJoinPool \/ ReconstructorStop \/ ReconstructorStopNotify
           \/ SorterNotify \/ SorterStop \/ SorterStopNotify
           \/ SerializerThrow \/ SerializerStop \/ TracerFinish \/ MainReturn \/ UNCHANGED vars
           \/ \E c \in {"reconstructor", "sorter", "serializer"} : Block(c) \/ SpuriousWakeup(c)
  <2>1. UNCHANGED <<crop_log, queueVars, tileVars>>
    BY <1>2 DEF CropExit, CropperNotify, CropperStop, CropperStopNotify, ReconstructorLock,
       ReconstructorJoinPool, ReconstructorStop, ReconstructorStopNotify, SorterNotify,
       SorterStop, SorterStopNotify, SerializerThrow, SerializerStop, TracerFinish, MainReturn,
       Block, SpuriousWakeup, vars, cropVars
  <2> QED
    BY <2>1, OnceControl
<1>3. CASE SorterHandOver \/ SerializerLock \/ SerializerWrite
  <2>1. /\ UNCHANGED <<crop_log, tileVars, cropped_buildings, poolVars, reconstructed_buildings,
                       pending_sorted>>
    BY <1>3 DEF SorterHandOver, SerializerLock, SerializerWrite, cropVars
  <2>2. \A t, b : CopiesOf(t, b)' = CopiesOf(t, b)
    BY <2>1 DEF CopiesOf, CarriedIn, Places, RunningOn, SlotsOf, poolVars, tileVars
  <2> QED
    BY <2>1, <2>2, OnceKept
<1> QED
  BY <1>1, <1>2, <1>3, CropTileOnce, DrainOnce, SubmitOnce, WorkerOnce, SwapOnce, PlaceOnce
  DEF Next, Cropper, Reconstructor, Sorter, Serializer

LEMMA OnceInit == Init => NoTileForgotten /\ EachBuildingOnce
<1> SUFFICES ASSUME Init
             PROVE  NoTileForgotten /\ EachBuildingOnce
  OBVIOUS
<1>1. NoTileForgotten
  BY DEF Init, NoTileForgotten
<1>2. ASSUME NEW t \in Tiles, NEW b
      PROVE  CopiesOf(t, b) = 0
  <2>1. /\ CarriedIn(cropped_buildings, b) = 0 /\ CarriedIn(tasks, b) = 0
        /\ CarriedIn(reconstructed_buildings, b) = 0 /\ CarriedIn(pending_sorted, b) = 0
    BY CarriedEmpty DEF Init
  <2>2. RunningOn(b) = {} /\ SlotsOf(t, b) = {}
    BY DEF Init, RunningOn, SlotsOf
  <2>3. Cardinality(RunningOn(b)) = 0 /\ Cardinality(SlotsOf(t, b)) = 0
    BY <2>2, FS_EmptySet
  <2> QED
    BY <2>1, <2>3 DEF CopiesOf
<1>3. \A t \in Tiles : crop_log[t] # "cropped"
  BY DEF Init
<1> QED
  BY <1>1, <1>2, <1>3 DEF EachBuildingOnce

\* No building is lost or doubled on its way through the four queues, the
\* pool threads and back into its tile.
THEOREM NoneLostOrDoubled == Spec => []EachBuildingOnce
BY OnceInit, OncePreserved, ForgottenPreserved, OrderHolds, TypeCorrect, PTL DEF Spec

LEMMA ForgottenHolds == Spec => []NoTileForgotten
BY OnceInit, ForgottenPreserved, OrderHolds, TypeCorrect, PTL DEF Spec

-----------------------------------------------------------------------------
(* What is written stays written.                                          *)

BatchInv ==
  TypeOK /\ OrderInv /\ NoTileForgotten /\ EachBuildingOnce /\ WrittenInOrder

\* Nothing touches a complete tile.
LEMMA CompleteKept ==
  ASSUME BatchInv, [Next]_vars, NEW t \in Complete
  PROVE  /\ crop_log'[t] = crop_log[t] /\ buildings'[t] = buildings[t]
         /\ buildings_progresses'[t] = buildings_progresses[t] /\ t \in Complete'
<1> USE DEF BatchInv
<1>1. t \in Tiles /\ t \in Drained /\ t \notin Unstarted /\ t \notin Undrained
  BY StagesDiffer
<1>2. /\ crop_log'[t] = crop_log[t] /\ buildings'[t] = buildings[t]
      /\ buildings_progresses'[t] = buildings_progresses[t]
  <2>1. ASSUME NEW result \in {"skipped", "failed"}, CropNothing(result)
        PROVE  /\ crop_log'[t] = crop_log[t] /\ UNCHANGED tileVars
    <3>1. Head(initial_tiles) \in Unstarted
      BY <2>1, QueueOps DEF CropNothing, OrderInv, TilesInOrder
    <3> QED
      BY <1>1, <2>1, <3>1 DEF CropNothing, TypeOK, BasicTypes, TileTypes
  <2>2. CASE CropTile
    <3>1. Head(initial_tiles) \in Unstarted
      BY <2>2, QueueOps DEF CropTile, OrderInv, TilesInOrder
    <3> QED
      BY <1>1, <2>2, <3>1 DEF CropTile, TypeOK, BasicTypes, TileTypes
  <2>3. CASE ReconstructorDrain
    <3>1. Head(cropped_tiles) \in Undrained
      BY <2>3, QueueOps DEF ReconstructorDrain, OrderInv, TilesInOrder, TypeOK, BasicTypes, LocalQueues
    <3> QED
      BY <1>1, <2>3, <3>1 DEF ReconstructorDrain, TypeOK, BasicTypes, TileTypes
  <2>4. CASE SorterPlace
    <3>0. PICK r, u : r = Head(pending_sorted) /\ u = r.tile_id
      OBVIOUS
    <3>1. u \in reconstructed_tiles /\ Empty(u, r.building_idx)
      BY <2>4, <3>0, PlaceFindsSlot
    <3>2. r \in DecidedRefs /\ crop_log' = crop_log
      BY <2>4, <3>0, <3>1, PlaceFills
    <3>3. r.building_idx \in 1..BuildingsCnt[u] /\ u \in Tiles
      BY <3>0, <3>2 DEF DecidedRefs, Refs, BuildingObjectRef
    <3>4. ~ Placed(u, r.building_idx)
      BY <3>1, <3>3 DEF Placed, Empty, NoBuilding
    <3>5. u # t
      BY <3>3, <3>4 DEF Complete
    <3> QED
      BY <1>1, <2>4, <3>0, <3>1, <3>2, <3>5 DEF SorterPlace, TypeOK, BasicTypes, TileTypes
  <2>5. CASE \/ CropExit \/ CropperNotify \/ CropperStop \/ CropperStopNotify
             \/ ReconstructorLock \/ ReconstructorSubmit \/ ReconstructorJoinPool
             \/ ReconstructorStop \/ ReconstructorStopNotify
             \/ SorterLock \/ SorterHandOver \/ SorterNotify \/ SorterStop \/ SorterStopNotify
             \/ Serializer \/ TracerFinish \/ MainReturn \/ UNCHANGED vars
             \/ \E w \in Workers : Worker(w)
             \/ \E c \in {"reconstructor", "sorter", "serializer"} : Block(c) \/ SpuriousWakeup(c)
    <3>1. UNCHANGED <<crop_log, tileVars>>
      BY <2>5 DEF CropExit, CropperNotify, CropperStop, CropperStopNotify, ReconstructorLock,
         ReconstructorSubmit, ReconstructorJoinPool, ReconstructorStop, ReconstructorStopNotify,
         Worker, WorkerTake, WorkerFinish, WorkerNotify, SorterLock, SorterHandOver, SorterNotify,
         SorterStop, SorterStopNotify, Serializer, SerializerLock, SerializerWrite, SerializerThrow,
         SerializerStop, TracerFinish, MainReturn, Block, SpuriousWakeup, vars, cropVars
    <3> QED
      BY <3>1 DEF tileVars
  <2> QED
    BY <2>1, <2>2, <2>3, <2>4, <2>5
    DEF Next, Cropper, Reconstructor, Sorter, Serializer, tileVars
<1>3. t \in Complete'
  BY <1>1, <1>2 DEF Complete, Drained, Placed
<1> QED
  BY <1>2, <1>3

\* Only the serializer writes, and it writes complete tiles.
LEMMA WrittenBy ==
  ASSUME BatchInv, [Next]_vars
  PROVE  \/ written' = written
         \/ /\ SerializerWrite
            /\ \E t \in Complete : written' = [written EXCEPT ![t] = WrittenRows(t)]
<1>1. CASE SerializerWrite
  <2>1. pending_serialized \in Seq(Complete) /\ pending_serialized # <<>>
    BY <1>1 DEF SerializerWrite, BatchInv, TypeOK, BasicTypes, LocalQueues, OrderInv, TilesInOrder
  <2>2. Head(pending_serialized) \in Complete
    BY <2>1, QueueOps
  <2> QED
    BY <1>1, <2>2 DEF SerializerWrite
<1>2. CASE ~ SerializerWrite
  BY <1>2 DEF Next, Cropper, CropNothing, CropTile, CropExit, CropperNotify, CropperStop,
     CropperStopNotify, Reconstructor, ReconstructorLock, ReconstructorDrain, ReconstructorSubmit,
     ReconstructorJoinPool, ReconstructorStop, ReconstructorStopNotify,
     Worker, WorkerTake, WorkerFinish, WorkerNotify, Sorter, SorterLock, SorterPlace,
     SorterHandOver, SorterNotify, SorterStop, SorterStopNotify, Serializer, SerializerLock,
     SerializerThrow, SerializerStop, TracerFinish, MainReturn, Block, SpuriousWakeup, vars
<1> QED
  BY <1>1, <1>2

LEMMA WrittenPreserved == BatchInv /\ [Next]_vars => WrittenInOrder'
<1> SUFFICES ASSUME BatchInv, [Next]_vars, NEW t \in Tiles, written'[t] # <<>>
             PROVE  t \in Complete' /\ written'[t] = WrittenRows(t)'
  BY DEF WrittenInOrder
<1>1. t \in Complete /\ written'[t] = WrittenRows(t)
  <2>1. written \in [Tiles -> Seq(Row)]
    BY DEF BatchInv, TypeOK, BasicTypes, TileTypes
  <2>2. CASE written' = written
    BY <2>2 DEF BatchInv, WrittenInOrder
  <2>3. ASSUME NEW u \in Complete, written' = [written EXCEPT ![u] = WrittenRows(u)]
        PROVE  t \in Complete /\ written'[t] = WrittenRows(t)
    BY <2>1, <2>3 DEF BatchInv, WrittenInOrder
  <2> QED
    BY <2>2, <2>3, WrittenBy
<1> QED
  BY <1>1, CompleteKept DEF WrittenRows

LEMMA BatchInvHolds == Spec => []BatchInv
<1>1. Init => WrittenInOrder
  BY DEF Init, WrittenInOrder
<1>2. Spec => [](TypeOK /\ OrderInv /\ NoTileForgotten /\ EachBuildingOnce)
  BY TypeCorrect, OrderHolds, ForgottenHolds, NoneLostOrDoubled, PTL
<1>3. TypeOK /\ OrderInv /\ NoTileForgotten /\ EachBuildingOnce /\ WrittenInOrder /\ [Next]_vars
        => WrittenInOrder'
  BY WrittenPreserved DEF BatchInv
<1>4. TypeOK /\ OrderInv /\ NoTileForgotten /\ EachBuildingOnce /\ WrittenInOrder <=> BatchInv
  BY DEF BatchInv
<1> QED
  BY <1>1, <1>2, <1>3, <1>4, PTL DEF Spec

-----------------------------------------------------------------------------
(* The outcome the abstract batch sees.                                    *)

LEMMA RangeOps ==
  ASSUME NEW S, NEW q \in Seq(S)
  PROVE  /\ \A e \in S : Range(Append(q, e)) = Range(q) \cup {e}
         /\ q # <<>> => Range(q) = {Head(q)} \cup Range(Tail(q))
         /\ Range(<<>>) = {}
<1>1. /\ Len(q) \in Nat /\ DOMAIN q = 1..Len(q) /\ q # <<>> => Len(q) # 0
  BY LenProperties, EmptySeq
<1>2. ASSUME NEW e \in S
      PROVE  Range(Append(q, e)) = Range(q) \cup {e}
  <2>1. /\ DOMAIN Append(q, e) = 1..(Len(q) + 1)
        /\ \A k \in 1..Len(q) : Append(q, e)[k] = q[k]
        /\ Append(q, e)[Len(q) + 1] = e
    BY AppendProperties, LenProperties
  <2> QED
    BY <1>1, <2>1 DEF Range
<1>3. ASSUME q # <<>>
      PROVE  Range(q) = {Head(q)} \cup Range(Tail(q))
  <2>1. /\ DOMAIN Tail(q) = 1..(Len(q) - 1) /\ Head(q) = q[1]
        /\ \A k \in 1..(Len(q) - 1) : Tail(q)[k] = q[k + 1]
    BY <1>3, HeadTailProperties, LenProperties
  <2>2. \A k \in 2..Len(q) : k - 1 \in DOMAIN Tail(q) /\ Tail(q)[k - 1] = q[k]
    BY <1>1, <2>1
  <2>3. Range(q) \subseteq {Head(q)} \cup Range(Tail(q))
    <3> SUFFICES ASSUME NEW k \in 1..Len(q)
                 PROVE  q[k] \in {Head(q)} \cup Range(Tail(q))
      BY <1>1 DEF Range
    <3>1. CASE k = 1
      BY <2>1, <3>1
    <3>2. CASE k # 1
      <4>1. k - 1 \in DOMAIN Tail(q) /\ Tail(q)[k - 1] = q[k]
        BY <1>1, <2>2, <3>2
      <4> QED
        BY <4>1 DEF Range
    <3> QED
      BY <3>1, <3>2
  <2>4. {Head(q)} \cup Range(Tail(q)) \subseteq Range(q)
    BY <1>1, <1>3, <2>1 DEF Range
  <2> QED
    BY <2>3, <2>4
<1>4. Range(<<>>) = {}
  BY DEF Range
<1> QED
  BY <1>2, <1>3, <1>4

\* A queue in which a building is counted zero times does not carry it.
LEMMA CarriedNone ==
  ASSUME NEW S, NEW q \in Seq(S), NEW b, CarriedIn(q, b) = 0
  PROVE  \A r \in Range(q) : r.building.id # b
<1>1. Places(q, b) = {}
  BY CarriedFinite, FS_EmptySet DEF CarriedIn
<1> QED
  BY <1>1 DEF Places, Range

LEMMA OutcomeKept ==
  ASSUME NEW t, NEW i, Decided(t, i)' = Decided(t, i), SlotOutcome(t, i)' = SlotOutcome(t, i)
  PROVE  OutcomeOf(t, i)' = OutcomeOf(t, i)
BY DEF OutcomeOf

\* A building that is counted elsewhere is not in the sorter's queues.
LEMMA NotDecided ==
  ASSUME BatchInv, NEW t \in Tiles, NEW i \in 1..BuildingsCnt[t],
         Cardinality(RunningOn(<<t, i>>)) + Cardinality(SlotsOf(t, <<t, i>>)) # 0
  PROVE  Decided(t, i) = {}
<1>1. CopiesOf(t, <<t, i>>) \in {0, 1}
  BY DEF BatchInv, EachBuildingOnce
<1>2. CarriedIn(reconstructed_buildings, <<t, i>>) = 0 /\ CarriedIn(pending_sorted, <<t, i>>) = 0
  BY <1>1, CountTypes DEF BatchInv, CopiesOf
<1>3. /\ \A r \in Range(reconstructed_buildings) : r.building.id # <<t, i>>
      /\ \A r \in Range(pending_sorted) : r.building.id # <<t, i>>
  BY <1>2, CarriedNone DEF BatchInv, TypeOK, BasicTypes, QueueTypes
<1> QED
  BY <1>3 DEF Decided

\* A drained tile has slots.
LEMMA SlotsThere == \A t \in Drained : buildings[t] # <<>>
<1> SUFFICES ASSUME NEW t \in Drained
             PROVE  buildings[t] # <<>>
  OBVIOUS
<1>1. BuildingsCnt[t] \in Nat \ {0} /\ DOMAIN buildings[t] = 1..BuildingsCnt[t]
  BY PipelineAssumption DEF Drained
<1>2. 1 \in DOMAIN buildings[t]
  BY <1>1
<1> QED
  BY <1>2

\* The slots of a complete tile show the outcome.
LEMMA CompleteOutcome ==
  ASSUME BatchInv, NEW t \in Complete, NEW i \in 1..BuildingsCnt[t]
  PROVE  /\ OutcomeOf(t, i) = buildings[t][i].outcome
         /\ OutcomeOf(t, i) # "none"
<1>1. t \in Tiles /\ DOMAIN buildings[t] = 1..BuildingsCnt[t] /\ Placed(t, i)
  BY DEF Complete, Drained
<1>2. i \in SlotsOf(t, <<t, i>>)
  BY <1>1 DEF SlotsOf, Placed
<1>3. Cardinality(SlotsOf(t, <<t, i>>)) # 0
  BY <1>1, <1>2, CountTypes, FS_EmptySet DEF BatchInv
<1>4. Decided(t, i) = {}
  BY <1>1, <1>3, CountTypes, NotDecided DEF BatchInv
<1>5. buildings[t] # <<>>
  BY SlotsThere, StagesDiffer
<1> QED
  BY <1>1, <1>4, <1>5 DEF OutcomeOf, SlotOutcome, Placed

-----------------------------------------------------------------------------
(* Every step of the pipeline is a step of the batch or none.              *)

LEMMA StageFixed ==
  ASSUME crop_log' = crop_log, written' = written
  PROVE  BatchStage' = BatchStage
BY DEF BatchStage, StageOf

LEMMA OutcomesFixed ==
  ASSUME \A t \in Tiles : \A i \in 1..BuildingsCnt[t] : OutcomeOf(t, i)' = OutcomeOf(t, i)
  PROVE  BatchOutcome' = BatchOutcome
BY DEF BatchOutcome

\* The cropper drops or opens a tile that is still queued.
LEMMA CropStep ==
  ASSUME BatchInv, NEW t \in Unstarted, NEW result \in {"skipped", "failed", "cropped"},
         crop_log' = [crop_log EXCEPT ![t] = result],
         UNCHANGED <<written, reconstructed_buildings, pending_sorted>>,
         \A u \in Tiles : \A i \in 1..BuildingsCnt[u] : SlotOutcome(u, i)' = SlotOutcome(u, i)
  PROVE  Batch!Next
<1>1. t \in Tiles /\ crop_log[t] = "none" /\ t \notin Complete
  BY StagesDiffer DEF Unstarted
<1>2. written[t] = <<>>
  BY <1>1 DEF BatchInv, WrittenInOrder
<1>3. \A u, i : Decided(u, i)' = Decided(u, i)
  BY DEF Decided
<1>4. BatchOutcome' = BatchOutcome
  BY <1>3, OutcomeKept, OutcomesFixed
<1>5. /\ crop_log'[t] = result /\ \A u \in Tiles \ {t} : crop_log'[u] = crop_log[u]
      /\ written' = written
  BY <1>1 DEF BatchInv, TypeOK, BasicTypes, TileTypes
<1>6. /\ StageOf(t) = "queued"
      /\ StageOf(t)' = IF result = "cropped" THEN "open" ELSE "dropped"
      /\ \A u \in Tiles \ {t} : StageOf(u)' = StageOf(u)
  BY <1>1, <1>2, <1>5 DEF StageOf
<1>7. /\ BatchStage[t] = "queued"
      /\ BatchStage' = [BatchStage EXCEPT ![t] = IF result = "cropped" THEN "open" ELSE "dropped"]
  BY <1>1, <1>6 DEF BatchStage
<1>8. Batch!Open(t) \/ Batch!Drop(t)
  BY <1>4, <1>5, <1>7 DEF Batch!Open, Batch!Drop
<1> QED
  BY <1>1, <1>8 DEF Batch!Next

\* A pool thread decides a building of an open tile.
LEMMA DecideStep ==
  ASSUME BatchInv, NEW w \in Workers, NEW o \in {"success", "fail"}, WorkerFinish(w, o)
  PROVE  Batch!Next
<1> USE DEF BatchInv
<1>0. PICK e, r : e = running_task[w] /\ r = [e EXCEPT !.building.outcome = o,
                                                      !.progress = IF o = "success"
                                                                   THEN RECONSTRUCTION_SUCCEEDED
                                                                   ELSE RECONSTRUCTION_FAILED]
  OBVIOUS
<1>1. worker[w] = "running" /\ e \in OpenRefs
  BY <1>0 DEF WorkerFinish, OrderInv, RefsInOrder
<1>2. PICK t \in Tiles, i \in Nat :
        /\ i \in 1..BuildingsCnt[t] /\ t \in Drained
        /\ e.building.id = <<t, i>> /\ e \in BuildingObjectRef
  BY <1>1 DEF OpenRefs, Refs, BuildingObjectRef
<1>3. r \in BuildingObjectRef /\ r.building.id = <<t, i>> /\ r.building.outcome = o
  BY <1>0, <1>2 DEF BuildingObjectRef, Building, Progress
<1>4. /\ reconstructed_buildings' = Append(reconstructed_buildings, r)
      /\ UNCHANGED <<crop_log, written, tileVars, pending_sorted>>
  BY <1>0 DEF WorkerFinish, cropVars
<1>5. Range(reconstructed_buildings') = Range(reconstructed_buildings) \cup {r}
  BY <1>3, <1>4, RangeOps DEF TypeOK, BasicTypes, QueueTypes
<1>6. Cardinality(RunningOn(<<t, i>>)) # 0 /\ Cardinality(RunningOn(<<t, i>>)) \in Nat
  <2>1. w \in RunningOn(<<t, i>>)
    BY <1>0, <1>1, <1>2 DEF RunningOn
  <2> QED
    BY <2>1, CountTypes, FS_EmptySet
<1>7. Decided(t, i) = {}
  BY <1>2, <1>6, CountTypes, NotDecided
<1>8. ~ Placed(t, i)
  <2>1. CASE Placed(t, i)
    <3>1. i \in SlotsOf(t, <<t, i>>)
      BY <1>2, <2>1 DEF Drained, SlotsOf, Placed
    <3>2. Cardinality(SlotsOf(t, <<t, i>>)) # 0 /\ Cardinality(SlotsOf(t, <<t, i>>)) \in Nat
      BY <3>1, CountTypes, FS_EmptySet
    <3>3. CopiesOf(t, <<t, i>>) \in {0, 1}
      BY <1>2 DEF EachBuildingOnce
    <3> QED
      BY <1>6, <3>2, <3>3, CountTypes DEF CopiesOf
  <2> QED
    BY <2>1
<1>9. t \notin Complete /\ Empty(t, i) /\ crop_log[t] = "cropped" /\ buildings[t] # <<>>
  BY <1>2, <1>8, SlotsThere DEF Complete, Drained
<1>10. StageOf(t) = "open"
  BY <1>9 DEF WrittenInOrder, StageOf
<1>11. OutcomeOf(t, i) = "none"
  BY <1>7, <1>9 DEF OutcomeOf, SlotOutcome, Empty, NoBuilding
<1>12. OutcomeOf(t, i)' = o
  <2>1. Decided(t, i)' = {r}
    BY <1>3, <1>4, <1>5, <1>7 DEF Decided
  <2> QED
    BY <1>3, <2>1 DEF OutcomeOf
<1>13. ASSUME NEW u \in Tiles, NEW j \in 1..BuildingsCnt[u], <<u, j>> # <<t, i>>
       PROVE  OutcomeOf(u, j)' = OutcomeOf(u, j)
  <2>1. Decided(u, j)' = Decided(u, j)
    BY <1>3, <1>4, <1>5, <1>13 DEF Decided
  <2>2. SlotOutcome(u, j)' = SlotOutcome(u, j)
    BY <1>4 DEF SlotOutcome, tileVars
  <2> QED
    BY <2>1, <2>2, OutcomeKept
<1>14. BatchOutcome[t][i] = "none" /\ BatchOutcome' = [BatchOutcome EXCEPT ![t][i] = o]
  <2>1. /\ BatchOutcome = [u \in Tiles |-> [j \in 1..BuildingsCnt[u] |-> OutcomeOf(u, j)]]
        /\ BatchOutcome' = [u \in Tiles |-> [j \in 1..BuildingsCnt[u] |-> OutcomeOf(u, j)']]
    BY DEF BatchOutcome
  <2>2. BatchOutcome[t][i] = "none"
    BY <1>2, <1>11, <2>1
  <2>3. \A u \in Tiles : \A j \in 1..BuildingsCnt[u] :
          OutcomeOf(u, j)' = IF u = t /\ j = i THEN o ELSE OutcomeOf(u, j)
    <3>1. \A u, j : ~ (u = t /\ j = i) => <<u, j>> # <<t, i>>
      OBVIOUS
    <3> QED
      BY <1>12, <1>13, <3>1
  <2> QED
    BY <1>2, <2>1, <2>2, <2>3
<1>15. BatchStage[t] = "open" /\ BatchStage' = BatchStage /\ written' = written
  BY <1>4, <1>10, StageFixed DEF BatchStage
<1>16. Batch!Decide(t, i, o)
  BY <1>14, <1>15 DEF Batch!Decide
<1> QED
  BY <1>2, <1>16 DEF Batch!Next, Batch!Outcomes

\* The serializer writes an open tile, or one it had written again with the
\* same rows.
LEMMA WriteStep ==
  ASSUME BatchInv, SerializerWrite, NEW t \in Complete,
         written' = [written EXCEPT ![t] = WrittenRows(t)]
  PROVE  Batch!Next \/ UNCHANGED Batch!vars
<1> USE DEF BatchInv
<1>1. t \in Tiles /\ crop_log[t] = "cropped" /\ written \in [Tiles -> Seq(Row)]
  BY DEF Complete, Drained, TypeOK, BasicTypes, TileTypes
<1>2. UNCHANGED <<crop_log, tileVars, reconstructed_buildings, pending_sorted>>
  BY DEF SerializerWrite, cropVars
<1>3. BatchOutcome' = BatchOutcome
  <2>1. \A u, i : Decided(u, i)' = Decided(u, i) /\ SlotOutcome(u, i)' = SlotOutcome(u, i)
    BY <1>2 DEF Decided, SlotOutcome, tileVars
  <2> QED
    BY <2>1, OutcomeKept, OutcomesFixed
<1>4. CASE written[t] # <<>>
  <2>1. written' = written
    BY <1>1, <1>4 DEF WrittenInOrder
  <2> QED
    BY <1>2, <1>3, <2>1, StageFixed DEF Batch!vars
<1>5. CASE written[t] = <<>>
  <2>1. \A i \in 1..BuildingsCnt[t] : /\ OutcomeOf(t, i) = buildings[t][i].outcome
                                      /\ OutcomeOf(t, i) # "none"
    BY CompleteOutcome
  <2>2. \A i \in 1..BuildingsCnt[t] : BatchOutcome[t][i] = OutcomeOf(t, i)
    BY <1>1 DEF BatchOutcome
  <2>3. WrittenRows(t) = Batch!Rows(t)
    <3>1. ASSUME NEW i \in 1..BuildingsCnt[t]
          PROVE  /\ buildings[t][i] = [id |-> <<t, i>>, outcome |-> BatchOutcome[t][i]]
                 /\ (buildings_progresses[t][i] = RECONSTRUCTION_SUCCEEDED)
                      = (BatchOutcome[t][i] = "success")
      <4>1. buildings[t] \in Seq(Building) /\ DOMAIN buildings[t] = 1..BuildingsCnt[t]
        BY <1>1 DEF TypeOK, BasicTypes, TileTypes, Complete, Drained
      <4>2. buildings[t][i] \in Building
        BY <4>1, ElementOfSeq, LenProperties
      <4>3. Placed(t, i)
        BY DEF Complete
      <4> QED
        BY <2>1, <2>2, <4>2, <4>3
        DEF Placed, Building, RECONSTRUCTION_SUCCEEDED, RECONSTRUCTION_FAILED
    <3> QED
      BY <3>1 DEF WrittenRows, Batch!Rows
  <2>4. WrittenRows(t) # <<>>
    <3>1. DOMAIN WrittenRows(t) = 1..BuildingsCnt[t] /\ BuildingsCnt[t] \in Nat \ {0}
      BY <1>1, PipelineAssumption DEF WrittenRows
    <3>2. 1 \in DOMAIN WrittenRows(t)
      BY <3>1
    <3> QED
      BY <3>2
  <2>5. /\ StageOf(t) = "open" /\ StageOf(t)' = "written"
        /\ \A u \in Tiles \ {t} : StageOf(u)' = StageOf(u)
    BY <1>1, <1>2, <1>5, <2>4 DEF StageOf
  <2>6. BatchStage[t] = "open" /\ BatchStage' = [BatchStage EXCEPT ![t] = "written"]
    BY <1>1, <2>5 DEF BatchStage
  <2>7. Batch!Write(t)
    BY <1>3, <2>1, <2>2, <2>3, <2>6 DEF Batch!Write
  <2> QED
    BY <1>1, <2>7 DEF Batch!Next
<1> QED
  BY <1>4, <1>5

\* Steps the abstract batch does not see.
LEMMA Unseen ==
  ASSUME UNCHANGED <<crop_log, written>>,
         \A t \in Tiles : \A i \in 1..BuildingsCnt[t] : OutcomeOf(t, i)' = OutcomeOf(t, i)
  PROVE  UNCHANGED Batch!vars
BY StageFixed, OutcomesFixed DEF Batch!vars

LEMMA DrainUnseen == BatchInv /\ ReconstructorDrain => UNCHANGED Batch!vars
<1> SUFFICES ASSUME BatchInv, ReconstructorDrain
             PROVE  UNCHANGED Batch!vars
  OBVIOUS
<1> USE DEF BatchInv
<1>0. PICK t : t = Head(cropped_tiles)
  OBVIOUS
<1>1. t \in Undrained
  BY <1>0, QueueOps DEF ReconstructorDrain, OrderInv, TilesInOrder, TypeOK, BasicTypes, LocalQueues
<1>2. /\ t \in Tiles /\ buildings[t] = CroppedBuildings(t)
      /\ BuildingsCnt[t] \in Nat \ {0} /\ buildings \in [Tiles -> Seq(Building)]
  BY <1>1, PipelineAssumption DEF Undrained, TypeOK, BasicTypes, TileTypes
<1>3. /\ UNCHANGED <<crop_log, written, reconstructed_buildings, pending_sorted>>
      /\ buildings' = [buildings EXCEPT ![t] = [i \in 1..BuildingsCnt[t] |-> NoBuilding]]
  BY <1>0 DEF ReconstructorDrain
<1>4. ASSUME NEW u \in Tiles, NEW i \in 1..BuildingsCnt[u]
      PROVE  OutcomeOf(u, i)' = OutcomeOf(u, i)
  <2>1. Decided(u, i)' = Decided(u, i)
    BY <1>3 DEF Decided
  <2>2. SlotOutcome(u, i)' = SlotOutcome(u, i)
    <3>1. CASE u # t
      BY <1>2, <1>3, <3>1 DEF SlotOutcome
    <3>2. CASE u = t
      <4>1. buildings[u][i].outcome = "none" /\ buildings'[u][i].outcome = "none"
        BY <1>2, <1>3, <3>2 DEF CroppedBuildings, NoBuilding
      <4> QED
        BY <4>1 DEF SlotOutcome
    <3> QED
      BY <3>1, <3>2
  <2> QED
    BY <2>1, <2>2, OutcomeKept
<1> QED
  BY <1>3, <1>4, Unseen

\* The outcome leaves the sorter's queue as it enters the slot.
LEMMA PlaceUnseen == BatchInv /\ SorterPlace => UNCHANGED Batch!vars
<1> SUFFICES ASSUME BatchInv, SorterPlace
             PROVE  UNCHANGED Batch!vars
  OBVIOUS
<1> USE DEF BatchInv
<1>0. PICK r, t : r = Head(pending_sorted) /\ t = r.tile_id
  OBVIOUS
<1>1. t \in reconstructed_tiles /\ Empty(t, r.building_idx)
  BY <1>0, PlaceFindsSlot
<1>2. /\ r \in DecidedRefs /\ t \in Tiles /\ t \in Drained
      /\ \A u \in Tiles : DOMAIN buildings'[u] = DOMAIN buildings[u]
      /\ buildings'[t][r.building_idx] = r.building
      /\ \A u \in Tiles : \A i \in 1..BuildingsCnt[u] :
           <<u, i>> # <<t, r.building_idx>> => buildings'[u][i] = buildings[u][i]
  BY <1>0, <1>1, PlaceFills
<1>3. /\ r.building_idx \in 1..BuildingsCnt[t] /\ r.building.id = <<t, r.building_idx>>
      /\ DOMAIN buildings[t] = 1..BuildingsCnt[t]
  BY <1>0, <1>2 DEF DecidedRefs, Refs, Drained
<1>4. /\ pending_sorted \in Seq(DecidedRefs) /\ pending_sorted # <<>>
      /\ pending_sorted' = Tail(pending_sorted) /\ pending_sorted' \in Seq(DecidedRefs)
      /\ UNCHANGED <<crop_log, written, reconstructed_buildings>>
  <2>1. pending_sorted \in Seq(DecidedRefs) /\ pending_sorted # <<>>
    BY DEF OrderInv, RefsInOrder, SorterPlace, TypeOK, BasicTypes, LocalQueues
  <2> QED
    BY <2>1, QueueOps DEF SorterPlace, cropVars
<1>5. Range(pending_sorted) = {r} \cup Range(pending_sorted')
  BY <1>0, <1>4, RangeOps
<1>6. \A u \in Tiles : (buildings'[u] = <<>>) <=> (buildings[u] = <<>>)
  <2>1. \A u \in Tiles \ {t} : buildings'[u] = buildings[u]
    BY <1>0, <1>1 DEF SorterPlace, TypeOK, BasicTypes, TileTypes
  <2>2. r.building_idx \in DOMAIN buildings[t] /\ r.building_idx \in DOMAIN buildings'[t]
    BY <1>2, <1>3
  <2>3. buildings[t] # <<>> /\ buildings'[t] # <<>>
    BY <2>2
  <2> QED
    BY <2>1, <2>3
<1>7. ASSUME NEW u \in Tiles, NEW i \in 1..BuildingsCnt[u]
      PROVE  OutcomeOf(u, i)' = OutcomeOf(u, i)
  <2>1. CASE <<u, i>> # <<t, r.building_idx>>
    <3>1. Decided(u, i)' = Decided(u, i)
      BY <1>3, <1>4, <1>5, <2>1 DEF Decided
    <3>2. SlotOutcome(u, i)' = SlotOutcome(u, i)
      BY <1>2, <1>6, <2>1 DEF SlotOutcome
    <3> QED
      BY <3>1, <3>2, OutcomeKept
  <2>2. CASE u = t /\ i = r.building_idx
    <3> DEFINE b == <<u, i>>
    <3>1. /\ CarriedIn(pending_sorted, b) = CarriedIn(pending_sorted', b) + 1
          /\ CarriedIn(pending_sorted', b) \in Nat
      BY <1>0, <1>3, <1>4, <2>2, CarriedTail
    <3>2. CopiesOf(u, b) \in {0, 1}
      BY DEF EachBuildingOnce
    <3>3. CarriedIn(pending_sorted', b) = 0 /\ CarriedIn(reconstructed_buildings, b) = 0
      BY <3>1, <3>2, CountTypes DEF CopiesOf
    <3>4. /\ \A e \in Range(pending_sorted') : e.building.id # b
          /\ \A e \in Range(reconstructed_buildings) : e.building.id # b
      BY <1>4, <3>3, CarriedNone DEF TypeOK, BasicTypes, QueueTypes
    <3>5. Decided(u, i) = {r} /\ Decided(u, i)' = {}
      BY <1>3, <1>4, <1>5, <2>2, <3>4 DEF Decided
    <3>6. OutcomeOf(u, i) = r.building.outcome
      BY <3>5 DEF OutcomeOf
    <3>7. buildings'[u] # <<>>
      BY <1>2, <1>6, <2>2, SlotsThere
    <3>8. OutcomeOf(u, i)' = r.building.outcome
      BY <1>2, <2>2, <3>5, <3>7 DEF OutcomeOf, SlotOutcome
    <3> QED
      BY <3>6, <3>8
  <2> QED
    BY <2>1, <2>2
<1> QED
  BY <1>4, <1>7, Unseen

LEMMA SwapUnseen == BatchInv /\ SorterLock => UNCHANGED Batch!vars
<1> SUFFICES ASSUME BatchInv, SorterLock
             PROVE  UNCHANGED Batch!vars
  OBVIOUS
<1>1. pending_sorted = <<>> /\ Range(<<>>) = {}
  BY DEF SorterLock, BatchInv, TypeOK, BasicTypes, LocalQueues, Range
<1>2. UNCHANGED <<crop_log, written, tileVars>>
  BY DEF SorterLock, cropVars
<1>3. Range(reconstructed_buildings') \cup Range(pending_sorted')
        = Range(reconstructed_buildings) \cup Range(pending_sorted)
  BY <1>1 DEF SorterLock
<1>4. \A u, i : Decided(u, i)' = Decided(u, i) /\ SlotOutcome(u, i)' = SlotOutcome(u, i)
  BY <1>2, <1>3 DEF Decided, SlotOutcome, tileVars
<1> QED
  BY <1>2, <1>4, OutcomeKept, Unseen

LEMMA BatchStep == BatchInv /\ [Next]_vars => [Batch!Next]_(Batch!vars)
<1> SUFFICES ASSUME BatchInv, [Next]_vars
             PROVE  Batch!Next \/ UNCHANGED Batch!vars
  BY DEF Batch!vars
<1>1. ASSUME NEW result \in {"skipped", "failed"}, CropNothing(result)
      PROVE  Batch!Next
  <2>1. PICK t \in Unstarted : t = Head(initial_tiles)
    BY <1>1, QueueOps DEF CropNothing, BatchInv, OrderInv, TilesInOrder
  <2>2. \A u, i : SlotOutcome(u, i)' = SlotOutcome(u, i)
    BY <1>1 DEF CropNothing, SlotOutcome, tileVars
  <2> QED
    BY <1>1, <2>1, <2>2, CropStep DEF CropNothing, queueVars
<1>2. CASE CropTile
  <2>1. PICK t \in Unstarted : t = Head(initial_tiles)
    BY <1>2, QueueOps DEF CropTile, BatchInv, OrderInv, TilesInOrder
  <2>2. t \in Tiles /\ buildings[t] = <<>>
    BY DEF Unstarted
  <2>3. /\ buildings' = [buildings EXCEPT ![t] = CroppedBuildings(t)]
        /\ buildings \in [Tiles -> Seq(Building)]
    BY <1>2, <2>1 DEF CropTile, BatchInv, TypeOK, BasicTypes, TileTypes
  <2>4. ASSUME NEW u \in Tiles, NEW i \in 1..BuildingsCnt[u]
        PROVE  SlotOutcome(u, i)' = SlotOutcome(u, i)
    <3>1. CASE u # t
      BY <2>2, <2>3, <3>1 DEF SlotOutcome
    <3>2. CASE u = t
      <4>1. buildings'[u] = CroppedBuildings(u) /\ CroppedBuildings(u)[i].outcome = "none"
        BY <2>2, <2>3, <3>2 DEF CroppedBuildings
      <4> QED
        BY <2>2, <3>2, <4>1 DEF SlotOutcome
    <3> QED
      BY <3>1, <3>2
  <2> QED
    BY <1>2, <2>1, <2>4, CropStep DEF CropTile, queueVars
<1>3. CASE SerializerWrite
  <2>1. PICK t \in Complete : written' = [written EXCEPT ![t] = WrittenRows(t)]
    <3>1. pending_serialized \in Seq(Complete) /\ pending_serialized # <<>>
      BY <1>3 DEF SerializerWrite, BatchInv, TypeOK, BasicTypes, LocalQueues, OrderInv, TilesInOrder
    <3>2. Head(pending_serialized) \in Complete
      BY <3>1, QueueOps
    <3> QED
      BY <1>3, <3>2 DEF SerializerWrite
  <2> QED
    BY <1>3, <2>1, WriteStep
<1>4. CASE \/ CropExit \/ CropperNotify \/ CropperStop \/ CropperStopNotify
           \/ ReconstructorLock \/ ReconstructorSubmit \/ ReconstructorJoinPool
           \/ ReconstructorStop \/ ReconstructorStopNotify
           \/ SorterHandOver \/ SorterNotify \/ SorterStop \/ SorterStopNotify
           \/ SerializerLock \/ SerializerThrow \/ SerializerStop
           \/ TracerFinish \/ MainReturn \/ UNCHANGED vars
           \/ \E w \in Workers : WorkerTake(w) \/ WorkerNotify(w)
           \/ \E c \in {"reconstructor", "sorter", "serializer"} : Block(c) \/ SpuriousWakeup(c)
  <2>1. UNCHANGED <<crop_log, written, tileVars, reconstructed_buildings, pending_sorted>>
    BY <1>4 DEF CropExit, CropperNotify, CropperStop, CropperStopNotify, ReconstructorLock,
       ReconstructorSubmit, ReconstructorJoinPool, ReconstructorStop, ReconstructorStopNotify,
       WorkerTake, WorkerNotify, SorterHandOver, SorterNotify, SorterStop, SorterStopNotify,
       SerializerLock, SerializerThrow, SerializerStop, TracerFinish, MainReturn, Block,
       SpuriousWakeup, vars, cropVars, queueVars
  <2>2. \A u, i : Decided(u, i)' = Decided(u, i) /\ SlotOutcome(u, i)' = SlotOutcome(u, i)
    BY <2>1 DEF Decided, SlotOutcome, tileVars
  <2> QED
    BY <2>1, <2>2, OutcomeKept, Unseen
<1> QED
  BY <1>1, <1>2, <1>3, <1>4, DecideStep, DrainUnseen, PlaceUnseen, SwapUnseen
  DEF Next, Cropper, Reconstructor, Sorter, Serializer, Worker

LEMMA BatchStart == Init => Batch!Init
<1> SUFFICES ASSUME Init
             PROVE  Batch!Init
  OBVIOUS
<1>1. \A t \in Tiles : StageOf(t) = "queued"
  BY DEF Init, StageOf
<1>2. \A t \in Tiles : \A i : Decided(t, i) = {}
  BY DEF Init, Decided, Range
<1>3. \A t \in Tiles : \A i : OutcomeOf(t, i) = "none"
  BY <1>2 DEF Init, OutcomeOf, SlotOutcome
<1> QED
  BY <1>1, <1>3 DEF Init, Batch!Init, BatchStage, BatchOutcome

\* The pipeline implements the abstract batch: whatever the threads do, a
\* tile is dropped or opened, each of its buildings gets one outcome, and it
\* is written once with all of them in their original order.
THEOREM PipelineImplementsBatch == Spec => ImplementsBatch
<1>1. BatchInv /\ [Next]_vars => [Batch!Next]_(Batch!vars)
  BY BatchStep
<1>2. Init => Batch!Init
  BY BatchStart
<1> QED
  BY <1>1, <1>2, BatchInvHolds, PTL DEF Spec, ImplementsBatch, Batch!Spec
=============================================================================
