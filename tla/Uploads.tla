------------------------------ MODULE Uploads ------------------------------
(***************************************************************************)
(* The upload manager (graphics/vulkan/upload_manager.cpp) and the         *)
(* lifetime of the memory it copies to (memory.cpp).  A batch is copied    *)
(* into a staging arena and submitted; the arena keeps the destinations    *)
(* alive and is used again when the timeline reached its completion.  A    *)
(* completion of zero means idle.  Its calls are serialised by the caller; *)
(* the GPU and the owners of the destinations move between any two.        *)
(***************************************************************************)
EXTENDS Integers, Sequences, FiniteSets, SequencesExt

CONSTANTS Destinations,    \* the buffers and images uploaded to
          Batches,         \* the batches submitted: sequences of [to, size]
          ArenaSize, MaxStaging, MaxBatchUploads,   \* VulkanUploadConfig
          MaxSubmissions,  \* bound on the submissions
          MaxArenas        \* bound on the arenas ever allocated

ASSUME UploadsAssumption ==
    /\ ArenaSize \in Nat \ {0} /\ MaxStaging \in Nat /\ ArenaSize <= MaxStaging
    /\ MaxBatchUploads \in Nat \ {0} /\ MaxSubmissions \in Nat /\ MaxArenas \in Nat
    /\ Batches \subseteq Seq([to : Destinations, size : Nat])

VARIABLES arenas,      \* m_arenas: [id, size, completion, payload, count, retains]
          staging,     \* m_statistics.StagingBytes
          totals,      \* SubmittedUploads, Submissions, ArenaAllocations
          owned,       \* destinations whose allocation object is alive
          gpu,         \* [next, done] of the timeline, and the copies submitted
          destroyed    \* the manager is gone

uploadVars == <<arenas, staging, totals, owned, gpu, destroyed>>

(* The memory of a destination is freed with the last of its owners.       *)
Retained == UNION {arenas[k].retains : k \in 1 .. Len(arenas)}
Alive == owned \cup Retained

---------------------------------------------------------------------------
(* Layout of a batch: slices aligned to four bytes. *)

Aligned(end) == ((end + 3) \div 4) * 4
AppendUploadSlice(end, upload) == Aligned(end) + upload.size
SizeOf(batch) == FoldLeft(AppendUploadSlice, 0, batch)
TotalSize(items) == FoldLeft(LAMBDA sum, item : sum + item.size, 0, items)
PayloadOf(batch) == TotalSize(batch)
DestinationsOf(batch) == {batch[k].to : k \in 1 .. Len(batch)}

(* A batch is refused before anything is touched.                          *)
ValidateUpload(upload) == upload.to \in owned /\ upload.size > 0
ValidBatch(batch) == /\ Len(batch) \in 1 .. MaxBatchUploads
                     /\ \A k \in 1 .. Len(batch) : ValidateUpload(batch[k])

---------------------------------------------------------------------------
(* Arenas *)

IsDone(completion) == gpu.done >= completion
IsIdle(arena) == arena.completion = 0

ArenaEmptied(arena) == [arena EXCEPT !.completion = 0, !.payload = 0, !.count = 0, !.retains = {}]

(* ReleaseCompleted *)
Released == [k \in 1 .. Len(arenas) |->
               IF ~IsIdle(arenas[k]) /\ IsDone(arenas[k].completion)
               THEN ArenaEmptied(arenas[k]) ELSE arenas[k]]

Capacity(size) == IF ArenaSize < size THEN size ELSE ArenaSize

(* AcquireArena takes the first idle arena that is large enough ...        *)
Fitting(all, size) == {k \in 1 .. Len(all) : IsIdle(all[k]) /\ all[k].size >= size}

(* evicts whatever stands in front, also an arena the GPU still reads *)
MutantEvictOne(left, arena) ==
    IF left.free < left.wanted
    THEN [left EXCEPT !.free = @ + arena.size]
    ELSE [left EXCEPT !.kept = Append(@, arena)]

(* ... or evicts idle arenas from the front until the new one fits.        *)
EvictOne(left, arena) ==
    IF left.free < left.wanted /\ IsIdle(arena)
    THEN [left EXCEPT !.free = @ + arena.size]
    ELSE [left EXCEPT !.kept = Append(@, arena)]

Evicted(all, size) ==
    FoldLeft(EvictOne, [free |-> MaxStaging - staging, wanted |-> Capacity(size), kept |-> <<>>],
             all)

NewArena(size) == [id |-> totals.allocations + 1, size |-> Capacity(size), completion |-> 0,
                   payload |-> 0, count |-> 0, retains |-> {}]

---------------------------------------------------------------------------

UploadInit ==
        /\ arenas = <<>> /\ staging = 0 /\ owned = Destinations /\ destroyed = FALSE
        /\ totals = [uploads |-> 0, submissions |-> 0, allocations |-> 0]
        /\ gpu = [next |-> 1, done |-> 0, copies |-> {}]

(* The batch is recorded in the arena and submitted: retention stands      *)
(* before the submission, the completion is set after it.  A failure of    *)
(* any call lets the destinations go and leaves the arena idle.            *)
Submits(all, k, batch) ==
    LET completion == gpu.next
    IN  /\ arenas' = [all EXCEPT ![k].completion = completion,
                         ![k].payload = PayloadOf(batch), ![k].count = Len(batch),
                         ![k].retains = DestinationsOf(batch)]
        /\ gpu' = [gpu EXCEPT !.next = @ + 1,
                      !.copies = @ \cup {[value |-> completion, arena |-> all[k].id,
                                          end |-> SizeOf(batch), to |-> DestinationsOf(batch)]}]

Records(all, k, batch) ==
    \/ Submits(all, k, batch)
    \/ arenas' = [all EXCEPT ![k].retains = {}] /\ UNCHANGED gpu

Counted(batch, allocated) ==
    totals' = [uploads |-> totals.uploads + (IF gpu' = gpu THEN 0 ELSE Len(batch)),
               submissions |-> totals.submissions + (IF gpu' = gpu THEN 0 ELSE 1),
               allocations |-> totals.allocations + allocated]

UploadBatch(batch) ==
    /\ ~destroyed /\ totals.submissions < MaxSubmissions
    /\ ValidBatch(batch) /\ SizeOf(batch) <= MaxStaging
    /\ UNCHANGED <<owned, destroyed>>
    /\ LET fitting == Fitting(Released, SizeOf(batch))
           evicted == Evicted(Released, SizeOf(batch))
       IN  \/ /\ fitting # {}
              /\ Records(Released, CHOOSE k \in fitting : \A m \in fitting : k <= m, batch)
              /\ Counted(batch, 0) /\ UNCHANGED staging
           \/ /\ fitting = {} /\ evicted.free >= evicted.wanted
              /\ totals.allocations < MaxArenas
              /\ Records(Append(evicted.kept, NewArena(SizeOf(batch))),
                         Len(evicted.kept) + 1, batch)
              /\ staging' = MaxStaging - evicted.free + evicted.wanted
              /\ Counted(batch, 1)
           \/ /\ fitting = {}      \* the budget is exhausted, or the allocation fails
              /\ arenas' = evicted.kept /\ staging' = MaxStaging - evicted.free
              /\ UNCHANGED <<totals, gpu>>

ReleaseCompleted == /\ ~destroyed /\ arenas' = Released
                    /\ UNCHANGED <<staging, totals, owned, gpu, destroyed>>

(* The destructor waits for the completion of every arena.                 *)
DestroyUploads ==
           /\ ~destroyed /\ \A k \in 1 .. Len(arenas) : IsDone(arenas[k].completion)
           /\ destroyed' = TRUE /\ arenas' = <<>>
           /\ UNCHANGED <<staging, totals, owned, gpu>>

(* An owner resets its allocation, or allocates one once the earlier       *)
(* memory is free.                                                         *)
Reset(d) == /\ d \in owned /\ owned' = owned \ {d}
            /\ UNCHANGED <<arenas, staging, totals, gpu, destroyed>>

CreateVulkanBuffer(d) == /\ d \notin Alive /\ owned' = owned \cup {d}
                         /\ UNCHANGED <<arenas, staging, totals, gpu, destroyed>>

GpuAdvances == /\ gpu.done < gpu.next - 1
               /\ gpu' = [gpu EXCEPT !.done = @ + 1,
                             !.copies = {c \in @ : c.value # gpu.done + 1}]
               /\ UNCHANGED <<arenas, staging, totals, owned, destroyed>>

UploadNext == \/ \E batch \in Batches : UploadBatch(batch)
              \/ ReleaseCompleted \/ DestroyUploads \/ GpuAdvances
              \/ \E d \in Destinations : Reset(d) \/ CreateVulkanBuffer(d)

UploadSpec == UploadInit /\ [][UploadNext]_uploadVars

---------------------------------------------------------------------------

(* Every copy the GPU may still perform has its staging arena, marked with *)
(* the completion of that very copy and large enough for its slices, and   *)
(* has all its destinations, whatever their owners did.                    *)
CopiesHaveTheirMemory ==
    \A c \in gpu.copies :
        /\ c.to \subseteq Alive
        /\ \E k \in 1 .. Len(arenas) :
              /\ arenas[k].id = c.arena /\ arenas[k].completion = c.value
              /\ arenas[k].size >= c.end

(* The staging bytes are those of the arenas and never exceed the budget,  *)
(* so the unsigned difference to the budget never wraps.                   *)
BudgetHolds ==
    ~destroyed => /\ staging = TotalSize(arenas)
                  /\ staging <= MaxStaging

(* A copy finds its memory and its bytes, within the budget.                *)
UploadsAreSafe == CopiesHaveTheirMemory /\ BudgetHolds

=============================================================================
