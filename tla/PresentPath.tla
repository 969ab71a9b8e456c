---------------------------- MODULE PresentPath ----------------------------
(***************************************************************************)
(* How a frame reaches the screen (graphics/vulkan): the timeline of       *)
(* submission_manager.cpp, the ring of frame contexts of frame_context.cpp, *)
(* the swapchain with its retired predecessors of swapchain.cpp and the    *)
(* path of clear_present_path.cpp that ties them together.  The graphics   *)
(* queue and the presentation engine are external: the first finishes      *)
(* submissions in order, the second takes presents in order, each once the *)
(* submission that signals its semaphore is done.                          *)
(*                                                                         *)
(* Render is cut at the calls that give the device time to move: the       *)
(* preparation, the acquisition of an image, record and submit, present.   *)
(***************************************************************************)
EXTENDS Integers, Sequences, FiniteSets, SequencesExt

CONSTANTS FrameContexts,   \* MaxActiveFrames: size of the ring
          PathFrames,      \* frames rendered (bound)
          MaxChains,       \* swapchains created (bound)
          Sizes,           \* framebuffer sizes the window takes, 0 included
          Surfaces,        \* what the surface may answer: see Surface
          Unset            \* a value that is none of the others

Surface == [current : Sizes \cup {Unset}, low : Nat, high : Nat,
            minImages : Nat, maxImages : Nat]

ASSUME PresentPathAssumption ==
    /\ FrameContexts \in Nat \ {0} /\ PathFrames \in Nat /\ MaxChains \in Nat \ {0}
    /\ Sizes \subseteq Nat /\ Surfaces \subseteq Surface
    /\ Unset \notin Nat

VARIABLES path, chain, contexts, timeline, wsi, reported

pathVars == <<path, chain, contexts, timeline, wsi, reported>>

Slots == 0 .. FrameContexts - 1
Images == Nat \ {0}
FreeContext == [state |-> "free", value |-> 0, frame |-> 0, lastUse |-> 0]

---------------------------------------------------------------------------
(* The plan of a swapchain *)

Clamp(value, low, high) == IF value < low THEN low
                           ELSE IF value > high THEN high ELSE value

ChooseExtent(surface, size) ==
    IF surface.current # Unset THEN surface.current
    ELSE Clamp(size, surface.low, surface.high)

ChooseImageCount(surface) ==
    IF surface.maxImages # 0 /\ surface.maxImages < surface.minImages + 1
    THEN surface.maxImages ELSE surface.minImages + 1

PlannedExtent(surface, size) == IF size = 0 THEN 0 ELSE ChooseExtent(surface, size)

(* A chain: no native swapchain and no images when its plan is suspended.  *)
MakeChain(id, surface, size) ==
    LET extent == PlannedExtent(surface, size)
    IN  [id |-> id, suspended |-> extent = 0, failed |-> FALSE, retired |-> {},
         images |-> IF extent = 0 THEN 0 ELSE ChooseImageCount(surface)]

---------------------------------------------------------------------------
(* Completions: the value 0 stands for none, and counts as reached *)

IsCompleted(value) == timeline.done >= value

(* ReleaseRetiredIfCompleted, the retired chains and present semaphores;   *)
(* PollCompletedFrames pops the frames done at the front.                  *)
RetiredDone == path.retirement # 0 /\ IsCompleted(path.retirement)
RetiredLeft == IF RetiredDone THEN {} ELSE chain.retired
RetirementLeft == IF RetiredDone THEN 0 ELSE path.retirement

(* a poll that does not ask the timeline *)
MutantDoneInFront == Len(path.pending)

DoneInFront == Cardinality({k \in 1 .. Len(path.pending) :
                   \A m \in 1 .. k : IsCompleted(path.pending[m].value)})

---------------------------------------------------------------------------

PathInit ==
    \E surface \in Surfaces, size \in Sizes :
      /\ chain = MakeChain(1, surface, size)
      /\ path = [at |-> "idle", frame |-> 0, size |-> size, recreate |-> FALSE,
                 failed |-> FALSE, first |-> Unset, retirement |-> 0, last |-> 0,
                 pending |-> <<>>, image |-> Unset, suboptimal |-> FALSE]
      /\ contexts = [s \in Slots |-> FreeContext]
      /\ timeline = [next |-> 1, done |-> 0]
      /\ wsi = [queue |-> <<>>, held |-> {}]
      /\ reported = <<>>

SetFramebufferSize(size) ==
    /\ path.at = "idle" /\ size # path.size
    /\ path' = [path EXCEPT !.size = size, !.recreate = TRUE]
    /\ UNCHANGED <<chain, contexts, timeline, wsi, reported>>

Slot == path.frame % FrameContexts

(* TryAcquire: an acquired context is refused, one in flight is reset once *)
(* the timeline reached the value of its own submission.                   *)
Acquirable(c) == \/ c.state = "free"
                 \/ c.state = "in_flight" /\ IsCompleted(c.value)

(* Recreate keeps the replaced chain among the retired ones; a failed one  *)
(* leaves the old chain suspended.                                         *)
Replaced(new, released) == [new EXCEPT !.retired = released \cup {chain.id}]
Unreplaced(released) == [released EXCEPT !.suspended = TRUE, !.failed = TRUE]

Acquired == [contexts EXCEPT ![Slot].state = "acquired", ![Slot].frame = path.frame]

(* ReleaseAcquired gives the context back; the semaphore of the slot was   *)
(* not signalled.                                                          *)
PathReleased == [contexts EXCEPT ![Slot].state = "free", ![Slot].value = 0]

InFlight(value) == [contexts EXCEPT ![Slot].state = "in_flight", ![Slot].value = value,
                                    ![Slot].lastUse = value]

(* TryRecreateSwapchain replaces the chain when nothing submitted is left, *)
(* and forgets what it knew of the presents of the replaced one.           *)
Recreation(new, released) ==
    /\ chain' = Replaced(new, released)
    /\ path' = [path EXCEPT !.first = Unset, !.retirement = 0,
                            !.recreate = new.suspended,
                            !.pending = SubSeq(@, DoneInFront + 1, Len(@)),
                            !.at = IF ~new.suspended /\ Acquirable(contexts[Slot])
                                   THEN "acquire" ELSE "idle"]

Fails(next) == path' = [next EXCEPT !.failed = TRUE, !.at = "idle"]

(* TrySubmitFrame polls, then Render prepares: a window without an area    *)
(* suspends the chain; a requested recreation waits for the last           *)
(* submission, succeeds or throws; a context of the ring is acquired.      *)
Polled == [path EXCEPT !.pending = SubSeq(@, DoneInFront + 1, Len(@)),
                       !.retirement = RetirementLeft]

(* The caller renders the frame whose turn it is, again when it was not    *)
(* submitted; a path that failed once only throws.                         *)
MayRender == path.at = "idle" /\ ~path.failed /\ path.frame < PathFrames

RenderBegins ==
    /\ MayRender
    /\ reported' = reported \o [k \in 1 .. DoneInFront |-> path.pending[k]]
    /\ UNCHANGED <<timeline, wsi>>
    /\ LET recreates == path.recreate /\ IsCompleted(path.last)
           released == [chain EXCEPT !.retired = RetiredLeft]
       IN
       \/ /\ path.size = 0
          /\ chain' = [released EXCEPT !.suspended = TRUE]
          /\ path' = [Polled EXCEPT !.recreate = TRUE]
          /\ UNCHANGED contexts
       \/ /\ path.size # 0 /\ path.recreate /\ ~recreates
          /\ path' = Polled /\ chain' = released
          /\ UNCHANGED contexts
       \/ /\ path.size # 0 /\ recreates /\ chain.id < MaxChains
          /\ \E surface \in Surfaces :
                Recreation(MakeChain(chain.id + 1, surface, path.size), RetiredLeft)
          /\ contexts' = IF path'.at = "acquire" THEN Acquired ELSE contexts
       \/ /\ path.size # 0 /\ recreates
          /\ Fails(Polled)
          /\ chain' = Unreplaced(released)
          /\ UNCHANGED contexts
       \/ /\ path.size # 0 /\ ~path.recreate /\ ~chain.suspended
          /\ Acquirable(contexts[Slot])
          /\ contexts' = Acquired
          /\ path' = [Polled EXCEPT !.at = "acquire"] /\ chain' = released
       \/ /\ path.size # 0 /\ ~path.recreate
          /\ chain.suspended \/ ~Acquirable(contexts[Slot])
          /\ path' = Polled /\ chain' = released
          /\ UNCHANGED contexts

PresentStatus == {"presented", "suboptimal", "out_of_date"}
Declined == {"out_of_date", "not_ready"}

AcquireNextImage ==
    /\ path.at = "acquire"
    /\ UNCHANGED <<timeline, reported, chain>>
    /\ \/ \E image \in 1 .. chain.images, suboptimal \in BOOLEAN :
            /\ <<chain.id, image>> \notin wsi.held
            /\ wsi' = [wsi EXCEPT !.held = @ \cup {<<chain.id, image>>}]
            /\ path' = [path EXCEPT !.at = "record", !.image = image,
                                    !.suboptimal = suboptimal]
            /\ UNCHANGED contexts
       \/ \E status \in Declined :
            /\ path' = [path EXCEPT !.at = "idle",
                                    !.recreate = @ \/ status = "out_of_date"]
            /\ contexts' = PathReleased /\ UNCHANGED wsi
       \/ Fails(path) /\ contexts' = PathReleased /\ UNCHANGED wsi

(* SubmitGraphics takes the next value and gives it back when the submission *)
(* fails.  The token is published, the completion may free the retired       *)
(* chains, the context is in flight and the frame pending.                   *)
Submitted(value) ==
    /\ contexts' = InFlight(value)
    /\ path' = [path EXCEPT
         !.at = "present", !.last = value, !.frame = @ + 1,
         !.retirement = IF path.first = path.image /\ chain.retired # {} /\ @ = 0
                        THEN value ELSE @,
         !.pending = Append(@, [frame |-> path.frame, value |-> value])]

TakesValue == timeline' = [timeline EXCEPT !.next = @ + 1]

RecordAndSubmit ==
    /\ path.at = "record"
    /\ UNCHANGED <<wsi, reported, chain>>
    /\ \/ TakesValue /\ Submitted(timeline.next)
       \/ Fails(path) /\ contexts' = PathReleased /\ UNCHANGED timeline

Present ==
    /\ path.at = "present"
    /\ UNCHANGED <<contexts, timeline, reported, chain>>
    /\ \/ \E status \in PresentStatus :
            /\ wsi' = [wsi EXCEPT !.queue = Append(@, [chain |-> chain.id,
                                      image |-> path.image, value |-> path.last])]
            /\ path' = [path EXCEPT
                 !.at = "idle", !.image = Unset,
                 !.first = IF @ = Unset /\ status # "out_of_date" THEN path.image ELSE @,
                 !.recreate = path.suboptimal \/ status \in {"suboptimal", "out_of_date"}]
       \/ Fails(path) /\ UNCHANGED wsi

(* External: the graphics queue and the presentation engine. *)
PathGpuCompletes ==
    /\ timeline.done < timeline.next - 1
    /\ timeline' = [timeline EXCEPT !.done = @ + 1]
    /\ UNCHANGED <<path, chain, contexts, wsi, reported>>

EngineTakesPresent ==
    /\ wsi.queue # <<>> /\ IsCompleted(Head(wsi.queue).value)
    /\ wsi' = [queue |-> Tail(wsi.queue),
               held |-> wsi.held \ {<<Head(wsi.queue).chain, Head(wsi.queue).image>>}]
    /\ UNCHANGED <<path, chain, contexts, timeline, reported>>

PathNext == \/ \E size \in Sizes : SetFramebufferSize(size)
            \/ RenderBegins \/ AcquireNextImage \/ RecordAndSubmit \/ Present
            \/ PathGpuCompletes \/ EngineTakesPresent

PathSpec == PathInit /\ [][PathNext]_pathVars

---------------------------------------------------------------------------
(* The state keeps its types. *)
PathTypeOK ==
    /\ path.at \in {"idle", "acquire", "record", "present"}
    /\ path.frame \in 0 .. PathFrames /\ path.size \in Sizes
    /\ {path.recreate, path.failed, path.suboptimal} \subseteq BOOLEAN
    /\ {path.first, path.image} \subseteq Images \cup {Unset}
    /\ {path.retirement, path.last} \subseteq Nat
    /\ \A s \in Slots : contexts[s].state \in {"free", "acquired", "in_flight"}
    /\ chain.id \in 1 .. MaxChains /\ chain.retired \subseteq 1 .. chain.id - 1
    /\ timeline.done \in 0 .. timeline.next - 1

(* No command pool is reset, and no image-available semaphore signalled    *)
(* again, while the submission that last used it is on the GPU             *)
(* (TryAcquire asks for the exact earlier value of the slot).              *)
PoolsAreIdle == \A s \in Slots : contexts[s].state = "acquired" =>
                                    IsCompleted(contexts[s].lastUse)

(* A present still queued has its chain and its semaphore: retired chains   *)
(* are freed only by a completion that proves the presentation engine has   *)
(* taken every present of theirs ("GPU timeline completion alone cannot     *)
(* retire them").                                                           *)
PresentsHaveTheirChain == \A k \in 1 .. Len(wsi.queue) :
                              wsi.queue[k].chain \in chain.retired \cup {chain.id}

(* Every frame submitted is pending or was reported, in the order of the    *)
(* frames, none twice, and none was reported before the GPU was done.       *)
FramesAreReportedOnce ==
    /\ LET all == reported \o path.pending
       IN  /\ Len(all) = path.frame
           /\ \A k \in 1 .. Len(all) : all[k].frame = k - 1 /\ all[k].value = k
    /\ \A k \in 1 .. Len(reported) : IsCompleted(reported[k].value)

(* What the path promises: clear_present_path.cpp with its ring and chain. *)
PathIsSafe ==
    PathTypeOK /\ PoolsAreIdle /\ PresentsHaveTheirChain /\ FramesAreReportedOnce

=============================================================================
