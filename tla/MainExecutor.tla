---------------------------- MODULE MainExecutor ----------------------------
(***************************************************************************)
(* Commands other threads have the main thread run                          *)
(* (src/application/runtime/main_executor.cpp), and the loop of the main    *)
(* thread that sleeps until the window wakes it                             *)
(* (Application::RunFrame in src/application/application.cpp, without       *)
(* presentation and with its wait of 8 ms taken as endless: a command must  *)
(* not need the timeout).                                                   *)
(*                                                                         *)
(* Each hold of m_mutex is one action.                                      *)
(***************************************************************************)
EXTENDS Naturals, Sequences, FiniteSets, SequencesExt

CONSTANTS
  Command,
  OriginOf,    \* frame a command was posted from; 0: none
  Caller,      \* threads that call Invoke and Stop
  DrainLimit,  \* DISPATCH_BATCH (64)
  FrameBurst,  \* FRAME_BURST (8)
  MaxRuns,     \* bound on the number of calls of Start
  NoCommand

ASSUME MainExecutorAssumption ==
  /\ OriginOf \in [Command -> Nat]
  /\ DrainLimit \in Nat \ {0} /\ FrameBurst \in Nat \ {0} /\ MaxRuns \in Nat
  /\ NoCommand \notin Command

Main == "main"
MainThread == Caller \cup {Main}
EMainCommandState == {"NEW", "QUEUED", "RUNNING", "COMPLETED", "FAILED", "SKIPPED"}
Terminal == {"COMPLETED", "FAILED", "SKIPPED"}

VARIABLES
  mainRunning,   \* m_running
  generation,    \* m_generation
  stoppers,      \* threads inside Stop, each with the entries it took out
  mainQueue,     \* m_queue
  frameBurst,    \* m_frameBurst
  command,       \* Completion->Value
  postedIn,      \* the generation whose queue took the command
  caller,        \* [step, cmd, gen] of a thread inside Invoke
  mainAt,        \* what the main thread does
  current,       \* the command it runs
  drained,       \* count of the Drain it is in
  nativeEvent,   \* the event WakeEventLoop posts
  overtaken      \* framed commands run since an unframed one waits

mainVars == <<mainAt, current, drained>>
mxVars == <<mainRunning, generation, stoppers, mainQueue, frameBurst, command,
            postedIn, caller, mainVars, nativeEvent, overtaken>>

-----------------------------------------------------------------------------
Away == [step |-> "away", cmd |-> NoCommand, gen |-> 0]

MXInit ==
  /\ mainRunning = FALSE /\ generation = 0
  /\ stoppers = [th \in {} |-> {}]
  /\ mainQueue = <<>> /\ frameBurst = 0
  /\ command = [c \in Command |-> "NEW"]
  /\ postedIn = [c \in Command |-> 0]
  /\ caller = [p \in Caller |-> Away]
  /\ mainAt = "off" /\ current = NoCommand /\ drained = 0
  /\ nativeEvent = FALSE
  /\ overtaken = 0

(* Start throws in any other state. *)
Start ==
  /\ mainAt = "off"
  /\ generation < MaxRuns
  /\ ~ mainRunning /\ DOMAIN stoppers = {}
  /\ mainRunning' = TRUE
  /\ generation' = generation + 1
  /\ frameBurst' = 0 /\ overtaken' = 0
  /\ mainAt' = "events"
  /\ UNCHANGED <<stoppers, mainQueue, command, postedIn, caller, current,
                 drained, nativeEvent>>

-----------------------------------------------------------------------------
(* Invoke on another thread: read the generation, post, wait. *)

Invoke(p, c) ==
  /\ caller[p] = Away /\ p \notin DOMAIN stoppers
  /\ command[c] = "NEW" /\ \A q \in Caller : caller[q].cmd # c
  /\ mainRunning
  /\ caller' = [caller EXCEPT ![p] = [step |-> "post", cmd |-> c, gen |-> generation]]
  /\ UNCHANGED <<mainRunning, generation, stoppers, mainQueue, frameBurst,
                 command, postedIn, mainVars, nativeEvent, overtaken>>

(* The run a command was meant for, not any later one. *)
\* A bug: the generation of the post is not compared.
MutantAdmits(p) == mainRunning
Admits(p) == mainRunning /\ caller[p].gen = generation

Post(p) ==
  /\ caller[p].step = "post"
  /\ LET c == caller[p].cmd IN
       IF Admits(p)
       THEN /\ mainQueue' = Append(mainQueue, c)
            /\ command' = [command EXCEPT ![c] = "QUEUED"]
            /\ postedIn' = [postedIn EXCEPT ![c] = caller[p].gen]
            /\ nativeEvent' = TRUE
       ELSE /\ command' = [command EXCEPT ![c] = "SKIPPED"]
            /\ UNCHANGED <<mainQueue, postedIn, nativeEvent>>
  /\ caller' = [caller EXCEPT ![p].step = "wait"]
  /\ UNCHANGED <<mainRunning, generation, stoppers, frameBurst, mainVars,
                 overtaken>>

InvokeReturns(p) ==
  /\ caller[p].step = "wait" /\ command[caller[p].cmd] \in Terminal
  /\ caller' = [caller EXCEPT ![p] = Away]
  /\ UNCHANGED <<mainRunning, generation, stoppers, mainQueue, frameBurst,
                 command, postedIn, mainVars, nativeEvent, overtaken>>

-----------------------------------------------------------------------------
(* Stop: m_running goes and the queue is taken under the lock, the entries   *)
(* are skipped outside it, and only then may the executor start again. *)

(* The stop of a stopped executor is tried by the main thread, while another *)
(* stop is under way. *)
CanStop(th) ==
  /\ th \notin DOMAIN stoppers
  /\ mainRunning \/ (th = Main /\ DOMAIN stoppers # {})
  /\ IF th = Main THEN mainAt \in {"events", "run"} ELSE caller[th] = Away

\* A bug: the entries the stop takes out are dropped, not finished.
MutantStopMain(th) ==
  /\ CanStop(th)
  /\ mainRunning' = FALSE
  /\ stoppers' = [t \in DOMAIN stoppers \cup {th} |->
                   IF t = th THEN {} ELSE stoppers[t]]
  /\ mainQueue' = <<>> /\ overtaken' = 0
  /\ UNCHANGED <<generation, frameBurst, command, postedIn, caller, mainVars,
                 nativeEvent>>

Stop(th) ==
  /\ CanStop(th)
  /\ mainRunning' = FALSE
  /\ stoppers' = [t \in DOMAIN stoppers \cup {th} |->
                   IF t = th THEN Range(mainQueue) ELSE stoppers[t]]
  /\ mainQueue' = <<>> /\ overtaken' = 0
  /\ UNCHANGED <<generation, frameBurst, command, postedIn, caller, mainVars,
                 nativeEvent>>

Skip(th, c) ==
  /\ th \in DOMAIN stoppers /\ c \in stoppers[th]
  /\ stoppers' = [stoppers EXCEPT ![th] = @ \ {c}]
  /\ command' = [command EXCEPT ![c] = "SKIPPED"]
  /\ UNCHANGED <<mainRunning, generation, mainQueue, frameBurst, postedIn,
                 caller, mainVars, nativeEvent, overtaken>>

(* The main thread leaves its loop, unless it is in a command. *)
Stopped(th) ==
  /\ th \in DOMAIN stoppers /\ stoppers[th] = {}
  /\ stoppers' = [t \in DOMAIN stoppers \ {th} |-> stoppers[t]]
  /\ mainAt' = IF th = Main /\ mainAt = "events" THEN "off" ELSE mainAt
  /\ UNCHANGED <<mainRunning, generation, mainQueue, frameBurst, command,
                 postedIn, caller, current, drained, nativeEvent, overtaken>>

-----------------------------------------------------------------------------
(* The main thread. *)
MainFree == Main \notin DOMAIN stoppers

(* ProcessEvents, then Step drains; the loop of a stopped executor goes on   *)
(* until the application ends it. *)
ProcessEvents ==
  /\ mainAt = "events" /\ MainFree
  /\ nativeEvent' = FALSE
  /\ mainAt' = "drain" /\ drained' = 0
  /\ UNCHANGED <<mainRunning, generation, stoppers, mainQueue, frameBurst,
                 command, postedIn, caller, current, overtaken>>

Unframed == {i \in DOMAIN mainQueue : OriginOf[mainQueue[i]] = 0}
FrameAt(i) == OriginOf[mainQueue[i]]

(* Frames in order, each in the order of its posts; every FrameBurst         *)
(* commands of frames one without a frame, the oldest. *)
First(S) == CHOOSE i \in S : \A j \in S : i <= j
Framed == DOMAIN mainQueue \ Unframed
\* A bug: no command without a frame runs while one of a frame waits.
MutantSelected ==
  IF Framed = {} THEN First(Unframed)
  ELSE First({i \in Framed : \A j \in Framed : FrameAt(i) <= FrameAt(j)})

Selected ==
  IF Framed = {} \/ (Unframed # {} /\ frameBurst >= FrameBurst)
  THEN First(Unframed)
  ELSE First({i \in Framed : \A j \in Framed : FrameAt(i) <= FrameAt(j)})

Take ==
  /\ mainAt = "drain"
  /\ drained < DrainLimit
  /\ mainRunning /\ mainQueue # <<>>
  /\ LET c == mainQueue[Selected] IN
       /\ current' = c
       /\ command' = [command EXCEPT ![c] = "RUNNING"]
       /\ frameBurst' = IF OriginOf[c] = 0 THEN 0
                        ELSE IF frameBurst < FrameBurst THEN frameBurst + 1
                        ELSE FrameBurst
       /\ overtaken' = IF OriginOf[c] # 0 /\ Unframed # {}
                       THEN overtaken + 1 ELSE 0
  /\ mainQueue' = RemoveAt(mainQueue, Selected)
  /\ mainAt' = "run"
  /\ UNCHANGED <<mainRunning, generation, stoppers, postedIn, caller, drained,
                 nativeEvent>>

(* A command ends; while it ran it may have stopped the executor. *)
FinishCommand(state) ==
  /\ mainAt = "run" /\ MainFree
  /\ command' = [command EXCEPT ![current] = state]
  /\ current' = NoCommand
  /\ drained' = drained + 1
  /\ mainAt' = "drain"
  /\ UNCHANGED <<mainRunning, generation, stoppers, mainQueue, frameBurst,
                 postedIn, caller, nativeEvent, overtaken>>

(* The loop waits for events only if the drain found nothing. *)
DrainEnds ==
  /\ mainAt = "drain"
  /\ drained = DrainLimit \/ ~ mainRunning \/ mainQueue = <<>>
  /\ mainAt' = IF drained = 0 THEN "wait" ELSE "events"
  /\ drained' = 0
  /\ UNCHANGED <<mainRunning, generation, stoppers, mainQueue, frameBurst,
                 command, postedIn, caller, current, nativeEvent, overtaken>>

WaitEvents ==
  /\ mainAt = "wait"
  /\ nativeEvent
  /\ mainAt' = "events"
  /\ UNCHANGED <<mainRunning, generation, stoppers, mainQueue, frameBurst,
                 command, postedIn, caller, current, drained, nativeEvent,
                 overtaken>>

(* An event of the window, as the close that ends a stopped application. *)
WindowEvent ==
  /\ mainAt = "wait" /\ ~ mainRunning
  /\ ~ nativeEvent
  /\ nativeEvent' = TRUE
  /\ UNCHANGED <<mainRunning, generation, stoppers, mainQueue, frameBurst,
                 command, postedIn, caller, mainVars, overtaken>>

-----------------------------------------------------------------------------
MainStep ==
  \/ ProcessEvents \/ Take \/ DrainEnds \/ WaitEvents
  \/ \E s \in {"COMPLETED", "FAILED"} : FinishCommand(s)

MainEnds ==
  \/ \E p \in Caller : Post(p) \/ InvokeReturns(p)
  \/ \E th \in MainThread : Stopped(th) \/ \E c \in Command : Skip(th, c)
  \/ MainStep

MXNext ==
  \/ Start \/ WindowEvent
  \/ \E p \in Caller : \E c \in Command : Invoke(p, c)
  \/ \E th \in MainThread : Stop(th)
  \/ MainEnds

MXSpec == MXInit /\ [][MXNext]_mxVars

(* The main thread goes round its loop and every thread ends the call it is  *)
(* in; nobody has to stop the executor, and no window event has to come. *)
MXFairness ==
  /\ WF_mxVars(MainStep)
  /\ \A p \in Caller : WF_mxVars(Post(p) \/ InvokeReturns(p))
  /\ \A th \in MainThread :
       WF_mxVars(Stopped(th) \/ \E c \in Command : Skip(th, c))
MXFairSpec == MXSpec /\ MXFairness

-----------------------------------------------------------------------------
MXTypeOK ==
  /\ mainRunning \in BOOLEAN /\ generation \in 0 .. MaxRuns
  /\ DOMAIN stoppers \subseteq MainThread
  /\ \A th \in DOMAIN stoppers : stoppers[th] \subseteq Command
  /\ mainQueue \in Seq(Command)
  /\ frameBurst \in 0 .. FrameBurst
  /\ command \in [Command -> EMainCommandState]
  /\ postedIn \in [Command -> 0 .. MaxRuns]
  /\ caller \in [Caller -> [step : {"away", "post", "wait"},
                            cmd : Command \cup {NoCommand}, gen : 0 .. MaxRuns]]
  /\ mainAt \in {"off", "events", "drain", "run", "wait"}
  /\ current \in Command \cup {NoCommand}
  /\ drained \in 0 .. DrainLimit
  /\ nativeEvent \in BOOLEAN /\ overtaken \in Nat

(* A command runs in the run it was posted to or not at all, however the     *)
(* stop and the next start meet the post; what a stop takes out is skipped   *)
(* before the executor can start again. *)
CommandsKeepRun == \A c \in Command :
  /\ command[c] = "RUNNING" => postedIn[c] = generation /\ c = current
  /\ command[c] = "QUEUED" =>
       /\ postedIn[c] = generation
       /\ \/ mainRunning /\ c \in Range(mainQueue)
          \/ \E th \in DOMAIN stoppers : c \in stoppers[th]

(* Commands of frames go first, but no more than a burst of them. *)
BurstIsBounded == overtaken <= FrameBurst

(* The main thread does not sleep on a command it has to run. *)
WakeupReachesMain ==
  mainAt = "wait" /\ mainRunning /\ mainQueue # <<>> => nativeEvent

(* The main thread runs what its own run posted, lets no class of commands    *)
(* starve another beyond the burst, and misses no wakeup.                     *)
MainIsSafe ==
  MXTypeOK /\ CommandsKeepRun /\ BurstIsBounded /\ WakeupReachesMain

(* Invoke returns: its command is run, or skipped by a stop. *)
InvokesReturn == []<>(\A p \in Caller : caller[p] = Away)
=============================================================================
