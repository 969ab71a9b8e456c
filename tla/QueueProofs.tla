----------------------------- MODULE QueueProofs -----------------------------
(***************************************************************************)
(* Proofs about the queues that threads sleep on: the commands for the main *)
(* thread, the reads of resource files and the ready queues of the          *)
(* executor, for every number of threads, commands, reads and entries.      *)
(***************************************************************************)
EXTENDS ReadyScheduler, MainExecutor, ResourceIo,
        FiniteSetTheorems, SequenceTheorems, WellFoundedInduction, TLAPS

(***************************************************************************)
(* Commands for the main thread.                                            *)
(***************************************************************************)

(* The queue holds commands of this run only, each once, and no command that a
   stop took out of it. *)
QueueIsExact ==
  /\ mainQueue # <<>> => mainRunning
  /\ \A i \in DOMAIN mainQueue : command[mainQueue[i]] = "QUEUED"
  /\ \A i, j \in DOMAIN mainQueue : mainQueue[i] = mainQueue[j] => i = j
  /\ \A th \in DOMAIN stoppers : \A c \in stoppers[th] :
        /\ command[c] = "QUEUED"
        /\ \A i \in DOMAIN mainQueue : mainQueue[i] # c
        /\ \A u \in DOMAIN stoppers : c \in stoppers[u] => u = th

(* A command is new until its caller has posted it, and has one caller. *)
PostsAreNew ==
  \A p \in Caller : caller[p].step = "post" =>
     /\ caller[p].cmd \in Command /\ command[caller[p].cmd] = "NEW"
     /\ \A q \in Caller : caller[q].cmd = caller[p].cmd => q = p

(* What the main thread runs is what it has taken. *)
OneCommandRuns ==
  /\ mainAt = "run" => /\ current \in Command /\ command[current] = "RUNNING"
                       /\ drained < DrainLimit
  /\ \A c \in Command : command[c] = "RUNNING" => mainAt = "run" /\ c = current

(* The commands overtaken count towards the burst. *)
OvertakenCounts == overtaken <= frameBurst

MainInv ==
  /\ MXTypeOK
  /\ CommandsKeepRun
  /\ WakeupReachesMain
  /\ QueueIsExact
  /\ PostsAreNew
  /\ OneCommandRuns
  /\ OvertakenCounts

(***************************************************************************)
(* Reads.                                                                   *)
(***************************************************************************)

Unread(r) ==
  reads[r].caller \in {"ADMITTED", "RETURNED"} /\ reads[r].result = "NONE"
  /\ reads[r].completions = 0

(* A read is queued once, or held by one worker, until its callback has run. *)
QueuedReads ==
  /\ \A i \in DOMAIN pending : Unread(pending[i])
  /\ \A i, j \in DOMAIN pending : pending[i] = pending[j] => i = j
  /\ \A i \in DOMAIN pending : \A w \in Workers : workers[w].read # pending[i]

HeldReads ==
  /\ \A w \in Workers :
        /\ workers[w].read = NoRead <=> workers[w].at \in {"CHECK", "ASLEEP", "EXITED"}
        /\ workers[w].at \in {"BEGIN", "READ", "SETTLE"} => Unread(workers[w].read)
        /\ workers[w].at \in {"COMPLETE", "RELEASE"} =>
              /\ reads[workers[w].read].caller \in {"ADMITTED", "RETURNED"}
              /\ reads[workers[w].read].result # "NONE"
              /\ reads[workers[w].read].completions = IF workers[w].at = "COMPLETE" THEN 0 ELSE 1
  /\ \A v, w \in Workers : workers[v].read # NoRead /\ workers[v].read = workers[w].read => v = w

(* Every other read has not been admitted, or its callback has run. *)
OtherReads ==
  \A r \in Reads :
     \/ \E i \in DOMAIN pending : pending[i] = r
     \/ \E w \in Workers : workers[w].read = r
     \/ /\ reads[r].caller \in {"ADMITTED", "RETURNED"}
        /\ reads[r].result # "NONE" /\ reads[r].completions = 1
     \/ /\ reads[r].caller \in {"NEW", "REFUSED"}
        /\ reads[r].result = "NONE" /\ reads[r].completions = 0

(* A read that was late for the stop of the service is cancelled when its worker
   looks at it. *)
LateReads ==
  \A r \in late :
     /\ serviceStop /\ reads[r].result # "RETURNED"
     /\ \A w \in Workers : workers[w].read = r /\ workers[w].at \in {"READ", "SETTLE"} =>
                             reads[r].cancelled

(* A worker leaves when nothing is queued and nothing will be, and a shutdown
   returns when all have left. *)
WorkersLeave ==
  /\ \A w \in Workers : workers[w].at = "EXITED" => ioStopping /\ pending = <<>>
  /\ (\E s \in Stoppers : ioStoppers[s] = "RETURNED") =>
        \A w \in Workers : workers[w].at = "EXITED"

IoInv ==
  /\ IoTypeOK
  /\ OutstandingIsExact
  /\ QueuedReads
  /\ HeldReads
  /\ OtherReads
  /\ LateReads
  /\ WorkersLeave

(***************************************************************************)
(* Ready queues.                                                            *)
(***************************************************************************)

Gates == {gates[i] : i \in DOMAIN gates}

(* What a queue is: the elements behind its head are entries, each once. *)
Sound(q) ==
  /\ q \in [tasks : Seq(Entry \cup {Moved}), head : Nat]
  /\ q.head <= Len(q.tasks)
  /\ \A i \in q.head + 1 .. Len(q.tasks) : q.tasks[i] \in Entry
  /\ \A i, j \in q.head + 1 .. Len(q.tasks) : q.tasks[i] = q.tasks[j] => i = j

QueuesAreSound ==
  /\ queue \in [Queue -> [tasks : Seq(Entry \cup {Moved}), head : Nat]]
  /\ \A q \in Queue : Sound(queue[q])

(* An entry is in one place of one queue. *)
EntriesAreApart ==
  /\ \A q, r \in Queue : q # r => Live(queue[q]) \cap Live(queue[r]) = {}
  /\ \A i, j \in DOMAIN gates : gates[i] = gates[j] => i = j
  /\ \A q \in Queue : Live(queue[q]) \cap Gates = {}

EntriesArePublished ==
  /\ LiveEntries \subseteq 1 .. published
  /\ taken \subseteq 1 .. published

(* Nobody publishes once the pool stops, and a permit is due only to a
   publisher. *)
PublisherIsAlone ==
  /\ publisher # None => ~stopping
  /\ publisher = None => release = 0 /\ ~reserved
  /\ reserved => release = 0 /\ publisher \in Worker

PoolInv ==
  /\ TypeOK
  /\ QueuesAreSound
  /\ EntriesAreApart
  /\ EntriesArePublished
  /\ PublisherIsAlone
  /\ NoLostWakeup
  /\ ExitedMeansDrained

-----------------------------------------------------------------------------
(* Numbers and sequences. *)

(* A set of numbers has a smallest one. *)
LEMMA SmallestNumber ==
  ASSUME NEW T \in SUBSET Nat, T # {}
  PROVE  \E x \in T : \A y \in T : x <= y
<1>. DEFINE R == {ss \in Nat \X Nat : ss[1] < ss[2]}
<1>1. IsWellFoundedOn(R, Nat)
  BY NatLessThanWellFounded, Zenon DEF OpToRel
<1>2. \E x \in T : \A y \in T : ~ (<<y, x>> \in R)
  <2>. HIDE DEF R
  <2>. QED BY <1>1, WFMin
<1>3. PICK x \in T : \A y \in T : ~ (<<y, x>> \in R)
  BY <1>2
<1>4. ASSUME NEW y \in T, y < x
      PROVE  <<y, x>> \in R
  BY <1>4
<1>. HIDE DEF R
<1>5. \A y \in T : ~ (y < x)
  BY <1>3, <1>4
<1>. QED
  BY <1>5

(* First denotes it. *)
LEMMA FirstIsFirst ==
  ASSUME NEW T \in SUBSET Nat, T # {}
  PROVE  First(T) \in T
BY SmallestNumber DEF First

(* A sequence without its element k. *)
LEMMA Removed ==
  ASSUME NEW S, NEW s \in Seq(S), NEW k \in DOMAIN s
  PROVE  /\ RemoveAt(s, k) \in Seq(S)
         /\ Len(RemoveAt(s, k)) = Len(s) - 1
         /\ DOMAIN RemoveAt(s, k) = 1 .. Len(s) - 1
         /\ \A i \in 1 .. Len(s) - 1 :
               RemoveAt(s, k)[i] = IF i < k THEN s[i] ELSE s[i + 1]
<1>. DEFINE left == SubSeq(s, 1, k - 1)
            right == SubSeq(s, k + 1, Len(s))
<1>1. /\ Len(s) \in Nat /\ DOMAIN s = 1 .. Len(s) /\ k \in 1 .. Len(s)
      /\ \A i \in 1 .. Len(s) : s[i] \in S
  BY LenProperties
<1>2. /\ left \in Seq(S) /\ Len(left) = k - 1
      /\ \A i \in 1 .. k - 1 : left[i] = s[i]
  <2>1. /\ left \in Seq(S) /\ Len(left) = IF 1 <= k - 1 THEN k - 1 - 1 + 1 ELSE 0
        /\ \A i \in 1 .. k - 1 - 1 + 1 : left[i] = s[1 + i - 1]
    BY <1>1, SubSeqProperties
  <2>. HIDE DEF left
  <2>. QED
    BY <1>1, <2>1
<1>3. /\ right \in Seq(S) /\ Len(right) = Len(s) - k
      /\ \A i \in 1 .. Len(s) - k : right[i] = s[k + i]
  <2>1. /\ right \in Seq(S)
        /\ Len(right) = IF k + 1 <= Len(s) THEN Len(s) - (k + 1) + 1 ELSE 0
        /\ \A i \in 1 .. Len(s) - (k + 1) + 1 : right[i] = s[k + 1 + i - 1]
    BY <1>1, SubSeqProperties
  <2>. HIDE DEF right
  <2>2. Len(right) = Len(s) - k
    BY <1>1, <2>1
  <2>3. \A i \in 1 .. Len(s) - k : i \in 1 .. Len(s) - (k + 1) + 1 /\ k + 1 + i - 1 = k + i
    BY <1>1
  <2>. QED
    BY <2>1, <2>2, <2>3
<1>4. RemoveAt(s, k) = left \o right
  BY DEF RemoveAt
<1>. HIDE DEF left, right
<1>5. /\ left \o right \in Seq(S)
      /\ Len(left \o right) = Len(left) + Len(right)
      /\ \A i \in 1 .. Len(left) + Len(right) :
            (left \o right)[i] = IF i <= Len(left) THEN left[i] ELSE right[i - Len(left)]
  BY <1>2, <1>3, ConcatProperties
<1>6. Len(left) + Len(right) = Len(s) - 1
  BY <1>1, <1>2, <1>3
<1>7. ASSUME NEW i \in 1 .. Len(s) - 1
      PROVE  RemoveAt(s, k)[i] = IF i < k THEN s[i] ELSE s[i + 1]
  <2>1. CASE i < k
    <3>1. i <= Len(left) /\ i \in 1 .. k - 1
      BY <1>1, <1>2, <2>1
    <3>. QED
      BY <1>2, <1>4, <1>5, <1>6, <2>1, <3>1
  <2>2. CASE ~(i < k)
    <3>1. ~(i <= Len(left)) /\ i - Len(left) = i - k + 1
      BY <1>1, <1>2, <2>2
    <3>2. i - k + 1 \in 1 .. Len(s) - k /\ k + (i - k + 1) = i + 1
      BY <1>1, <2>2
    <3>3. right[i - k + 1] = s[i + 1]
      BY <1>3, <3>2
    <3>. QED
      BY <1>4, <1>5, <1>6, <2>2, <3>1, <3>3
  <2>. QED
    BY <2>1, <2>2
<1>8. DOMAIN RemoveAt(s, k) = 1 .. Len(s) - 1
  BY <1>4, <1>5, <1>6, LenProperties
<1>. QED
  BY <1>4, <1>5, <1>6, <1>7, <1>8

(* ... keeps the others, each once. *)
LEMMA RemovedKeeps ==
  ASSUME NEW S, NEW s \in Seq(S), NEW k \in DOMAIN s,
         \A i, j \in DOMAIN s : s[i] = s[j] => i = j,
         NEW r, r = RemoveAt(s, k)
  PROVE  /\ r \in Seq(S)
         /\ \A i, j \in DOMAIN r : r[i] = r[j] => i = j
         /\ Range(r) = Range(s) \ {s[k]}
<1>1. /\ r \in Seq(S) /\ DOMAIN r = 1 .. Len(s) - 1
      /\ \A i \in DOMAIN r : r[i] = IF i < k THEN s[i] ELSE s[i + 1]
  BY Removed
<1>2. Len(s) \in Nat /\ DOMAIN s = 1 .. Len(s) /\ k \in 1 .. Len(s)
  BY LenProperties
<1>3. ASSUME NEW i \in DOMAIN r
      PROVE  \E j \in DOMAIN s \ {k} : j = (IF i < k THEN i ELSE i + 1) /\ r[i] = s[j]
  BY <1>1, <1>2
<1>4. ASSUME NEW i \in DOMAIN r, NEW j \in DOMAIN r, r[i] = r[j]
      PROVE  i = j
  <2>1. PICK a \in DOMAIN s : a = (IF i < k THEN i ELSE i + 1) /\ r[i] = s[a]
    BY <1>3
  <2>2. PICK b \in DOMAIN s : b = (IF j < k THEN j ELSE j + 1) /\ r[j] = s[b]
    BY <1>3
  <2>3. a = b
    BY <1>4, <2>1, <2>2
  <2>. QED
    BY <1>1, <1>2, <2>1, <2>2, <2>3
<1>5. \A i \in DOMAIN r : r[i] \in Range(s) \ {s[k]}
  BY <1>3 DEF Range
<1>6. ASSUME NEW j \in DOMAIN s \ {k}
      PROVE  s[j] \in Range(r)
  <2>1. CASE j < k
    BY <1>1, <1>2, <2>1 DEF Range
  <2>2. CASE ~(j < k)
    <3>1. j - 1 \in DOMAIN r /\ ~(j - 1 < k) /\ j - 1 + 1 = j
      BY <1>1, <1>2, <2>2
    <3>2. r[j - 1] = s[j]
      BY <1>1, <3>1
    <3>. QED
      BY <3>1, <3>2 DEF Range
  <2>. QED
    BY <2>1, <2>2
<1>7. Range(r) = Range(s) \ {s[k]}
  BY <1>5, <1>6 DEF Range
<1>. QED
  BY <1>1, <1>4, <1>7

-----------------------------------------------------------------------------
(* Commands for the main thread. *)

LEMMA CommandsAre ==
  ASSUME MXTypeOK
  PROVE  /\ Len(mainQueue) \in Nat /\ DOMAIN mainQueue = 1 .. Len(mainQueue)
         /\ \A i \in DOMAIN mainQueue : mainQueue[i] \in Command
         /\ Range(mainQueue) = {mainQueue[i] : i \in DOMAIN mainQueue}
         /\ mainQueue = <<>> <=> Len(mainQueue) = 0
<1>1. mainQueue \in Seq(Command)
  BY DEF MXTypeOK
<1>2. mainQueue = <<>> <=> Len(mainQueue) = 0
  BY <1>1, EmptySeq
<1>. QED
  BY <1>1, <1>2, LenProperties DEF Range

LEMMA MainInitially ==
  ASSUME MXInit
  PROVE  MainInv
<1>1. MXTypeOK
  <2>1. mainQueue \in Seq(Command)
    BY EmptySeq DEF MXInit
  <2>2. caller \in [Caller -> [step : {"away", "post", "wait"},
                              cmd : Command \cup {NoCommand}, gen : 0 .. MaxRuns]]
    BY MainExecutorAssumption DEF MXInit, Away
  <2>3. command \in [Command -> EMainCommandState] /\ postedIn \in [Command -> 0 .. MaxRuns]
    BY MainExecutorAssumption DEF MXInit, EMainCommandState
  <2>4. DOMAIN stoppers = {}
    BY DEF MXInit
  <2>5. 0 \in 0 .. MaxRuns /\ 0 \in 0 .. FrameBurst /\ 0 \in 0 .. DrainLimit
    <3>. FrameBurst \in Nat /\ DrainLimit \in Nat /\ MaxRuns \in Nat
      BY MainExecutorAssumption
    <3>. QED
      OBVIOUS
  <2>6. /\ mainRunning \in BOOLEAN /\ generation \in 0 .. MaxRuns
        /\ frameBurst \in 0 .. FrameBurst /\ drained \in 0 .. DrainLimit
    BY <2>5 DEF MXInit
  <2>7. /\ mainAt = "off" /\ current = NoCommand
        /\ nativeEvent \in BOOLEAN /\ overtaken \in Nat
    BY DEF MXInit
  <2>. QED
    BY <2>1, <2>2, <2>3, <2>4, <2>6, <2>7 DEF MXTypeOK
<1>2. DOMAIN mainQueue = {}
  BY EmptySeq, LenProperties DEF MXInit
<1>. QED
  BY <1>1, <1>2 DEF MXInit, MainInv, CommandsKeepRun, WakeupReachesMain, QueueIsExact,
                    PostsAreNew, OneCommandRuns, OvertakenCounts, Away

LEMMA StartKeeps ==
  ASSUME MainInv, Start
  PROVE  MainInv'
<1>. USE DEF MainInv, Start
<1>1. MXTypeOK'
  BY MainExecutorAssumption DEF MXTypeOK
<1>2. mainQueue = <<>> /\ DOMAIN mainQueue = {}
  BY EmptySeq, CommandsAre DEF QueueIsExact
<1>3. CommandsKeepRun'
  BY <1>2 DEF CommandsKeepRun, OneCommandRuns
<1>4. QueueIsExact' /\ PostsAreNew' /\ OneCommandRuns'
  BY <1>2 DEF QueueIsExact, PostsAreNew, OneCommandRuns
<1>5. WakeupReachesMain' /\ OvertakenCounts'
  BY DEF WakeupReachesMain, OvertakenCounts
<1>. QED
  BY <1>1, <1>3, <1>4, <1>5

LEMMA InvokeKeeps ==
  ASSUME MainInv, NEW p \in Caller, NEW c \in Command, Invoke(p, c)
  PROVE  MainInv'
<1>. USE DEF MainInv, Invoke, mainVars
<1>1. [step |-> "post", cmd |-> c, gen |-> generation]
         \in [step : {"away", "post", "wait"}, cmd : Command \cup {NoCommand}, gen : 0 .. MaxRuns]
  BY DEF MXTypeOK
<1>2. /\ caller'[p] = [step |-> "post", cmd |-> c, gen |-> generation]
      /\ \A q \in Caller \ {p} : caller'[q] = caller[q]
  BY DEF MXTypeOK
<1>3. MXTypeOK'
  BY <1>1 DEF MXTypeOK
<1>4. CommandsKeepRun' /\ WakeupReachesMain'
  BY DEF CommandsKeepRun, WakeupReachesMain
<1>5. QueueIsExact' /\ OneCommandRuns' /\ OvertakenCounts'
  BY DEF QueueIsExact, OneCommandRuns, OvertakenCounts
<1>6. PostsAreNew'
  BY <1>2 DEF PostsAreNew
<1>. QED
  BY <1>3, <1>4, <1>5, <1>6

LEMMA PostKeeps ==
  ASSUME MainInv, NEW p \in Caller, Post(p)
  PROVE  MainInv'
<1>. USE DEF MainInv, mainVars
<1>1. PICK c \in Command : c = caller[p].cmd
  BY DEF PostsAreNew, Post
<1>2. /\ caller[p].step = "post" /\ command[c] = "NEW"
      /\ \A q \in Caller : caller[q].cmd = c => q = p
      /\ caller' = [caller EXCEPT ![p].step = "wait"]
      /\ UNCHANGED <<mainRunning, generation, stoppers, frameBurst, mainAt, current, drained,
                     overtaken>>
  BY <1>1 DEF PostsAreNew, Post
<1>3. /\ caller' \in [Caller -> [step : {"away", "post", "wait"},
                                 cmd : Command \cup {NoCommand}, gen : 0 .. MaxRuns]]
      /\ caller'[p].step = "wait"
      /\ \A q \in Caller \ {p} : caller'[q] = caller[q]
  BY <1>2 DEF MXTypeOK
<1>4. /\ \A i \in DOMAIN mainQueue : mainQueue[i] # c
      /\ \A th \in DOMAIN stoppers : c \notin stoppers[th]
  BY <1>2 DEF QueueIsExact
<1>5. CASE Admits(p)
  <2>1. /\ mainQueue' = Append(mainQueue, c)
        /\ command' = [command EXCEPT ![c] = "QUEUED"]
        /\ postedIn' = [postedIn EXCEPT ![c] = generation]
        /\ nativeEvent' = TRUE /\ mainRunning
    BY <1>1, <1>5 DEF Post, Admits
  <2>2. /\ command'[c] = "QUEUED" /\ postedIn'[c] = generation
        /\ \A d \in Command \ {c} : command'[d] = command[d] /\ postedIn'[d] = postedIn[d]
    BY <2>1 DEF MXTypeOK
  <2>3. /\ mainQueue' \in Seq(Command) /\ DOMAIN mainQueue' = DOMAIN mainQueue \cup {Len(mainQueue) + 1}
        /\ mainQueue'[Len(mainQueue) + 1] = c /\ Len(mainQueue) + 1 \notin DOMAIN mainQueue
        /\ \A i \in DOMAIN mainQueue : mainQueue'[i] = mainQueue[i]
    <3>1. mainQueue \in Seq(Command) /\ Len(mainQueue) \in Nat
      BY CommandsAre DEF MXTypeOK
    <3>2. /\ mainQueue' \in Seq(Command) /\ Len(mainQueue') = Len(mainQueue) + 1
          /\ \A i \in 1 .. Len(mainQueue) : mainQueue'[i] = mainQueue[i]
          /\ mainQueue'[Len(mainQueue) + 1] = c
      BY <2>1, <3>1, AppendProperties
    <3>3. DOMAIN mainQueue' = 1 .. Len(mainQueue) + 1
      BY <3>2, LenProperties
    <3>4. DOMAIN mainQueue = 1 .. Len(mainQueue)
      BY CommandsAre
    <3>. QED
      BY <3>1, <3>2, <3>3, <3>4
  <2>4. MXTypeOK'
    BY <1>2, <1>3, <2>1, <2>3 DEF MXTypeOK, EMainCommandState
  <2>5. CommandsKeepRun'
    <3>1. ASSUME NEW d \in Command
          PROVE  /\ command'[d] = "RUNNING" => postedIn'[d] = generation /\ d = current
                 /\ command'[d] = "QUEUED" =>
                      /\ postedIn'[d] = generation
                      /\ \/ mainRunning /\ d \in Range(mainQueue')
                         \/ \E th \in DOMAIN stoppers : d \in stoppers[th]
      <4>1. CASE d = c
        BY <2>1, <2>2, <2>3, <4>1 DEF Range
      <4>2. CASE d # c
        BY <2>2, <2>3, <4>2 DEF CommandsKeepRun, Range
      <4>. QED
        BY <4>1, <4>2
    <3>. QED
      BY <1>2, <3>1 DEF CommandsKeepRun
  <2>6. QueueIsExact'
    <3>1. \A i \in DOMAIN mainQueue' : command'[mainQueue'[i]] = "QUEUED"
      BY <1>4, <2>2, <2>3, CommandsAre DEF QueueIsExact
    <3>2. \A i, j \in DOMAIN mainQueue' : mainQueue'[i] = mainQueue'[j] => i = j
      BY <1>4, <2>3 DEF QueueIsExact
    <3>3. \A th \in DOMAIN stoppers : \A d \in stoppers[th] :
            /\ command'[d] = "QUEUED"
            /\ \A i \in DOMAIN mainQueue' : mainQueue'[i] # d
            /\ \A u \in DOMAIN stoppers : d \in stoppers[u] => u = th
      BY <1>4, <2>2, <2>3 DEF QueueIsExact, MXTypeOK
    <3>. QED
      BY <1>2, <2>1, <3>1, <3>2, <3>3 DEF QueueIsExact
  <2>7. PostsAreNew'
    BY <1>2, <1>3, <2>2 DEF PostsAreNew
  <2>8. OneCommandRuns'
    BY <1>2, <2>2 DEF OneCommandRuns
  <2>9. WakeupReachesMain' /\ OvertakenCounts'
    BY <1>2, <2>1 DEF WakeupReachesMain, OvertakenCounts
  <2>. QED
    BY <2>4, <2>5, <2>6, <2>7, <2>8, <2>9
<1>6. CASE ~Admits(p)
  <2>1. /\ command' = [command EXCEPT ![c] = "SKIPPED"]
        /\ mainQueue' = mainQueue /\ postedIn' = postedIn /\ nativeEvent' = nativeEvent
    BY <1>1, <1>6 DEF Post
  <2>2. /\ command'[c] = "SKIPPED"
        /\ \A d \in Command \ {c} : command'[d] = command[d]
    BY <2>1 DEF MXTypeOK
  <2>3. MXTypeOK'
    BY <1>2, <1>3, <2>1 DEF MXTypeOK, EMainCommandState
  <2>4. CommandsKeepRun' /\ OneCommandRuns'
    BY <1>2, <2>1, <2>2 DEF CommandsKeepRun, OneCommandRuns
  <2>5. QueueIsExact'
    BY <1>2, <1>4, <2>1, <2>2, CommandsAre DEF QueueIsExact, MXTypeOK
  <2>6. PostsAreNew'
    BY <1>2, <1>3, <2>2 DEF PostsAreNew
  <2>7. WakeupReachesMain' /\ OvertakenCounts'
    BY <1>2, <2>1 DEF WakeupReachesMain, OvertakenCounts
  <2>. QED
    BY <2>3, <2>4, <2>5, <2>6, <2>7
<1>. QED
  BY <1>5, <1>6

LEMMA InvokeReturnsKeeps ==
  ASSUME MainInv, NEW p \in Caller, InvokeReturns(p)
  PROVE  MainInv'
<1>. USE DEF MainInv, InvokeReturns, mainVars
<1>1. /\ caller'[p] = Away
      /\ \A q \in Caller \ {p} : caller'[q] = caller[q]
  BY DEF MXTypeOK
<1>2. MXTypeOK'
  BY MainExecutorAssumption DEF MXTypeOK, Away
<1>3. CommandsKeepRun' /\ WakeupReachesMain'
  BY DEF CommandsKeepRun, WakeupReachesMain
<1>4. QueueIsExact' /\ OneCommandRuns' /\ OvertakenCounts'
  BY DEF QueueIsExact, OneCommandRuns, OvertakenCounts
<1>5. PostsAreNew'
  BY <1>1, MainExecutorAssumption DEF PostsAreNew, Away
<1>. QED
  BY <1>2, <1>3, <1>4, <1>5

LEMMA StopKeeps ==
  ASSUME MainInv, NEW th \in MainThread, Stop(th)
  PROVE  MainInv'
<1>. USE DEF MainInv, mainVars
<1>1. /\ mainRunning' = FALSE /\ mainQueue' = <<>> /\ overtaken' = 0
      /\ th \notin DOMAIN stoppers
      /\ UNCHANGED <<generation, frameBurst, command, postedIn, caller, mainAt, current,
                     drained, nativeEvent>>
  BY DEF Stop, CanStop
<1>2. /\ DOMAIN stoppers' = DOMAIN stoppers \cup {th}
      /\ stoppers'[th] = Range(mainQueue)
      /\ \A u \in DOMAIN stoppers : stoppers'[u] = stoppers[u]
  BY <1>1 DEF Stop
<1>3. Range(mainQueue) \subseteq Command
  BY CommandsAre
<1>4. mainQueue' \in Seq(Command) /\ DOMAIN mainQueue' = {}
  BY <1>1, EmptySeq, LenProperties
<1>5. MXTypeOK'
  BY <1>1, <1>2, <1>3, <1>4 DEF MXTypeOK
<1>6. CommandsKeepRun'
  BY <1>1, <1>2 DEF CommandsKeepRun
<1>7. QueueIsExact'
  <2>1. ASSUME NEW u \in DOMAIN stoppers', NEW c \in stoppers'[u]
        PROVE  /\ command[c] = "QUEUED"
               /\ \A v \in DOMAIN stoppers' : c \in stoppers'[v] => v = u
    <3>1. CASE u = th
      <4>1. PICK i \in DOMAIN mainQueue : c = mainQueue[i]
        BY <1>2, <2>1, <3>1, CommandsAre
      <4>. QED
        BY <1>2, <3>1, <4>1 DEF QueueIsExact
    <3>2. CASE u # th
      <4>1. u \in DOMAIN stoppers /\ c \in stoppers[u]
        BY <1>2, <2>1, <3>2
      <4>2. c \notin Range(mainQueue)
        BY <4>1, CommandsAre DEF QueueIsExact
      <4>. QED
        BY <1>2, <4>1, <4>2 DEF QueueIsExact
    <3>. QED
      BY <3>1, <3>2
  <2>. QED
    BY <1>1, <1>4, <2>1 DEF QueueIsExact
<1>8. PostsAreNew' /\ OneCommandRuns' /\ WakeupReachesMain'
  BY <1>1 DEF PostsAreNew, OneCommandRuns, WakeupReachesMain
<1>9. OvertakenCounts'
  BY <1>1 DEF OvertakenCounts, MXTypeOK
<1>. QED
  BY <1>5, <1>6, <1>7, <1>8, <1>9

LEMMA SkipKeeps ==
  ASSUME MainInv, NEW th \in MainThread, NEW c \in Command, Skip(th, c)
  PROVE  MainInv'
<1>. USE DEF MainInv, mainVars
<1>1. /\ th \in DOMAIN stoppers /\ c \in stoppers[th]
      /\ UNCHANGED <<mainRunning, generation, mainQueue, frameBurst, postedIn, caller, mainAt,
                     current, drained, nativeEvent, overtaken>>
  BY DEF Skip
<1>2. /\ DOMAIN stoppers' = DOMAIN stoppers
      /\ stoppers'[th] = stoppers[th] \ {c}
      /\ \A u \in DOMAIN stoppers \ {th} : stoppers'[u] = stoppers[u]
  BY <1>1 DEF Skip
<1>3. /\ command' = [command EXCEPT ![c] = "SKIPPED"] /\ command'[c] = "SKIPPED"
      /\ \A d \in Command \ {c} : command'[d] = command[d]
  BY DEF Skip, MXTypeOK
<1>4. /\ command[c] = "QUEUED" /\ \A i \in DOMAIN mainQueue : mainQueue[i] # c
      /\ \A u \in DOMAIN stoppers : c \in stoppers[u] => u = th
  BY <1>1 DEF QueueIsExact
<1>5. MXTypeOK'
  BY <1>1, <1>2, <1>3 DEF MXTypeOK, EMainCommandState
<1>6. CommandsKeepRun'
  BY <1>1, <1>2, <1>3 DEF CommandsKeepRun
<1>7. QueueIsExact'
  <2>1. ASSUME NEW u \in DOMAIN stoppers', NEW d \in stoppers'[u]
        PROVE  /\ command'[d] = "QUEUED"
               /\ \A i \in DOMAIN mainQueue : mainQueue[i] # d
               /\ \A v \in DOMAIN stoppers' : d \in stoppers'[v] => v = u
    <3>1. u \in DOMAIN stoppers /\ d \in stoppers[u] /\ d # c
      BY <1>2, <1>4, <2>1
    <3>2. d \in Command
      BY <3>1 DEF MXTypeOK
    <3>3. \A v \in DOMAIN stoppers' : d \in stoppers'[v] => d \in stoppers[v]
      BY <1>2
    <3>. QED
      BY <1>2, <1>3, <3>1, <3>2, <3>3 DEF QueueIsExact
  <2>2. \A i \in DOMAIN mainQueue : command'[mainQueue[i]] = "QUEUED"
    BY <1>3, <1>4, CommandsAre DEF QueueIsExact
  <2>. QED
    BY <1>1, <2>1, <2>2 DEF QueueIsExact
<1>8. PostsAreNew' /\ OneCommandRuns'
  BY <1>1, <1>3, <1>4 DEF PostsAreNew, OneCommandRuns
<1>9. WakeupReachesMain' /\ OvertakenCounts'
  BY <1>1 DEF WakeupReachesMain, OvertakenCounts
<1>. QED
  BY <1>5, <1>6, <1>7, <1>8, <1>9

LEMMA StoppedKeeps ==
  ASSUME MainInv, NEW th \in MainThread, Stopped(th)
  PROVE  MainInv'
<1>. USE DEF MainInv
<1>1. /\ th \in DOMAIN stoppers /\ stoppers[th] = {}
      /\ mainAt' = (IF th = Main /\ mainAt = "events" THEN "off" ELSE mainAt)
      /\ UNCHANGED <<mainRunning, generation, mainQueue, frameBurst, command, postedIn, caller,
                     current, drained, nativeEvent, overtaken>>
  BY DEF Stopped
<1>2. /\ DOMAIN stoppers' = DOMAIN stoppers \ {th}
      /\ \A u \in DOMAIN stoppers' : stoppers'[u] = stoppers[u]
  BY DEF Stopped
<1>3. MXTypeOK'
  BY <1>1, <1>2 DEF MXTypeOK
<1>4. CommandsKeepRun'
  BY <1>1, <1>2 DEF CommandsKeepRun
<1>5. QueueIsExact' /\ PostsAreNew' /\ OneCommandRuns'
  BY <1>1, <1>2 DEF QueueIsExact, PostsAreNew, OneCommandRuns
<1>6. WakeupReachesMain' /\ OvertakenCounts'
  BY <1>1 DEF WakeupReachesMain, OvertakenCounts
<1>. QED
  BY <1>3, <1>4, <1>5, <1>6

LEMMA ProcessEventsKeeps ==
  ASSUME MainInv, ProcessEvents
  PROVE  MainInv'
<1>. USE DEF MainInv, ProcessEvents
<1>. DrainLimit \in Nat
  BY MainExecutorAssumption
<1>0. 0 \in 0 .. DrainLimit
  OBVIOUS
<1>1. MXTypeOK'
  BY <1>0 DEF MXTypeOK
<1>2. CommandsKeepRun' /\ QueueIsExact' /\ PostsAreNew'
  BY DEF CommandsKeepRun, QueueIsExact, PostsAreNew
<1>3. OneCommandRuns' /\ WakeupReachesMain' /\ OvertakenCounts'
  BY DEF OneCommandRuns, WakeupReachesMain, OvertakenCounts
<1>. QED
  BY <1>1, <1>2, <1>3

(* The command selected is one of the queue, and one without a frame when a burst
   has passed those. *)
LEMMA SelectedIsQueued ==
  ASSUME MXTypeOK, mainQueue # <<>>
  PROVE  /\ Selected \in DOMAIN mainQueue
         /\ Unframed # {} /\ frameBurst >= FrameBurst => Selected \in Unframed
<1>1. /\ DOMAIN mainQueue \subseteq Nat /\ DOMAIN mainQueue # {}
      /\ \A i \in DOMAIN mainQueue : FrameAt(i) \in Nat
  BY CommandsAre, MainExecutorAssumption DEF FrameAt
<1>2. Unframed \subseteq DOMAIN mainQueue /\ Framed = DOMAIN mainQueue \ Unframed
  BY DEF Unframed, Framed
<1>3. Unframed # {} => First(Unframed) \in Unframed
  BY <1>1, <1>2, FirstIsFirst
<1>. DEFINE earliest == {i \in Framed : \A j \in Framed : FrameAt(i) <= FrameAt(j)}
<1>4. Framed # {} => earliest # {}
  <2>. DEFINE frames == {FrameAt(i) : i \in Framed}
  <2>1. HAVE Framed # {}
  <2>2. frames \in SUBSET Nat /\ frames # {}
    BY <1>1, <1>2, <2>1
  <2>3. PICK f \in frames : \A g \in frames : f <= g
    BY <2>2, SmallestNumber
  <2>4. PICK i \in Framed : FrameAt(i) = f
    OBVIOUS
  <2>. QED
    BY <2>3, <2>4
<1>5. Framed # {} => First(earliest) \in Framed
  <2>1. HAVE Framed # {}
  <2>2. earliest \in SUBSET Nat /\ earliest # {}
    BY <1>1, <1>2, <1>4, <2>1
  <2>3. First(earliest) \in earliest
    BY <2>2, FirstIsFirst
  <2>. QED
    BY <2>3
<1>6. CASE Framed = {} \/ (Unframed # {} /\ frameBurst >= FrameBurst)
  <2>1. Unframed # {}
    BY <1>1, <1>2, <1>6
  <2>2. Selected = First(Unframed)
    BY <1>6 DEF Selected
  <2>. QED
    BY <1>2, <1>3, <2>1, <2>2
<1>7. CASE ~(Framed = {} \/ (Unframed # {} /\ frameBurst >= FrameBurst))
  <2>1. Selected = First(earliest)
    BY <1>7 DEF Selected
  <2>. QED
    BY <1>2, <1>5, <1>7, <2>1
<1>. QED
  BY <1>6, <1>7

LEMMA TakeKeeps ==
  ASSUME MainInv, Take
  PROVE  MainInv'
<1>. USE DEF MainInv
<1>1. PICK k \in DOMAIN mainQueue :
        k = Selected /\ (Unframed # {} /\ frameBurst >= FrameBurst => k \in Unframed)
  BY SelectedIsQueued DEF Take
<1>2. PICK c \in Command : c = mainQueue[k]
  BY CommandsAre
<1>3. /\ mainAt = "drain" /\ drained < DrainLimit /\ mainRunning
      /\ current' = c /\ command' = [command EXCEPT ![c] = "RUNNING"]
      /\ frameBurst' = (IF OriginOf[c] = 0 THEN 0
                        ELSE IF frameBurst < FrameBurst THEN frameBurst + 1 ELSE FrameBurst)
      /\ overtaken' = (IF OriginOf[c] # 0 /\ Unframed # {} THEN overtaken + 1 ELSE 0)
      /\ mainQueue' = RemoveAt(mainQueue, k) /\ mainAt' = "run"
      /\ UNCHANGED <<mainRunning, generation, stoppers, postedIn, caller, drained, nativeEvent>>
  BY <1>1, <1>2 DEF Take
<1>4. /\ mainQueue' \in Seq(Command)
      /\ \A i, j \in DOMAIN mainQueue' : mainQueue'[i] = mainQueue'[j] => i = j
      /\ Range(mainQueue') = Range(mainQueue) \ {c}
  BY <1>2, <1>3, RemovedKeeps DEF MXTypeOK, QueueIsExact
<1>5. /\ command'[c] = "RUNNING" /\ \A d \in Command \ {c} : command'[d] = command[d]
      /\ command[c] = "QUEUED" /\ c \in Range(mainQueue)
      /\ \A d \in Command : command[d] # "RUNNING"
  BY <1>2, <1>3, CommandsAre DEF MXTypeOK, QueueIsExact, OneCommandRuns
<1>6. MXTypeOK'
  <2>1. frameBurst' \in 0 .. FrameBurst
    BY <1>3, MainExecutorAssumption DEF MXTypeOK
  <2>2. overtaken' \in Nat
    BY <1>3 DEF MXTypeOK
  <2>3. command' \in [Command -> EMainCommandState]
    BY <1>3 DEF MXTypeOK, EMainCommandState
  <2>. QED
    BY <1>3, <1>4, <2>1, <2>2, <2>3 DEF MXTypeOK
<1>7. CommandsKeepRun'
  <2>1. postedIn[c] = generation
    BY <1>5 DEF CommandsKeepRun
  <2>2. ASSUME NEW d \in Command
        PROVE  /\ command'[d] = "RUNNING" => postedIn[d] = generation /\ d = c
               /\ command'[d] = "QUEUED" =>
                    /\ postedIn[d] = generation
                    /\ \/ mainRunning /\ d \in Range(mainQueue')
                       \/ \E th \in DOMAIN stoppers : d \in stoppers[th]
    BY <1>4, <1>5, <2>1 DEF CommandsKeepRun
  <2>. QED
    BY <1>3, <2>2 DEF CommandsKeepRun
<1>8. QueueIsExact'
  <2>1. \A i \in DOMAIN mainQueue' : mainQueue'[i] \in Range(mainQueue) /\ mainQueue'[i] # c
    BY <1>4 DEF Range
  <2>2. \A i \in DOMAIN mainQueue' : \E j \in DOMAIN mainQueue : mainQueue'[i] = mainQueue[j]
    BY <2>1, CommandsAre
  <2>3. \A i \in DOMAIN mainQueue' : command'[mainQueue'[i]] = "QUEUED"
    BY <1>5, <2>1, <2>2, CommandsAre DEF QueueIsExact
  <2>4. \A th \in DOMAIN stoppers : \A d \in stoppers[th] :
          /\ command'[d] = "QUEUED"
          /\ \A i \in DOMAIN mainQueue' : mainQueue'[i] # d
          /\ \A u \in DOMAIN stoppers : d \in stoppers[u] => u = th
    BY <1>2, <1>5, <2>2 DEF QueueIsExact, MXTypeOK
  <2>. QED
    BY <1>3, <1>4, <2>3, <2>4 DEF QueueIsExact
<1>9. PostsAreNew'
  BY <1>3, <1>5 DEF PostsAreNew
<1>10. OneCommandRuns'
  BY <1>3, <1>5 DEF OneCommandRuns
<1>11. WakeupReachesMain'
  BY <1>3 DEF WakeupReachesMain
<1>12. OvertakenCounts'
  <2>1. k \in Unframed => OriginOf[c] = 0
    BY <1>2 DEF Unframed
  <2>2. OriginOf[c] # 0 /\ Unframed # {} => frameBurst < FrameBurst
    BY <1>1, <2>1, MainExecutorAssumption DEF MXTypeOK
  <2>. QED
    BY <1>3, <1>6, <2>2, MainExecutorAssumption DEF OvertakenCounts, MXTypeOK
<1>. QED
  BY <1>6, <1>7, <1>8, <1>9, <1>10, <1>11, <1>12

LEMMA FinishCommandKeeps ==
  ASSUME MainInv, NEW s \in {"COMPLETED", "FAILED"}, FinishCommand(s)
  PROVE  MainInv'
<1>. USE DEF MainInv, FinishCommand
<1>1. /\ current \in Command /\ command[current] = "RUNNING" /\ drained < DrainLimit
      /\ mainAt = "run" /\ mainAt' = "drain"
  BY DEF OneCommandRuns
<1>2. /\ command'[current] = s
      /\ \A d \in Command \ {current} : command'[d] = command[d]
  BY <1>1 DEF MXTypeOK
<1>3. MXTypeOK'
  BY <1>1, MainExecutorAssumption DEF MXTypeOK, EMainCommandState
<1>4. CommandsKeepRun'
  BY <1>1, <1>2 DEF CommandsKeepRun, OneCommandRuns
<1>5. QueueIsExact'
  BY <1>1, <1>2, CommandsAre DEF QueueIsExact, MXTypeOK
<1>6. PostsAreNew' /\ OneCommandRuns'
  BY <1>1, <1>2 DEF PostsAreNew, OneCommandRuns
<1>7. WakeupReachesMain' /\ OvertakenCounts'
  BY <1>1 DEF WakeupReachesMain, OvertakenCounts
<1>. QED
  BY <1>3, <1>4, <1>5, <1>6, <1>7

LEMMA DrainEndsKeeps ==
  ASSUME MainInv, DrainEnds
  PROVE  MainInv'
<1>. USE DEF MainInv, DrainEnds
<1>1. MXTypeOK'
  BY MainExecutorAssumption DEF MXTypeOK
<1>2. CommandsKeepRun' /\ QueueIsExact' /\ PostsAreNew'
  BY DEF CommandsKeepRun, QueueIsExact, PostsAreNew
<1>3. OneCommandRuns' /\ OvertakenCounts'
  BY DEF OneCommandRuns, OvertakenCounts
<1>4. WakeupReachesMain'
  BY MainExecutorAssumption DEF WakeupReachesMain
<1>. QED
  BY <1>1, <1>2, <1>3, <1>4

LEMMA WaitEventsKeeps ==
  ASSUME MainInv, WaitEvents \/ WindowEvent
  PROVE  MainInv'
<1>. USE DEF MainInv, WaitEvents, WindowEvent, mainVars
<1>1. MXTypeOK'
  BY DEF MXTypeOK
<1>2. CommandsKeepRun' /\ QueueIsExact' /\ PostsAreNew'
  BY DEF CommandsKeepRun, QueueIsExact, PostsAreNew
<1>3. OneCommandRuns' /\ OvertakenCounts' /\ WakeupReachesMain'
  BY DEF OneCommandRuns, OvertakenCounts, WakeupReachesMain
<1>. QED
  BY <1>1, <1>2, <1>3

LEMMA MainStutters ==
  ASSUME MainInv, UNCHANGED mxVars
  PROVE  MainInv'
BY DEF MainInv, mxVars, mainVars, MXTypeOK, CommandsKeepRun, WakeupReachesMain, QueueIsExact,
       PostsAreNew, OneCommandRuns, OvertakenCounts

(* For every set of commands and callers, every burst and every number of runs: a
   command runs in the run it was posted to or not at all, no class of commands
   starves the other beyond the burst, and the main thread does not sleep on a
   command. *)
THEOREM MainSafe == MXSpec => []MainIsSafe
<1>1. MXInit => MainInv
  BY MainInitially
<1>2. MainInv /\ [MXNext]_mxVars => MainInv'
  <2>1. ASSUME MainInv, MXNext
        PROVE  MainInv'
    BY <2>1, StartKeeps, InvokeKeeps, PostKeeps, InvokeReturnsKeeps, StopKeeps, SkipKeeps,
       StoppedKeeps, ProcessEventsKeeps, TakeKeeps, FinishCommandKeeps, DrainEndsKeeps,
       WaitEventsKeeps DEF MXNext, MainEnds, MainStep
  <2>. QED
    BY <2>1, MainStutters
<1>3. MainInv => MainIsSafe
  <2>. SUFFICES ASSUME MainInv PROVE MainIsSafe
    OBVIOUS
  <2>1. overtaken \in Nat /\ frameBurst \in 0 .. FrameBurst /\ overtaken <= frameBurst
    BY DEF MainInv, OvertakenCounts, MXTypeOK
  <2>2. BurstIsBounded
    <3>. FrameBurst \in Nat
      BY MainExecutorAssumption
    <3>. QED
      BY <2>1 DEF BurstIsBounded
  <2>. QED
    BY <2>2 DEF MainInv, MainIsSafe
<1>. QED
  BY <1>1, <1>2, <1>3, PTL DEF MXSpec

-----------------------------------------------------------------------------
(* Reads. *)

(* The workers that hold a read. *)
Busy == {w \in Workers : workers[w].read # NoRead}

(* Ways the set of them may change. *)
LEMMA BusyCounts ==
  /\ IsFiniteSet(Busy) /\ Cardinality(Busy) \in Nat
  /\ \A w \in Workers :
        /\ w \notin Busy => Cardinality(Busy \cup {w}) = Cardinality(Busy) + 1
        /\ w \in Busy => Cardinality(Busy \ {w}) = Cardinality(Busy) - 1
<1>1. IsFiniteSet(Busy)
  <2>1. IsFiniteSet(Workers) /\ Busy \in SUBSET Workers
    BY ResourceIoAssumption DEF Busy
  <2>. HIDE DEF Busy
  <2>. QED
    BY <2>1, FS_Subset
<1>. HIDE DEF Busy
<1>. QED
  BY <1>1, FS_CardinalityType, FS_AddElement, FS_RemoveElement

LEMMA ReadsAre ==
  ASSUME IoInv
  PROVE  /\ Len(pending) \in Nat /\ DOMAIN pending = 1 .. Len(pending)
         /\ \A i \in DOMAIN pending : pending[i] \in Reads
         /\ pending = <<>> <=> Len(pending) = 0
         /\ \A w \in Workers :
               /\ workers[w].at \in WorkerStates /\ workers[w].read \in Reads \cup {NoRead}
               /\ workers[w] = [at |-> workers[w].at, read |-> workers[w].read]
               /\ workers[w].read # NoRead =>
                     reads[workers[w].read].caller \in {"ADMITTED", "RETURNED"}
         /\ \A r \in Reads :
               /\ reads[r].caller \in Callers /\ reads[r].cancelled \in BOOLEAN
               /\ reads[r].result \in Results /\ reads[r].completions \in Nat
<1>1. pending \in Seq(Reads)
  BY DEF IoInv, IoTypeOK
<1>2. pending = <<>> <=> Len(pending) = 0
  BY <1>1, EmptySeq
<1>3. \A w \in Workers :
         /\ workers[w].at \in WorkerStates /\ workers[w].read \in Reads \cup {NoRead}
         /\ workers[w] = [at |-> workers[w].at, read |-> workers[w].read]
  BY DEF IoInv, IoTypeOK
<1>4. ASSUME NEW w \in Workers, workers[w].read # NoRead
      PROVE  reads[workers[w].read].caller \in {"ADMITTED", "RETURNED"}
  BY <1>3, <1>4 DEF IoInv, HeldReads, Unread, WorkerStates
<1>5. \A r \in Reads :
         /\ reads[r].caller \in Callers /\ reads[r].cancelled \in BOOLEAN
         /\ reads[r].result \in Results /\ reads[r].completions \in Nat
  BY DEF IoInv, IoTypeOK
<1>. QED
  BY <1>1, <1>2, <1>3, <1>4, <1>5, LenProperties

LEMMA IoInitially ==
  ASSUME IoInit
  PROVE  IoInv
<1>1. IoTypeOK
  <2>1. pending \in Seq(Reads)
    BY EmptySeq DEF IoInit
  <2>2. reads \in [Reads -> [caller : Callers, cancelled : BOOLEAN, result : Results,
                             completions : Nat]]
    BY DEF IoInit, Callers, Results
  <2>3. workers \in [Workers -> [at : WorkerStates, read : Reads \cup {NoRead}]]
    BY DEF IoInit, WorkerStates
  <2>4. ioStoppers \in [Stoppers -> StopperStates]
    BY DEF IoInit, StopperStates
  <2>. QED
    BY <2>1, <2>2, <2>3, <2>4 DEF IoTypeOK, IoInit
<1>2. Len(pending) = 0 /\ DOMAIN pending = {}
  BY EmptySeq, LenProperties DEF IoInit
<1>3. OutstandingIsExact
  <2>1. {w \in Workers : workers[w].read # NoRead} = {}
    BY DEF IoInit
  <2>. MaxPendingReads \in Nat
    BY ResourceIoAssumption
  <2>2. outstanding = 0
    BY DEF IoInit
  <2>. QED
    BY <1>2, <2>1, <2>2, FS_EmptySet DEF OutstandingIsExact
<1>. QED
  BY <1>1, <1>2, <1>3 DEF IoInit, IoInv, QueuedReads, HeldReads, OtherReads, LateReads,
                          WorkersLeave

(* A step that leaves the queue and the workers alone, and of a read changes only
   its caller, as long as it stays admitted or not, and its cancellation, towards
   cancelled. *)
LEMMA CallerKeeps ==
  ASSUME IoInv,
         NEW r \in Reads,
         NEW new \in [caller : Callers, cancelled : BOOLEAN, result : Results, completions : Nat],
         reads' = [reads EXCEPT ![r] = new],
         new.result = reads[r].result, new.completions = reads[r].completions,
         \/ new.caller = reads[r].caller
         \/ {new.caller, reads[r].caller} \subseteq {"ADMITTED", "RETURNED"}
         \/ {new.caller, reads[r].caller} \subseteq {"NEW", "REFUSED"},
         reads[r].cancelled => new.cancelled
  PROVE  /\ reads' \in [Reads -> [caller : Callers, cancelled : BOOLEAN, result : Results,
                                  completions : Nat]]
         /\ \A q \in Reads :
               /\ reads'[q].result = reads[q].result
               /\ reads'[q].completions = reads[q].completions
               /\ reads[q].cancelled => reads'[q].cancelled
               /\ reads'[q].caller \in {"ADMITTED", "RETURNED"} <=>
                     reads[q].caller \in {"ADMITTED", "RETURNED"}
               /\ reads'[q].caller \in {"NEW", "REFUSED"} <=>
                     reads[q].caller \in {"NEW", "REFUSED"}
<1>1. /\ reads' \in [Reads -> [caller : Callers, cancelled : BOOLEAN, result : Results,
                               completions : Nat]]
      /\ reads'[r] = new
      /\ \A q \in Reads : q # r => reads'[q] = reads[q]
  BY DEF IoInv, IoTypeOK
<1>. QED
  BY <1>1

(* A step that only does that keeps the invariant, whichever of the sleeping
   workers it wakes. *)
LEMMA SameReadsKeep ==
  ASSUME IoInv,
         reads' \in [Reads -> [caller : Callers, cancelled : BOOLEAN, result : Results,
                               completions : Nat]],
         \A q \in Reads :
               /\ reads'[q].result = reads[q].result
               /\ reads'[q].completions = reads[q].completions
               /\ reads[q].cancelled => reads'[q].cancelled
               /\ reads'[q].caller \in {"ADMITTED", "RETURNED"} <=>
                     reads[q].caller \in {"ADMITTED", "RETURNED"}
               /\ reads'[q].caller \in {"NEW", "REFUSED"} <=>
                     reads[q].caller \in {"NEW", "REFUSED"},
         UNCHANGED <<pending, outstanding, serviceStop, late>>,
         ioStopping' \in BOOLEAN, ioStopping => ioStopping',
         workers' \in [Workers -> [at : WorkerStates, read : Reads \cup {NoRead}]],
         \A w \in Workers : \/ workers'[w] = workers[w]
                            \/ /\ workers[w].at = "ASLEEP" /\ workers'[w].at = "CHECK"
                               /\ workers'[w].read = workers[w].read,
         ioStoppers' \in [Stoppers -> StopperStates],
         (\E s \in Stoppers : ioStoppers'[s] = "RETURNED") =>
             \A w \in Workers : workers[w].at = "EXITED"
  PROVE  IoInv'
<1>1. IoTypeOK'
  BY DEF IoInv, IoTypeOK
<1>2. \A w \in Workers :
         /\ workers'[w].read = workers[w].read
         /\ workers'[w].at = workers[w].at
              \/ (workers[w].at = "ASLEEP" /\ workers'[w].at = "CHECK")
  OBVIOUS
<1>3. OutstandingIsExact'
  <2>1. {w \in Workers : workers'[w].read # NoRead} = {w \in Workers : workers[w].read # NoRead}
    BY <1>2
  <2>. QED
    BY <2>1 DEF IoInv, OutstandingIsExact
<1>4. QueuedReads'
  BY <1>2, ReadsAre DEF IoInv, QueuedReads, Unread
<1>5. HeldReads'
  <2>1. \A w \in Workers : workers[w].read \in Reads \cup {NoRead}
    BY ReadsAre
  <2>2. ASSUME NEW w \in Workers
        PROVE  /\ workers'[w].read = NoRead <=> workers'[w].at \in {"CHECK", "ASLEEP", "EXITED"}
               /\ workers'[w].at \in {"BEGIN", "READ", "SETTLE", "COMPLETE", "RELEASE"} =>
                     workers'[w].at = workers[w].at /\ workers[w].read \in Reads
    BY <1>2, <2>1 DEF IoInv, HeldReads
  <2>3. ASSUME NEW w \in Workers
        PROVE  /\ workers'[w].at \in {"BEGIN", "READ", "SETTLE"} => Unread(workers[w].read)'
               /\ workers'[w].at \in {"COMPLETE", "RELEASE"} =>
                     /\ reads'[workers[w].read].caller \in {"ADMITTED", "RETURNED"}
                     /\ reads'[workers[w].read].result # "NONE"
                     /\ reads'[workers[w].read].completions = IF workers'[w].at = "COMPLETE" THEN 0 ELSE 1
    BY <1>2, <2>2 DEF IoInv, HeldReads, Unread
  <2>. QED
    BY <1>2, <2>2, <2>3 DEF IoInv, HeldReads, Unread
<1>6. OtherReads'
  BY <1>2 DEF IoInv, OtherReads
<1>7. LateReads'
  <2>1. ASSUME NEW r \in late
        PROVE  /\ serviceStop' /\ reads'[r].result # "RETURNED"
               /\ \A w \in Workers : workers'[w].read = r /\ workers'[w].at \in {"READ", "SETTLE"} =>
                                      reads'[r].cancelled
    <3>1. /\ r \in Reads /\ serviceStop /\ reads[r].result # "RETURNED"
          /\ \A w \in Workers : workers[w].read = r /\ workers[w].at \in {"READ", "SETTLE"} =>
                                 reads[r].cancelled
      BY DEF IoInv, LateReads, IoTypeOK
    <3>. QED
      BY <1>2, <3>1
  <2>. QED
    BY <2>1 DEF LateReads
<1>8. WorkersLeave'
  BY <1>2 DEF IoInv, WorkersLeave
<1>. QED
  BY <1>1, <1>3, <1>4, <1>5, <1>6, <1>7, <1>8 DEF IoInv

LEMMA CancelKeeps ==
  ASSUME IoInv, NEW r \in Reads, Cancel(r)
  PROVE  IoInv'
<1>. DEFINE new == [reads[r] EXCEPT !.cancelled = TRUE]
<1>1. /\ new \in [caller : Callers, cancelled : BOOLEAN, result : Results, completions : Nat]
      /\ new.caller = reads[r].caller /\ new.cancelled
      /\ new.result = reads[r].result /\ new.completions = reads[r].completions
  BY DEF IoInv, IoTypeOK
<1>2. reads' = [reads EXCEPT ![r] = new]
  BY DEF Cancel
<1>. HIDE DEF new
<1>. QED
  BY <1>1, <1>2, CallerKeeps, SameReadsKeep DEF Cancel, IoInv, WorkersLeave, IoTypeOK

LEMMA WokenAre ==
  ASSUME IoInv, NEW T \in SUBSET Asleep, workers' = Woken(T)
  PROVE  /\ workers' \in [Workers -> [at : WorkerStates, read : Reads \cup {NoRead}]]
         /\ \A w \in Workers : \/ workers'[w] = workers[w]
                               \/ /\ workers[w].at = "ASLEEP" /\ workers'[w].at = "CHECK"
                                  /\ workers'[w].read = workers[w].read
<1>1. ASSUME NEW w \in Workers
      PROVE  /\ workers'[w] \in [at : WorkerStates, read : Reads \cup {NoRead}]
             /\ \/ workers'[w] = workers[w]
                \/ /\ workers[w].at = "ASLEEP" /\ workers'[w].at = "CHECK"
                   /\ workers'[w].read = workers[w].read
  <2>1. workers[w] \in [at : WorkerStates, read : Reads \cup {NoRead}]
    BY DEF IoInv, IoTypeOK
  <2>2. workers'[w] = IF w \in T THEN [workers[w] EXCEPT !.at = "CHECK"] ELSE workers[w]
    BY DEF Woken
  <2>. QED
    BY <2>1, <2>2 DEF Asleep, At, WorkerStates
<1>2. workers' = [w \in Workers |-> workers'[w]]
  BY DEF Woken
<1>. QED
  BY <1>1, <1>2

LEMMA NotifyOneKeeps ==
  ASSUME IoInv, NEW r \in Reads, NotifyOne(r)
  PROVE  IoInv'
<1>. DEFINE new == [reads[r] EXCEPT !.caller = "RETURNED"]
<1>1. /\ new \in [caller : Callers, cancelled : BOOLEAN, result : Results, completions : Nat]
      /\ new.caller = "RETURNED" /\ reads[r].caller = "ADMITTED"
      /\ new.cancelled = reads[r].cancelled
      /\ new.result = reads[r].result /\ new.completions = reads[r].completions
  BY DEF IoInv, IoTypeOK, NotifyOne, Callers
<1>2. reads' = [reads EXCEPT ![r] = new]
  BY DEF NotifyOne
<1>. HIDE DEF new
<1>3. /\ workers' \in [Workers -> [at : WorkerStates, read : Reads \cup {NoRead}]]
      /\ \A w \in Workers : \/ workers'[w] = workers[w]
                            \/ /\ workers[w].at = "ASLEEP" /\ workers'[w].at = "CHECK"
                               /\ workers'[w].read = workers[w].read
  <2>1. CASE UNCHANGED workers
    BY <2>1 DEF IoInv, IoTypeOK
  <2>2. CASE \E w \in Asleep : workers' = Woken({w})
    <3>1. PICK w \in Asleep : workers' = Woken({w})
      BY <2>2
    <3>2. {w} \in SUBSET Asleep
      BY <3>1
    <3>. QED
      BY <3>1, <3>2, WokenAre
  <2>. QED
    BY <2>1, <2>2 DEF NotifyOne
<1>4. /\ UNCHANGED <<pending, outstanding, serviceStop, late>>
      /\ ioStopping' \in BOOLEAN /\ (ioStopping => ioStopping')
      /\ ioStoppers' \in [Stoppers -> StopperStates]
      /\ (\E s \in Stoppers : ioStoppers'[s] = "RETURNED") =>
             \A w \in Workers : workers[w].at = "EXITED"
  BY DEF NotifyOne, IoInv, WorkersLeave, IoTypeOK
<1>5. /\ reads' \in [Reads -> [caller : Callers, cancelled : BOOLEAN, result : Results,
                               completions : Nat]]
      /\ \A q \in Reads :
            /\ reads'[q].result = reads[q].result
            /\ reads'[q].completions = reads[q].completions
            /\ reads[q].cancelled => reads'[q].cancelled
            /\ reads'[q].caller \in {"ADMITTED", "RETURNED"} <=>
                  reads[q].caller \in {"ADMITTED", "RETURNED"}
            /\ reads'[q].caller \in {"NEW", "REFUSED"} <=>
                  reads[q].caller \in {"NEW", "REFUSED"}
  BY <1>1, <1>2, CallerKeeps
<1>. QED
  BY <1>3, <1>4, <1>5, SameReadsKeep

(* What a step of one worker changes. *)
LEMMA ExecutesIs ==
  ASSUME IoInv, NEW w \in Workers, NEW at \in WorkerStates, NEW r \in Reads \cup {NoRead},
         Executes(w, at, r)
  PROVE  /\ workers' \in [Workers -> [at : WorkerStates, read : Reads \cup {NoRead}]]
         /\ workers'[w].at = at /\ workers'[w].read = r
         /\ \A v \in Workers : v # w => workers'[v] = workers[v]
<1>. DEFINE new == [at |-> at, read |-> r]
<1>1. /\ new \in [at : WorkerStates, read : Reads \cup {NoRead}]
      /\ new.at = at /\ new.read = r
  OBVIOUS
<1>2. workers' = [workers EXCEPT ![w] = new]
  BY DEF Executes
<1>. HIDE DEF new
<1>. QED
  BY <1>1, <1>2 DEF IoInv, IoTypeOK

(* An admitted read is behind the others, and held by nobody. *)
LEMMA ReadKeeps ==
  ASSUME IoInv, NEW r \in Reads, Read(r)
  PROVE  IoInv'
<1>. DEFINE new == [reads[r] EXCEPT !.caller = IF AdmitsRead THEN "ADMITTED" ELSE "REFUSED"]
<1>1. /\ new \in [caller : Callers, cancelled : BOOLEAN, result : Results, completions : Nat]
      /\ new.caller = (IF AdmitsRead THEN "ADMITTED" ELSE "REFUSED")
      /\ new.cancelled = reads[r].cancelled
      /\ new.result = reads[r].result /\ new.completions = reads[r].completions
  BY DEF IoInv, IoTypeOK, Callers
<1>2. reads' = [reads EXCEPT ![r] = new]
  BY DEF Read
<1>. HIDE DEF new
<1>3. /\ reads' \in [Reads -> [caller : Callers, cancelled : BOOLEAN, result : Results,
                               completions : Nat]]
      /\ reads'[r] = new
      /\ \A q \in Reads : q # r => reads'[q] = reads[q]
  BY <1>1, <1>2 DEF IoInv, IoTypeOK
<1>4. reads[r].caller = "NEW"
  BY DEF Read
<1>5. /\ \A i \in DOMAIN pending : pending[i] # r
      /\ \A w \in Workers : workers[w].read # r
  <2>1. r # NoRead
    BY ResourceIoAssumption
  <2>. QED
    BY <1>4, <2>1, ReadsAre DEF IoInv, QueuedReads, Unread
<1>6. reads[r].result = "NONE" /\ reads[r].completions = 0
  BY <1>4, <1>5 DEF IoInv, OtherReads
<1>7. CASE ~AdmitsRead
  <2>1. /\ UNCHANGED <<pending, outstanding, ioStopping, serviceStop, workers, ioStoppers, late>>
        /\ new.caller = "REFUSED"
    BY <1>1, <1>7 DEF Read
  <2>2. /\ \A q \in Reads :
               /\ reads'[q].result = reads[q].result
               /\ reads'[q].completions = reads[q].completions
               /\ reads[q].cancelled => reads'[q].cancelled
               /\ reads'[q].caller \in {"ADMITTED", "RETURNED"} <=>
                     reads[q].caller \in {"ADMITTED", "RETURNED"}
               /\ reads'[q].caller \in {"NEW", "REFUSED"} <=>
                     reads[q].caller \in {"NEW", "REFUSED"}
    BY <1>1, <1>3, <1>4, <2>1
  <2>3. /\ workers' \in [Workers -> [at : WorkerStates, read : Reads \cup {NoRead}]]
        /\ ioStoppers' \in [Stoppers -> StopperStates] /\ ioStopping' \in BOOLEAN
        /\ (\E s \in Stoppers : ioStoppers'[s] = "RETURNED") =>
               \A w \in Workers : workers[w].at = "EXITED"
    BY <2>1 DEF IoInv, IoTypeOK, WorkersLeave
  <2>. QED
    BY <1>3, <2>1, <2>2, <2>3, SameReadsKeep
<1>8. CASE AdmitsRead
  <2>1. /\ pending' = Append(pending, r) /\ outstanding' = outstanding + 1
        /\ UNCHANGED <<ioStopping, serviceStop, workers, ioStoppers, late>>
        /\ ~ioStopping /\ outstanding < MaxPendingReads
        /\ new.caller = "ADMITTED"
    BY <1>1, <1>8 DEF Read, AdmitsRead
  <2>2. /\ pending' \in Seq(Reads) /\ Len(pending') = Len(pending) + 1
        /\ DOMAIN pending' = 1 .. Len(pending) + 1
        /\ \A i \in 1 .. Len(pending) : pending'[i] = pending[i]
        /\ pending'[Len(pending) + 1] = r
    <3>1. pending \in Seq(Reads)
      BY DEF IoInv, IoTypeOK
    <3>. QED
      BY <2>1, <3>1, AppendProperties, LenProperties
  <2>3. Len(pending) \in Nat /\ DOMAIN pending = 1 .. Len(pending)
    BY ReadsAre
  <2>4. \A i \in DOMAIN pending' : i \in DOMAIN pending \/ i = Len(pending) + 1
    BY <2>2, <2>3
  <2>5. IoTypeOK'
    BY <1>3, <2>1, <2>2 DEF IoInv, IoTypeOK
  <2>6. OutstandingIsExact'
    <3>1. {w \in Workers : workers'[w].read # NoRead} = Busy /\ Cardinality(Busy) \in Nat
      BY <2>1, BusyCounts DEF Busy
    <3>2. outstanding = Len(pending) + Cardinality(Busy) /\ outstanding \in Nat
      BY DEF IoInv, IoTypeOK, OutstandingIsExact, Busy
    <3>. MaxPendingReads \in Nat
      BY ResourceIoAssumption
    <3>. HIDE DEF Busy
    <3>3. outstanding' <= MaxPendingReads /\ outstanding' = Len(pending') + Cardinality(Busy)
      BY <2>1, <2>2, <2>3, <3>1, <3>2
    <3>. QED
      BY <3>1, <3>3 DEF OutstandingIsExact
  <2>7. \A q \in Reads : q # r => (Unread(q) <=> Unread(q)')
    BY <1>3 DEF Unread
  <2>8. Unread(r)'
    BY <1>1, <1>3, <1>6, <2>1 DEF Unread
  <2>9. QueuedReads'
    <3>1. ASSUME NEW i \in DOMAIN pending'
          PROVE  /\ reads'[pending'[i]].caller \in {"ADMITTED", "RETURNED"}
                 /\ reads'[pending'[i]].result = "NONE" /\ reads'[pending'[i]].completions = 0
      <4>1. CASE i \in DOMAIN pending
        <5>1. pending'[i] = pending[i] /\ pending[i] # r /\ pending[i] \in Reads /\ Unread(pending[i])
          BY <1>5, <2>2, <2>3, <4>1, ReadsAre DEF IoInv, QueuedReads
        <5>. QED
          BY <1>3, <5>1 DEF Unread
      <4>2. CASE i = Len(pending) + 1
        BY <1>1, <1>3, <1>6, <2>1, <2>2, <4>2
      <4>. QED
        BY <2>4, <4>1, <4>2
    <3>2. ASSUME NEW i \in DOMAIN pending', NEW j \in DOMAIN pending', pending'[i] = pending'[j]
          PROVE  i = j
      BY <1>5, <2>2, <2>3, <2>4, <3>2 DEF IoInv, QueuedReads
    <3>3. ASSUME NEW i \in DOMAIN pending', NEW w \in Workers
          PROVE  workers'[w].read # pending'[i]
      BY <1>5, <2>1, <2>2, <2>3, <2>4 DEF IoInv, QueuedReads
    <3>. QED
      BY <3>1, <3>2, <3>3 DEF QueuedReads, Unread
  <2>10. HeldReads'
    <3>1. ASSUME NEW w \in Workers, workers[w].read # NoRead
          PROVE  reads'[workers[w].read] = reads[workers[w].read]
      BY <1>3, <1>5, <3>1, ReadsAre
    <3>2. ASSUME NEW w \in Workers
          PROVE  workers[w].at \in {"BEGIN", "READ", "SETTLE", "COMPLETE", "RELEASE"} =>
                   workers[w].read # NoRead
      BY DEF IoInv, HeldReads
    <3>. QED
      BY <2>1, <3>1, <3>2 DEF IoInv, HeldReads, Unread
  <2>11. OtherReads'
    <3>1. ASSUME NEW q \in Reads, q # r, \E i \in DOMAIN pending : pending[i] = q
          PROVE  \E i \in DOMAIN pending' : pending'[i] = q
      BY <2>2, <2>3, <3>1
    <3>2. \E i \in DOMAIN pending' : pending'[i] = r
      BY <2>2, <2>3
    <3>. QED
      BY <1>3, <2>1, <3>1, <3>2 DEF IoInv, OtherReads
  <2>12. LateReads'
    BY <1>1, <1>3, <1>5, <1>6, <2>1 DEF IoInv, LateReads, IoTypeOK
  <2>13. WorkersLeave'
    BY <2>1, ResourceIoAssumption DEF IoInv, WorkersLeave
  <2>. QED
    BY <2>5, <2>6, <2>9, <2>10, <2>11, <2>12, <2>13 DEF IoInv
<1>. QED
  BY <1>7, <1>8

(* The head of the queue is held by the worker that took it. *)
LEMMA TakeReadKeeps ==
  ASSUME IoInv, NEW w \in Workers, TakeRead(w)
  PROVE  IoInv'
<1>. DEFINE r == pending[1]
<1>1. /\ Len(pending) \in Nat \ {0} /\ DOMAIN pending = 1 .. Len(pending)
      /\ r \in Reads /\ r # NoRead
  BY ReadsAre, ResourceIoAssumption DEF TakeRead
<1>2. /\ pending' \in Seq(Reads) /\ Len(pending') = Len(pending) - 1
      /\ DOMAIN pending' = 1 .. Len(pending) - 1
      /\ \A i \in 1 .. Len(pending) - 1 : pending'[i] = pending[i + 1]
      /\ Head(pending) = r
  <2>1. pending \in Seq(Reads) /\ pending # <<>> /\ pending' = Tail(pending)
    BY DEF IoInv, IoTypeOK, TakeRead
  <2>2. Head(pending) = pending[1]
    BY <2>1
  <2>. HIDE DEF r
  <2>3. /\ pending' \in Seq(Reads) /\ Len(pending') = Len(pending) - 1
        /\ \A i \in 1 .. Len(pending') : pending'[i] = pending[i + 1]
    BY <2>1, HeadTailProperties
  <2>4. DOMAIN pending' = 1 .. Len(pending')
    BY <2>3, LenProperties
  <2>. QED
    BY <2>2, <2>3, <2>4 DEF r
<1>3. \A i \in DOMAIN pending' : i + 1 \in DOMAIN pending /\ i + 1 # 1 /\ pending'[i] = pending[i + 1]
  BY <1>1, <1>2
<1>4. \A i \in DOMAIN pending : i # 1 => i - 1 \in DOMAIN pending' /\ pending'[i - 1] = pending[i]
  <2>1. \A i \in 1 .. Len(pending) : i # 1 => i - 1 \in 1 .. Len(pending) - 1 /\ i - 1 + 1 = i
    BY <1>1
  <2>. QED
    BY <1>1, <1>2, <2>1
<1>5. Unread(r) /\ \A v \in Workers : workers[v].read # r
  BY <1>1 DEF IoInv, QueuedReads
<1>6. \A i \in DOMAIN pending' : pending'[i] # r /\ pending'[i] \in Reads
  BY <1>1, <1>3, ReadsAre DEF IoInv, QueuedReads
<1>. HIDE DEF r
<1>7. /\ workers' \in [Workers -> [at : WorkerStates, read : Reads \cup {NoRead}]]
      /\ workers'[w].at = "BEGIN" /\ workers'[w].read = r
      /\ \A v \in Workers : v # w => workers'[v] = workers[v]
  <2>1. Executes(w, "BEGIN", r)
    BY <1>2 DEF TakeRead
  <2>2. "BEGIN" \in WorkerStates
    BY DEF WorkerStates
  <2>. QED
    BY <1>1, <2>1, <2>2, ExecutesIs
<1>8. workers[w].read = NoRead
  BY DEF TakeRead, At, IoInv, HeldReads
<1>9. UNCHANGED <<outstanding, ioStopping, serviceStop, reads, ioStoppers, late>>
  BY DEF TakeRead
<1>10. IoTypeOK'
  BY <1>2, <1>7, <1>9 DEF IoInv, IoTypeOK
<1>11. OutstandingIsExact'
  <2>1. {v \in Workers : workers'[v].read # NoRead} = Busy \cup {w} /\ w \notin Busy
    BY <1>1, <1>7, <1>8 DEF Busy
  <2>2. outstanding = Len(pending) + Cardinality(Busy) /\ outstanding <= MaxPendingReads
    BY DEF IoInv, OutstandingIsExact, Busy
  <2>. HIDE DEF Busy
  <2>3. Cardinality(Busy \cup {w}) = Cardinality(Busy) + 1 /\ Cardinality(Busy) \in Nat
    BY <2>1, BusyCounts
  <2>4. outstanding' <= MaxPendingReads /\ outstanding' = Len(pending') + Cardinality(Busy \cup {w})
    BY <1>1, <1>2, <1>9, <2>2, <2>3
  <2>. QED
    BY <2>1, <2>4 DEF OutstandingIsExact
<1>12. QueuedReads'
  <2>1. \A i, j \in DOMAIN pending' : pending'[i] = pending'[j] => i = j
    BY <1>1, <1>2, <1>3 DEF IoInv, QueuedReads
  <2>2. \A i \in DOMAIN pending' : Unread(pending'[i])
    BY <1>3 DEF IoInv, QueuedReads
  <2>3. \A i \in DOMAIN pending' : \A v \in Workers : workers'[v].read # pending'[i]
    BY <1>3, <1>6, <1>7 DEF IoInv, QueuedReads
  <2>. QED
    BY <1>9, <2>1, <2>2, <2>3 DEF QueuedReads, Unread
<1>13. HeldReads'
  BY <1>1, <1>5, <1>7, <1>9 DEF IoInv, HeldReads, Unread
<1>14. OtherReads'
  <2>1. ASSUME NEW q \in Reads, NEW i \in DOMAIN pending, pending[i] = q, q # r
        PROVE  \E j \in DOMAIN pending' : pending'[j] = q
    BY <1>4, <2>1 DEF r
  <2>2. ASSUME NEW q \in Reads, NEW v \in Workers, workers[v].read = q
        PROVE  \E u \in Workers : workers'[u].read = q
    <3>1. q # NoRead
      BY ResourceIoAssumption
    <3>. QED
      BY <1>7, <1>8, <2>2, <3>1
  <2>. QED
    BY <1>7, <1>9, <2>1, <2>2 DEF IoInv, OtherReads
<1>15. LateReads'
  BY <1>5, <1>7, <1>9 DEF IoInv, LateReads, IoTypeOK, Unread
<1>16. WorkersLeave'
  BY <1>1, <1>7, <1>9, ReadsAre DEF IoInv, WorkersLeave, TakeRead, At
<1>. QED
  BY <1>10, <1>11, <1>12, <1>13, <1>14, <1>15, <1>16 DEF IoInv

(* An idle worker sleeps, or leaves once nothing more is admitted. *)
LEMMA IdleKeeps ==
  ASSUME IoInv, NEW w \in Workers, NEW at \in {"ASLEEP", "EXITED"},
         At(w, "CHECK"), Goes(w, at), at = "EXITED" => ioStopping /\ pending = <<>>,
         UNCHANGED <<pending, outstanding, ioStopping, serviceStop, reads, ioStoppers, late>>
  PROVE  IoInv'
<1>1. workers[w].read = NoRead
  BY DEF At, IoInv, HeldReads
<1>2. /\ workers' \in [Workers -> [at : WorkerStates, read : Reads \cup {NoRead}]]
      /\ workers'[w].at = at /\ workers'[w].read = NoRead
      /\ \A v \in Workers : v # w => workers'[v] = workers[v]
  <2>1. Executes(w, at, NoRead) /\ at \in WorkerStates
    BY <1>1 DEF Goes, WorkerStates
  <2>. QED
    BY <2>1, ExecutesIs
<1>3. \A v \in Workers : workers'[v].read = workers[v].read
  BY <1>1, <1>2
<1>4. IoTypeOK'
  BY <1>2 DEF IoInv, IoTypeOK
<1>5. OutstandingIsExact'
  <2>1. {v \in Workers : workers'[v].read # NoRead} = {v \in Workers : workers[v].read # NoRead}
    BY <1>3
  <2>. QED
    BY <2>1 DEF IoInv, OutstandingIsExact
<1>6. QueuedReads'
  BY <1>3 DEF IoInv, QueuedReads, Unread
<1>7. HeldReads'
  BY <1>2 DEF IoInv, HeldReads, Unread
<1>8. OtherReads'
  BY <1>3 DEF IoInv, OtherReads
<1>9. LateReads'
  BY <1>2 DEF IoInv, LateReads
<1>10. WorkersLeave'
  BY <1>2 DEF IoInv, WorkersLeave, At
<1>. QED
  BY <1>4, <1>5, <1>6, <1>7, <1>8, <1>9, <1>10 DEF IoInv

(* A worker looks at the read it holds, reads it, settles it or completes it: the
   record of the read becomes new, and the worker stays with it. *)
LEMMA HolderKeeps ==
  ASSUME IoInv, NEW w \in Workers, NEW r \in Reads, r = workers[w].read,
         NEW at \in {"READ", "SETTLE", "COMPLETE", "RELEASE"}, Goes(w, at),
         NEW new \in [caller : Callers, cancelled : BOOLEAN, result : Results, completions : Nat],
         reads' = [reads EXCEPT ![r] = new],
         new.caller = reads[r].caller,
         at \in {"READ", "SETTLE"} => new.result = "NONE" /\ new.completions = 0,
         at \in {"COMPLETE", "RELEASE"} =>
            /\ new.result # "NONE"
            /\ new.completions = IF at = "COMPLETE" THEN 0 ELSE 1,
         r \in late => /\ new.result # "RETURNED"
                       /\ at \in {"READ", "SETTLE"} => new.cancelled,
         UNCHANGED <<pending, outstanding, ioStopping, serviceStop, ioStoppers, late>>
  PROVE  IoInv'
<1>1. /\ workers' \in [Workers -> [at : WorkerStates, read : Reads \cup {NoRead}]]
      /\ workers'[w].at = at /\ workers'[w].read = r
      /\ \A v \in Workers : v # w => workers'[v] = workers[v]
  <2>1. Executes(w, at, r) /\ at \in WorkerStates
    BY DEF Goes, WorkerStates
  <2>. QED
    BY <2>1, ExecutesIs
<1>2. \A v \in Workers : workers'[v].read = workers[v].read
  BY <1>1
<1>3. r # NoRead
  BY ResourceIoAssumption
<1>4. /\ reads' \in [Reads -> [caller : Callers, cancelled : BOOLEAN, result : Results,
                               completions : Nat]]
      /\ reads'[r] = new
      /\ \A q \in Reads : q # r => reads'[q] = reads[q]
  BY DEF IoInv, IoTypeOK
<1>5. IoTypeOK'
  BY <1>1, <1>4 DEF IoInv, IoTypeOK
<1>6. OutstandingIsExact'
  <2>1. {v \in Workers : workers'[v].read # NoRead} = {v \in Workers : workers[v].read # NoRead}
    BY <1>2
  <2>. QED
    BY <2>1 DEF IoInv, OutstandingIsExact
<1>7. QueuedReads'
  <2>1. \A i \in DOMAIN pending : pending[i] # r /\ pending[i] \in Reads
    BY ReadsAre DEF IoInv, QueuedReads
  <2>2. \A i \in DOMAIN pending : reads'[pending[i]] = reads[pending[i]]
    BY <1>4, <2>1
  <2>. QED
    BY <1>2, <2>2 DEF IoInv, QueuedReads, Unread
<1>8. HeldReads'
  <2>1. \A v \in Workers : v # w /\ workers[v].read # NoRead =>
           /\ workers[v].read # r /\ workers[v].read \in Reads
           /\ reads'[workers[v].read] = reads[workers[v].read]
    BY <1>3, <1>4, ReadsAre DEF IoInv, HeldReads
  <2>2. \A v \in Workers : workers[v].at \in {"BEGIN", "READ", "SETTLE", "COMPLETE", "RELEASE"} =>
           workers[v].read # NoRead
    BY DEF IoInv, HeldReads
  <2>3. new.caller \in {"ADMITTED", "RETURNED"}
    BY <1>3, ReadsAre
  <2>4. ASSUME NEW v \in Workers, v # w
        PROVE  /\ workers'[v].read = NoRead <=> workers'[v].at \in {"CHECK", "ASLEEP", "EXITED"}
               /\ workers'[v].at \in {"BEGIN", "READ", "SETTLE"} =>
                     /\ reads'[workers'[v].read].caller \in {"ADMITTED", "RETURNED"}
                     /\ reads'[workers'[v].read].result = "NONE"
                     /\ reads'[workers'[v].read].completions = 0
               /\ workers'[v].at \in {"COMPLETE", "RELEASE"} =>
                     /\ reads'[workers'[v].read].caller \in {"ADMITTED", "RETURNED"}
                     /\ reads'[workers'[v].read].result # "NONE"
                     /\ reads'[workers'[v].read].completions = IF workers'[v].at = "COMPLETE" THEN 0 ELSE 1
    BY <1>1, <2>1, <2>2, <2>4 DEF IoInv, HeldReads, Unread
  <2>5. /\ workers'[w].read # NoRead /\ workers'[w].at \notin {"CHECK", "ASLEEP", "EXITED"}
        /\ workers'[w].at \in {"BEGIN", "READ", "SETTLE"} =>
              /\ reads'[workers'[w].read].caller \in {"ADMITTED", "RETURNED"}
              /\ reads'[workers'[w].read].result = "NONE"
              /\ reads'[workers'[w].read].completions = 0
        /\ workers'[w].at \in {"COMPLETE", "RELEASE"} =>
              /\ reads'[workers'[w].read].caller \in {"ADMITTED", "RETURNED"}
              /\ reads'[workers'[w].read].result # "NONE"
              /\ reads'[workers'[w].read].completions = IF workers'[w].at = "COMPLETE" THEN 0 ELSE 1
    BY <1>1, <1>3, <1>4, <2>3
  <2>6. \A u, v \in Workers : workers'[u].read # NoRead /\ workers'[u].read = workers'[v].read => u = v
    BY <1>2 DEF IoInv, HeldReads
  <2>. QED
    BY <2>4, <2>5, <2>6 DEF HeldReads, Unread
<1>9. OtherReads'
  <2>1. ASSUME NEW q \in Reads, q # r
        PROVE  \/ \E i \in DOMAIN pending : pending[i] = q
               \/ \E v \in Workers : workers'[v].read = q
               \/ /\ reads'[q].caller \in {"ADMITTED", "RETURNED"}
                  /\ reads'[q].result # "NONE" /\ reads'[q].completions = 1
               \/ /\ reads'[q].caller \in {"NEW", "REFUSED"}
                  /\ reads'[q].result = "NONE" /\ reads'[q].completions = 0
    BY <1>2, <1>4, <2>1 DEF IoInv, OtherReads
  <2>2. \E v \in Workers : workers'[v].read = r
    BY <1>1
  <2>. QED
    BY <2>1, <2>2 DEF OtherReads
<1>10. LateReads'
  <2>1. ASSUME NEW q \in late
        PROVE  /\ serviceStop' /\ reads'[q].result # "RETURNED"
               /\ \A v \in Workers : workers'[v].read = q /\ workers'[v].at \in {"READ", "SETTLE"} =>
                                      reads'[q].cancelled
    <3>1. /\ q \in Reads /\ serviceStop /\ reads[q].result # "RETURNED"
          /\ \A v \in Workers : workers[v].read = q /\ workers[v].at \in {"READ", "SETTLE"} =>
                                 reads[q].cancelled
      BY DEF IoInv, LateReads, IoTypeOK
    <3>2. CASE q = r
      <4>1. \A v \in Workers : workers'[v].read = r => v = w
        BY <1>2, <1>3 DEF IoInv, HeldReads
      <4>. QED
        BY <1>1, <1>4, <3>1, <3>2, <4>1
    <3>3. CASE q # r
      BY <1>1, <1>4, <3>1, <3>3
    <3>. QED
      BY <3>2, <3>3
  <2>. QED
    BY <2>1 DEF LateReads
<1>11. WorkersLeave'
  <2>1. workers[w].at # "EXITED"
    BY <1>3 DEF IoInv, HeldReads
  <2>. QED
    BY <1>1, <2>1 DEF IoInv, WorkersLeave
<1>. QED
  BY <1>5, <1>6, <1>7, <1>8, <1>9, <1>10, <1>11 DEF IoInv

LEMMA HolderIs ==
  ASSUME IoInv, NEW w \in Workers, workers[w].at \in {"BEGIN", "READ", "SETTLE", "COMPLETE", "RELEASE"}
  PROVE  /\ workers[w].read \in Reads /\ workers[w].read # NoRead
         /\ workers[w].at \in {"BEGIN", "READ", "SETTLE"} =>
               /\ reads[workers[w].read].result = "NONE"
               /\ reads[workers[w].read].completions = 0
         /\ workers[w].at = "COMPLETE" => /\ reads[workers[w].read].result # "NONE"
                                          /\ reads[workers[w].read].completions = 0
         /\ workers[w].at = "RELEASE" => /\ reads[workers[w].read].result # "NONE"
                                         /\ reads[workers[w].read].completions = 1
BY ReadsAre DEF IoInv, HeldReads, Unread

LEMMA BeginKeeps ==
  ASSUME IoInv, NEW w \in Workers, Begin(w)
  PROVE  IoInv'
<1>. DEFINE r == workers[w].read
            cancelled == reads[r].cancelled \/ serviceStop
            new == [reads[r] EXCEPT !.cancelled = cancelled]
<1>1. r \in Reads /\ reads[r].result = "NONE" /\ reads[r].completions = 0
  BY HolderIs DEF Begin, At
<1>2. /\ reads' = [reads EXCEPT ![r] = new]
      /\ Goes(w, IF cancelled THEN "SETTLE" ELSE "READ")
      /\ UNCHANGED <<pending, outstanding, ioStopping, serviceStop, ioStoppers, late>>
  BY DEF Begin
<1>3. cancelled \in BOOLEAN
  BY <1>1, ReadsAre, Zenon DEF IoInv, IoTypeOK
<1>4. r \in late => cancelled
  BY DEF IoInv, LateReads
<1>. HIDE DEF cancelled
<1>5. /\ new \in [caller : Callers, cancelled : BOOLEAN, result : Results, completions : Nat]
      /\ new.caller = reads[r].caller /\ new.cancelled = cancelled
      /\ new.result = reads[r].result /\ new.completions = reads[r].completions
  BY <1>1, <1>3 DEF IoInv, IoTypeOK
<1>. HIDE DEF new
<1>. DEFINE at == IF cancelled THEN "SETTLE" ELSE "READ"
<1>6. at \in {"READ", "SETTLE"} /\ Goes(w, at)
  BY <1>2
<1>. HIDE DEF at
<1>7. /\ at \in {"READ", "SETTLE", "COMPLETE", "RELEASE"}
      /\ at \notin {"COMPLETE", "RELEASE"}
  BY <1>6
<1>8. r = workers[w].read
  OBVIOUS
<1>. HIDE DEF r
<1>. QED
  BY <1>1, <1>2, <1>4, <1>5, <1>6, <1>7, <1>8, HolderKeeps

LEMMA ReaderReturnsKeeps ==
  ASSUME IoInv, NEW w \in Workers, ReaderReturns(w)
  PROVE  IoInv'
<1>. DEFINE r == workers[w].read
            new == reads[r]
<1>1. r \in Reads /\ reads[r].result = "NONE" /\ reads[r].completions = 0
  BY HolderIs DEF ReaderReturns, At
<1>2. /\ reads' = [reads EXCEPT ![r] = new]
      /\ Goes(w, "SETTLE")
      /\ UNCHANGED <<pending, outstanding, ioStopping, serviceStop, ioStoppers, late>>
  BY <1>1 DEF ReaderReturns, IoInv, IoTypeOK
<1>3. r \in late => new.cancelled
  BY DEF ReaderReturns, At, IoInv, LateReads
<1>4. new \in [caller : Callers, cancelled : BOOLEAN, result : Results, completions : Nat]
  BY <1>1 DEF IoInv, IoTypeOK
<1>5. /\ new.caller = reads[r].caller /\ new.result = "NONE" /\ new.completions = 0
      /\ r = workers[w].read
  BY <1>1
<1>. HIDE DEF new, r
<1>. QED
  BY <1>1, <1>2, <1>3, <1>4, <1>5, HolderKeeps

LEMMA SettleKeeps ==
  ASSUME IoInv, NEW w \in Workers, Settle(w)
  PROVE  IoInv'
<1>. DEFINE r == workers[w].read
            new == [reads[r] EXCEPT !.result = IF reads[r].cancelled THEN "CANCELLED" ELSE "RETURNED"]
<1>1. r \in Reads /\ reads[r].result = "NONE" /\ reads[r].completions = 0
  BY HolderIs DEF Settle, At
<1>2. /\ reads' = [reads EXCEPT ![r] = new]
      /\ Goes(w, "COMPLETE")
      /\ UNCHANGED <<pending, outstanding, ioStopping, serviceStop, ioStoppers, late>>
  BY DEF Settle
<1>3. r \in late => reads[r].cancelled
  BY DEF Settle, At, IoInv, LateReads
<1>4. /\ new \in [caller : Callers, cancelled : BOOLEAN, result : Results, completions : Nat]
      /\ new.caller = reads[r].caller /\ new.completions = 0 /\ new.result # "NONE"
      /\ reads[r].cancelled => new.result # "RETURNED"
  BY <1>1 DEF IoInv, IoTypeOK, Results
<1>5. r = workers[w].read
  OBVIOUS
<1>. HIDE DEF new, r
<1>. QED
  BY <1>1, <1>2, <1>3, <1>4, <1>5, HolderKeeps

LEMMA CompleteKeeps ==
  ASSUME IoInv, NEW w \in Workers, Complete(w)
  PROVE  IoInv'
<1>. DEFINE r == workers[w].read
            new == [reads[r] EXCEPT !.completions = 1]
<1>1. r \in Reads /\ reads[r].result # "NONE" /\ reads[r].completions = 0
  BY HolderIs DEF Complete, At
<1>2. /\ reads' = [reads EXCEPT ![r] = new]
      /\ Goes(w, "RELEASE")
      /\ UNCHANGED <<pending, outstanding, ioStopping, serviceStop, ioStoppers, late>>
  <2>1. reads' = [reads EXCEPT ![r] = [reads[r] EXCEPT !.completions = reads[r].completions + 1]]
    BY DEF Complete
  <2>2. reads[r].completions + 1 = 1
    BY <1>1
  <2>. QED
    BY <2>1, <2>2 DEF Complete
<1>3. r \in late => reads[r].result # "RETURNED"
  BY DEF IoInv, LateReads
<1>4. /\ new \in [caller : Callers, cancelled : BOOLEAN, result : Results, completions : Nat]
      /\ new.caller = reads[r].caller /\ new.completions = 1 /\ new.result = reads[r].result
  BY <1>1 DEF IoInv, IoTypeOK
<1>5. r = workers[w].read
  OBVIOUS
<1>. HIDE DEF new, r
<1>. QED
  BY <1>1, <1>2, <1>3, <1>4, <1>5, HolderKeeps

(* The read is done: the count goes with the worker that held it. *)
LEMMA ReleaseKeeps ==
  ASSUME IoInv, NEW w \in Workers, Release(w)
  PROVE  IoInv'
<1>. DEFINE r == workers[w].read
<1>1. /\ r \in Reads /\ r # NoRead /\ reads[r].result # "NONE" /\ reads[r].completions = 1
      /\ reads[r].caller \in {"ADMITTED", "RETURNED"}
  BY HolderIs, ReadsAre DEF Release, At
<1>2. /\ workers' \in [Workers -> [at : WorkerStates, read : Reads \cup {NoRead}]]
      /\ workers'[w].at = "CHECK" /\ workers'[w].read = NoRead
      /\ \A v \in Workers : v # w => workers'[v] = workers[v]
  <2>1. Executes(w, "CHECK", NoRead) /\ "CHECK" \in WorkerStates
    BY DEF Release, WorkerStates
  <2>. QED
    BY <2>1, ExecutesIs
<1>3. /\ outstanding' = outstanding - 1
      /\ UNCHANGED <<pending, ioStopping, serviceStop, reads, ioStoppers, late>>
      /\ workers[w].at = "RELEASE"
  BY DEF Release, At
<1>4. OutstandingIsExact' /\ outstanding' \in Nat
  <2>1. {v \in Workers : workers'[v].read # NoRead} = Busy \ {w} /\ w \in Busy
    BY <1>1, <1>2 DEF Busy
  <2>2. /\ outstanding = Len(pending) + Cardinality(Busy) /\ outstanding <= MaxPendingReads
        /\ Len(pending) \in Nat /\ outstanding \in Nat
    BY ReadsAre DEF IoInv, OutstandingIsExact, Busy, IoTypeOK
  <2>. HIDE DEF Busy
  <2>3. /\ Cardinality(Busy \ {w}) = Cardinality(Busy) - 1 /\ Cardinality(Busy) \in Nat
        /\ Cardinality(Busy) # 0
    BY <2>1, BusyCounts, FS_EmptySet
  <2>. MaxPendingReads \in Nat
    BY ResourceIoAssumption
  <2>4. /\ outstanding' <= MaxPendingReads /\ outstanding' \in Nat
        /\ outstanding' = Len(pending') + Cardinality(Busy \ {w})
    BY <1>3, <2>2, <2>3
  <2>. QED
    BY <2>1, <2>4 DEF OutstandingIsExact
<1>5. IoTypeOK'
  BY <1>2, <1>3, <1>4 DEF IoInv, IoTypeOK
<1>6. QueuedReads'
  <2>1. \A i \in DOMAIN pending : pending[i] # NoRead
    BY ReadsAre, ResourceIoAssumption
  <2>. QED
    BY <1>2, <1>3, <2>1 DEF IoInv, QueuedReads, Unread
<1>7. HeldReads'
  BY <1>2, <1>3 DEF IoInv, HeldReads, Unread
<1>8. OtherReads'
  <2>1. ASSUME NEW q \in Reads, q # r
        PROVE  (\E v \in Workers : workers[v].read = q) => \E v \in Workers : workers'[v].read = q
    BY <1>2, <2>1
  <2>. QED
    BY <1>1, <1>3, <2>1 DEF IoInv, OtherReads
<1>9. LateReads'
  BY <1>2, <1>3 DEF IoInv, LateReads
<1>10. WorkersLeave'
  BY <1>2, <1>3 DEF IoInv, WorkersLeave
<1>. QED
  BY <1>4, <1>5, <1>6, <1>7, <1>8, <1>9, <1>10 DEF IoInv

(* The steps of a shutdown that change nothing a read or a busy worker sees. *)
LEMMA StopperMoves ==
  ASSUME IoInv, NEW s \in Stoppers, NEW at \in StopperStates, Advances(s, at)
  PROVE  /\ ioStoppers' \in [Stoppers -> StopperStates]
         /\ ioStoppers'[s] = at
         /\ \A t \in Stoppers : t # s => ioStoppers'[t] = ioStoppers[t]
BY DEF IoInv, IoTypeOK, Advances

LEMMA QuietStopKeeps ==
  ASSUME IoInv, NEW s \in Stoppers, NEW at \in StopperStates, Advances(s, at),
         at = "RETURNED" => \A w \in Workers : workers[w].at = "EXITED",
         UNCHANGED <<pending, outstanding, serviceStop, reads, late>>,
         ioStopping' \in BOOLEAN, ioStopping => ioStopping',
         UNCHANGED workers \/ workers' = Woken(Asleep)
  PROVE  IoInv'
<1>1. /\ workers' \in [Workers -> [at : WorkerStates, read : Reads \cup {NoRead}]]
      /\ \A w \in Workers : \/ workers'[w] = workers[w]
                            \/ /\ workers[w].at = "ASLEEP" /\ workers'[w].at = "CHECK"
                               /\ workers'[w].read = workers[w].read
  <2>1. CASE UNCHANGED workers
    BY <2>1 DEF IoInv, IoTypeOK
  <2>2. CASE workers' = Woken(Asleep)
    BY <2>2, WokenAre
  <2>. QED
    BY <2>1, <2>2
<1>2. /\ ioStoppers' \in [Stoppers -> StopperStates]
      /\ (\E t \in Stoppers : ioStoppers'[t] = "RETURNED") =>
             \A w \in Workers : workers[w].at = "EXITED"
  BY StopperMoves DEF IoInv, WorkersLeave
<1>3. /\ reads' \in [Reads -> [caller : Callers, cancelled : BOOLEAN, result : Results,
                               completions : Nat]]
      /\ UNCHANGED <<pending, outstanding, serviceStop, late>> /\ reads' = reads
  BY DEF IoInv, IoTypeOK
<1>. QED
  BY <1>1, <1>2, <1>3, SameReadsKeep

(* The stop of the service cancels what executes, and the rest is late for it. *)
LEMMA RequestStopKeeps ==
  ASSUME IoInv, NEW s \in Stoppers, RequestStop(s)
  PROVE  IoInv'
<1>1. Advances(s, "STOPPED") /\ "STOPPED" \in StopperStates
  BY DEF RequestStop, StopperStates
<1>2. CASE serviceStop
  <2>1. /\ UNCHANGED <<pending, outstanding, serviceStop, reads, late, workers>>
        /\ ioStopping' \in BOOLEAN /\ (ioStopping => ioStopping')
    BY <1>2 DEF RequestStop, IoInv, IoTypeOK
  <2>2. UNCHANGED <<pending, outstanding, serviceStop, reads, late>> /\ UNCHANGED workers
    BY <2>1
  <2>. QED
    BY <1>1, <2>1, <2>2, QuietStopKeeps
<1>3. CASE ~serviceStop
  <2>1. /\ UNCHANGED <<pending, outstanding, ioStopping, workers>> /\ serviceStop'
        /\ reads' = [r \in Reads |-> IF r \in Registered THEN [reads[r] EXCEPT !.cancelled = TRUE]
                                     ELSE reads[r]]
        /\ late' = {r \in Reads : \/ \E i \in DOMAIN pending : pending[i] = r
                                  \/ \E w \in Workers : /\ workers[w].read = r
                                                        /\ workers[w].at \in {"BEGIN", "READ"}}
    BY <1>3 DEF RequestStop
  <2>2. serviceStop' = TRUE
    BY DEF RequestStop
  <2>3. ASSUME NEW r \in Reads
        PROVE  /\ reads'[r] \in [caller : Callers, cancelled : BOOLEAN, result : Results, completions : Nat]
               /\ reads'[r].caller = reads[r].caller /\ reads'[r].result = reads[r].result
               /\ reads'[r].completions = reads[r].completions
               /\ r \in Registered => reads'[r].cancelled
    <3>1. reads[r] \in [caller : Callers, cancelled : BOOLEAN, result : Results, completions : Nat]
      BY DEF IoInv, IoTypeOK
    <3>2. reads'[r] = IF r \in Registered THEN [reads[r] EXCEPT !.cancelled = TRUE] ELSE reads[r]
      BY <2>1
    <3>. QED
      BY <3>1, <3>2
  <2>4. reads' \in [Reads -> [caller : Callers, cancelled : BOOLEAN, result : Results,
                              completions : Nat]]
    <3>1. reads' = [r \in Reads |-> reads'[r]]
      BY <2>1
    <3>. QED
      BY <2>3, <3>1
  <2>5. IoTypeOK'
    BY <1>1, <2>1, <2>2, <2>4, StopperMoves DEF IoInv, IoTypeOK
  <2>6. OutstandingIsExact'
    BY <2>1 DEF IoInv, OutstandingIsExact
  <2>7. QueuedReads'
    BY <2>1, <2>3, ReadsAre DEF IoInv, QueuedReads, Unread
  <2>8. HeldReads'
    <3>1. \A w \in Workers : workers[w].at \in {"BEGIN", "READ", "SETTLE", "COMPLETE", "RELEASE"} =>
             workers[w].read \in Reads
      BY HolderIs
    <3>. QED
      BY <2>1, <2>3, <3>1 DEF IoInv, HeldReads, Unread
  <2>9. OtherReads'
    BY <2>1, <2>3 DEF IoInv, OtherReads
  <2>10. LateReads'
    <3>1. ASSUME NEW r \in late'
          PROVE  /\ r \in Reads /\ reads'[r].result # "RETURNED"
                 /\ \A w \in Workers : workers[w].read = r /\ workers[w].at \in {"READ", "SETTLE"} =>
                                        reads'[r].cancelled
      <4>1. r \in Reads
        BY <2>1
      <4>2. reads[r].result = "NONE"
        BY <2>1, HolderIs DEF IoInv, QueuedReads, Unread
      <4>3. \A w \in Workers : workers[w].read = r /\ workers[w].at \in {"READ", "SETTLE"} =>
               r \in Registered
        BY DEF Registered
      <4>. QED
        BY <2>3, <4>1, <4>2, <4>3
    <3>. QED
      BY <2>1, <2>2, <3>1 DEF LateReads
  <2>11. WorkersLeave'
    BY <1>1, <2>1, StopperMoves DEF IoInv, WorkersLeave
  <2>. QED
    BY <2>5, <2>6, <2>7, <2>8, <2>9, <2>10, <2>11 DEF IoInv
<1>. QED
  BY <1>2, <1>3

LEMMA StopperKeeps ==
  ASSUME IoInv, NEW s \in Stoppers, Mark(s) \/ StopperStep(s)
  PROVE  IoInv'
<1>1. CASE Mark(s)
  <2>1. /\ Advances(s, "MARKED") /\ "MARKED" \in StopperStates
        /\ UNCHANGED <<pending, outstanding, serviceStop, reads, late>>
        /\ ioStopping' \in BOOLEAN /\ (ioStopping => ioStopping') /\ UNCHANGED workers
    BY <1>1 DEF Mark, StopperStates
  <2>. QED
    BY <2>1, QuietStopKeeps
<1>2. CASE NotifyAll(s)
  <2>1. /\ Advances(s, "NOTIFIED") /\ "NOTIFIED" \in StopperStates
        /\ UNCHANGED <<pending, outstanding, serviceStop, reads, late>>
        /\ ioStopping' \in BOOLEAN /\ (ioStopping => ioStopping') /\ workers' = Woken(Asleep)
    BY <1>2 DEF NotifyAll, ToWake, StopperStates, IoInv, IoTypeOK
  <2>. QED
    BY <2>1, QuietStopKeeps
<1>3. CASE LockJoin(s)
  <2>1. /\ Advances(s, "JOINING") /\ "JOINING" \in StopperStates
        /\ UNCHANGED <<pending, outstanding, serviceStop, reads, late>>
        /\ ioStopping' \in BOOLEAN /\ (ioStopping => ioStopping') /\ UNCHANGED workers
    BY <1>3 DEF LockJoin, StopperStates, IoInv, IoTypeOK
  <2>. QED
    BY <2>1, QuietStopKeeps
<1>4. CASE Join(s)
  <2>1. /\ Advances(s, "RETURNED") /\ "RETURNED" \in StopperStates
        /\ UNCHANGED <<pending, outstanding, serviceStop, reads, late>>
        /\ ioStopping' \in BOOLEAN /\ (ioStopping => ioStopping') /\ UNCHANGED workers
        /\ \A w \in Workers : workers[w].at = "EXITED"
    BY <1>4 DEF Join, At, StopperStates, IoInv, IoTypeOK
  <2>. QED
    BY <2>1, QuietStopKeeps
<1>. QED
  BY <1>1, <1>2, <1>3, <1>4, RequestStopKeeps DEF StopperStep

LEMMA WorkerKeeps ==
  ASSUME IoInv, NEW w \in Workers, WorkerStep(w)
  PROVE  IoInv'
<1>1. CASE Sleep(w)
  <2>1. /\ At(w, "CHECK") /\ Goes(w, "ASLEEP")
        /\ UNCHANGED <<pending, outstanding, ioStopping, serviceStop, reads, ioStoppers, late>>
    BY <1>1 DEF Sleep
  <2>. QED
    BY <2>1, IdleKeeps
<1>2. CASE Exit(w)
  <2>1. /\ At(w, "CHECK") /\ Goes(w, "EXITED") /\ ioStopping /\ pending = <<>>
        /\ UNCHANGED <<pending, outstanding, ioStopping, serviceStop, reads, ioStoppers, late>>
    BY <1>2 DEF Exit
  <2>. QED
    BY <2>1, IdleKeeps
<1>. QED
  BY <1>1, <1>2, TakeReadKeeps, BeginKeeps, ReaderReturnsKeeps, SettleKeeps, CompleteKeeps,
     ReleaseKeeps DEF WorkerStep

LEMMA IoStutters == IoInv /\ UNCHANGED ioVars => IoInv'
BY DEF IoInv, ioVars, IoTypeOK, OutstandingIsExact, QueuedReads, HeldReads, OtherReads,
       LateReads, WorkersLeave, Unread

LEMMA IoInvImplies == IoInv => IoIsSafe
<1>. SUFFICES ASSUME IoInv
              PROVE  IoIsSafe
  OBVIOUS
<1>1. CompletionsFollowResults
  <2>1. ASSUME NEW r \in Reads
        PROVE  /\ reads[r].completions <= 1
               /\ reads[r].completions = 1 => reads[r].result # "NONE"
               /\ reads[r].result # "NONE" => reads[r].caller \in {"ADMITTED", "RETURNED"}
    <3>1. CASE \E i \in DOMAIN pending : pending[i] = r
      BY <3>1 DEF IoInv, QueuedReads, Unread
    <3>2. CASE \E w \in Workers : workers[w].read = r
      <4>1. PICK w \in Workers : workers[w].read = r
        BY <3>2
      <4>2. r # NoRead
        BY ResourceIoAssumption
      <4>3. workers[w].at \in {"BEGIN", "READ", "SETTLE", "COMPLETE", "RELEASE"}
        BY <4>1, <4>2, ReadsAre DEF IoInv, HeldReads, WorkerStates
      <4>4. reads[r].caller \in {"ADMITTED", "RETURNED"}
        BY <4>1, <4>2, ReadsAre
      <4>5. \/ reads[r].result = "NONE" /\ reads[r].completions = 0
            \/ reads[r].result # "NONE" /\ reads[r].completions \in {0, 1}
        BY <4>1, <4>3, HolderIs
      <4>. QED
        BY <4>4, <4>5
    <3>. QED
      BY <3>1, <3>2 DEF IoInv, OtherReads
  <2>. QED
    BY <2>1 DEF CompletionsFollowResults, Published, Accepted
<1>2. StopCancels
  BY ReadsAre DEF IoInv, LateReads, StopCancels, Published, Results, IoTypeOK
<1>3. ShutdownDrains
  <2>1. ASSUME \E s \in Stoppers : ioStoppers[s] = "RETURNED"
        PROVE  /\ \A r \in Accepted : reads[r].completions = 1
               /\ outstanding = 0
    <3>1. /\ \A w \in Workers : workers[w].at = "EXITED" /\ workers[w].read = NoRead
          /\ pending = <<>>
      BY <2>1, ResourceIoAssumption DEF IoInv, WorkersLeave, HeldReads
    <3>2. Len(pending) = 0 /\ DOMAIN pending = {}
      BY <3>1, ReadsAre
    <3>3. {w \in Workers : workers[w].read # NoRead} = {}
      BY <3>1
    <3>4. outstanding = 0
      BY <3>2, <3>3, FS_EmptySet DEF IoInv, OutstandingIsExact
    <3>5. \A r \in Reads : r # NoRead
      BY ResourceIoAssumption
    <3>. QED
      BY <3>1, <3>2, <3>4, <3>5 DEF IoInv, OtherReads, Accepted
  <2>. QED
    BY <2>1 DEF ShutdownDrains
<1>. QED
  BY <1>1, <1>2, <1>3 DEF IoInv, IoIsSafe

(* For every set of reads, I/O threads and threads that shut down, and every limit:
   the limit holds, no read is lost or answered twice, a read the stop finds unread
   is cancelled, and a shutdown that returns leaves nothing behind. *)
THEOREM IoSafe == IoSpec => []IoIsSafe
<1>1. IoInit => IoInv
  BY IoInitially
<1>2. IoInv /\ [IoNext]_ioVars => IoInv'
  <2>1. ASSUME IoInv, IoNext
        PROVE  IoInv'
    BY <2>1, ReadKeeps, NotifyOneKeeps, CancelKeeps, WorkerKeeps, StopperKeeps DEF IoNext
  <2>. QED
    BY <2>1, IoStutters
<1>. QED
  BY <1>1, <1>2, IoInvImplies, PTL DEF IoSpec

-----------------------------------------------------------------------------
(* Ready queues: one queue. *)

LEMMA SoundIs ==
  ASSUME NEW q, Sound(q)
  PROVE  /\ q.tasks \in Seq(Entry \cup {Moved}) /\ q.head \in Nat /\ Len(q.tasks) \in Nat
         /\ DOMAIN q.tasks = 1 .. Len(q.tasks)
         /\ \A i \in 1 .. Len(q.tasks) : q.tasks[i] \in Entry \cup {Moved}
         /\ Live(q) \subseteq Entry
<1>1. q.tasks \in Seq(Entry \cup {Moved}) /\ q.head \in Nat
  BY DEF Sound
<1>. QED
  BY <1>1, LenProperties DEF Sound, Live

(* A queue made of tasks from head on. *)
LEMMA SoundFrom ==
  ASSUME NEW t \in Seq(Entry \cup {Moved}), NEW h \in Nat, NEW n \in Nat, h <= n, n = Len(t),
         \A i \in h + 1 .. n : t[i] \in Entry,
         \A i, j \in h + 1 .. n : t[i] = t[j] => i = j,
         NEW q, q = [tasks |-> t, head |-> h]
  PROVE  /\ Sound(q)
         /\ \A e : e \in Live(q) <=> \E i \in h + 1 .. n : t[i] = e
<1>1. /\ q \in [tasks : Seq(Entry \cup {Moved}), head : Nat]
      /\ q.tasks = t /\ q.head = h
  OBVIOUS
<1>. QED
  BY <1>1 DEF Sound, Live

LEMMA EmptyIs == Sound(EmptyQueue) /\ Live(EmptyQueue) = {} /\ IsEmpty(EmptyQueue)
<1>1. <<>> \in Seq(Entry \cup {Moved}) /\ Len(<<>>) = 0
  BY EmptySeq
<1>3. 0 + 1 .. 0 = {}
  OBVIOUS
<1>2. Sound(EmptyQueue) /\ Live(EmptyQueue) = {}
  <2>. DEFINE t == <<>>
              h == 0
  <2>1. /\ t \in Seq(Entry \cup {Moved}) /\ h \in Nat /\ h <= Len(t) /\ h + 1 .. Len(t) = {}
        /\ EmptyQueue = [tasks |-> t, head |-> h]
    BY <1>1, <1>3 DEF EmptyQueue
  <2>. HIDE DEF t, h
  <2>. QED
    BY <2>1, SoundFrom
<1>4. EmptyQueue.head = 0 /\ EmptyQueue.tasks = <<>>
  BY DEF EmptyQueue
<1>. QED
  BY <1>1, <1>2, <1>3, <1>4 DEF IsEmpty

LEMMA NothingLives ==
  ASSUME NEW q, Sound(q)
  PROVE  IsEmpty(q) <=> Live(q) = {}
<1>1. CASE IsEmpty(q)
  <2>1. q.head + 1 .. Len(q.tasks) = {}
    BY <1>1, SoundIs DEF IsEmpty
  <2>. QED
    BY <1>1, <2>1 DEF Live
<1>2. CASE ~IsEmpty(q)
  <2>1. q.head + 1 \in q.head + 1 .. Len(q.tasks)
    BY <1>2, SoundIs DEF IsEmpty
  <2>. QED
    BY <1>2, <2>1 DEF Live
<1>. QED
  BY <1>1, <1>2

(* Dropping the consumed prefix keeps what lives. *)
LEMMA CompactKeeps ==
  ASSUME NEW q, Sound(q)
  PROVE  Sound(Compact(q)) /\ Live(Compact(q)) = Live(q)
<1>. DEFINE t == SubSeq(q.tasks, q.head + 1, Len(q.tasks))
            n == Len(q.tasks) - q.head
<1>1. CASE Compact(q) = q
  BY <1>1
<1>2. CASE IsEmpty(q) /\ Compact(q) = EmptyQueue
  BY <1>2, EmptyIs, NothingLives
<1>3. CASE Compact(q) = [tasks |-> t, head |-> 0]
  <2>0. /\ q.head \in Nat /\ Len(q.tasks) \in Nat /\ n \in Nat
        /\ q.head + 1 \in Int /\ Len(q.tasks) \in Int
    BY SoundIs DEF Sound
  <2>1. /\ t \in Seq(Entry \cup {Moved})
        /\ Len(t) = IF q.head + 1 <= Len(q.tasks) THEN Len(q.tasks) - (q.head + 1) + 1 ELSE 0
        /\ \A i \in 1 .. Len(q.tasks) - (q.head + 1) + 1 : t[i] = q.tasks[q.head + 1 + i - 1]
    <3>. DEFINE u == q.tasks
                a == q.head + 1
                b == Len(q.tasks)
    <3>1. a \in Int /\ b \in Int /\ \A i \in a .. b : u[i] \in Entry \cup {Moved}
      BY <2>0 DEF Sound
    <3>2. t = SubSeq(u, a, b)
      OBVIOUS
    <3>. HIDE DEF t, u, a, b
    <3>3. /\ t \in Seq(Entry \cup {Moved})
          /\ Len(t) = IF a <= b THEN b - a + 1 ELSE 0
          /\ \A i \in 1 .. b - a + 1 : t[i] = u[a + i - 1]
      BY <3>1, <3>2, SubSeqProperties
    <3>. QED
      BY <3>3 DEF u, a, b
  <2>. HIDE DEF t
  <2>2. Len(t) = n /\ Len(q.tasks) - (q.head + 1) + 1 = n
    BY <2>0, <2>1
  <2>3. \A i \in 1 .. n : q.head + 1 + i - 1 = q.head + i /\ q.head + i \in q.head + 1 .. Len(q.tasks)
    BY <2>0
  <2>4. \A i \in 1 .. n : t[i] = q.tasks[q.head + i]
    BY <2>1, <2>2, <2>3
  <2>5. \A i \in q.head + 1 .. Len(q.tasks) : i - q.head \in 1 .. n /\ q.head + (i - q.head) = i
    BY <2>0
  <2>. HIDE DEF n
  <2>6. \A e : e \in Live(q) <=> \E i \in 1 .. n : t[i] = e
    <3>. TAKE e
    <3>1. ASSUME e \in Live(q)
          PROVE  \E i \in 1 .. n : t[i] = e
      <4>1. PICK k \in q.head + 1 .. Len(q.tasks) : q.tasks[k] = e
        BY <3>1 DEF Live
      <4>2. k - q.head \in 1 .. n /\ q.head + (k - q.head) = k
        BY <2>5
      <4>3. t[k - q.head] = q.tasks[q.head + (k - q.head)]
        BY <2>4, <4>2
      <4>. QED
        BY <4>1, <4>2, <4>3
    <3>2. ASSUME NEW i \in 1 .. n, t[i] = e
          PROVE  e \in Live(q)
      <4>1. q.head + i \in q.head + 1 .. Len(q.tasks) /\ q.tasks[q.head + i] = e
        BY <2>3, <2>4, <3>2
      <4>. QED
        BY <4>1 DEF Live
    <3>. QED
      BY <3>1, <3>2
  <2>7. \A i \in 1 .. n : t[i] \in Entry
    BY <2>3, <2>4 DEF Sound
  <2>8. ASSUME NEW i \in 1 .. n, NEW j \in 1 .. n, t[i] = t[j]
        PROVE  i = j
    <3>1. q.head + i = q.head + j
      BY <2>3, <2>4, <2>8 DEF Sound
    <3>. QED
      BY <2>0, <3>1 DEF n
  <2>9. /\ 0 \in Nat /\ 0 <= Len(t) /\ 0 + 1 .. Len(t) = 1 .. n
    BY <2>0, <2>2
  <2>. DEFINE h == 0
  <2>10. /\ h \in Nat /\ h <= Len(t) /\ Compact(q) = [tasks |-> t, head |-> h]
         /\ h + 1 .. n = 1 .. n /\ h <= n
    BY <1>3, <2>0 DEF t
  <2>. HIDE DEF h
  <2>. DEFINE c == Compact(q)
  <2>11. /\ c = [tasks |-> t, head |-> h]
         /\ \A i \in h + 1 .. n : t[i] \in Entry
         /\ \A i, j \in h + 1 .. n : t[i] = t[j] => i = j
    BY <2>7, <2>8, <2>10
  <2>. HIDE DEF c
  <2>13. /\ c \in [tasks : Seq(Entry \cup {Moved}), head : Nat]
         /\ c.tasks = t /\ c.head = h /\ Len(c.tasks) = n
    BY <2>1, <2>2, <2>10, <2>11
  <2>12. /\ Sound(c)
         /\ \A e : e \in Live(c) <=> \E i \in h + 1 .. n : t[i] = e
    BY <2>10, <2>11, <2>13 DEF Sound, Live
  <2>. QED
    BY <2>6, <2>10, <2>12 DEF c
<1>. QED
  BY <1>1, <1>2, <1>3 DEF Compact

(* What a publisher appends lives, and the rest still does. *)
LEMMA PushKeeps ==
  ASSUME NEW q, Sound(q), NEW s \in Seq(Entry),
         \A i, j \in DOMAIN s : s[i] = s[j] => i = j,
         \A i \in DOMAIN s : s[i] \notin Live(q)
  PROVE  /\ Sound(Push(q, s))
         /\ Live(Push(q, s)) = Live(q) \cup {s[i] : i \in DOMAIN s}
<1>. DEFINE t == q.tasks \o s
            h == q.head
            m == Len(q.tasks)
            n == Len(s)
<1>1. /\ h \in Nat /\ m \in Nat /\ n \in Nat /\ h <= m /\ DOMAIN s = 1 .. n
      /\ q.tasks \in Seq(Entry \cup {Moved})
      /\ \A i \in 1 .. n : s[i] \in Entry
  BY SoundIs, LenProperties DEF Sound
<1>2. /\ t \in Seq(Entry \cup {Moved}) /\ Len(t) = m + n
      /\ \A i \in 1 .. m + n : t[i] = IF i <= m THEN q.tasks[i] ELSE s[i - m]
  <2>1. s \in Seq(Entry \cup {Moved})
    <3>1. s \in [1 .. n -> Entry \cup {Moved}] /\ n \in Nat
      BY <1>1, LenProperties
    <3>. QED
      BY <3>1
  <2>. QED
    BY <1>1, <2>1, ConcatProperties
<1>3. \A i \in h + 1 .. m : t[i] = q.tasks[i] /\ q.tasks[i] \in Entry /\ q.tasks[i] \in Live(q)
  BY <1>1, <1>2 DEF Sound, Live
<1>4. \A i \in m + 1 .. m + n : i - m \in 1 .. n /\ t[i] = s[i - m]
  BY <1>1, <1>2
<1>5. \A i \in h + 1 .. m + n : i \in h + 1 .. m \/ i \in m + 1 .. m + n
  BY <1>1
<1>6. \A i, j \in h + 1 .. m : q.tasks[i] = q.tasks[j] => i = j
  BY DEF Sound
<1>7. Push(q, s) = [tasks |-> t, head |-> h]
  BY DEF Push
<1>8. \A i \in 1 .. n : m + i \in m + 1 .. m + n /\ m + i - m = i
  BY <1>1
<1>9. Live(q) = {q.tasks[i] : i \in h + 1 .. m}
  BY DEF Live
<1>10. h + 1 .. m \subseteq h + 1 .. m + n /\ m + 1 .. m + n \subseteq h + 1 .. m + n /\ h <= m + n
  BY <1>1
<1>. HIDE DEF t, h, m, n
<1>11. \A e : (\E i \in h + 1 .. m + n : t[i] = e) <=> (e \in Live(q) \/ \E i \in 1 .. n : s[i] = e)
  <2>1. ASSUME NEW i \in h + 1 .. m + n
        PROVE  t[i] \in Live(q) \/ \E j \in 1 .. n : s[j] = t[i]
    BY <1>3, <1>4, <1>5
  <2>2. ASSUME NEW i \in 1 .. n
        PROVE  \E j \in h + 1 .. m + n : t[j] = s[i]
    <3>1. m + i \in h + 1 .. m + n /\ t[m + i] = s[i]
      <4>1. m + i \in m + 1 .. m + n /\ m + i - m = i
        BY <1>8
      <4>. DEFINE k == m + i
      <4>3. k \in m + 1 .. m + n /\ k - m = i
        BY <1>1, <4>1
      <4>. HIDE DEF k
      <4>4. t[k] = s[i]
        BY <1>4, <4>3
      <4>2. t[m + i] = s[i]
        BY <4>4 DEF k
      <4>. QED
        BY <1>10, <4>1, <4>2
    <3>. QED
      BY <3>1
  <2>3. \A e \in Live(q) : \E j \in h + 1 .. m + n : t[j] = e
    BY <1>3, <1>9, <1>10
  <2>. QED
    BY <2>1, <2>2, <2>3
<1>12. \A i \in h + 1 .. m + n : t[i] \in Entry
  BY <1>1, <1>3, <1>4, <1>5
<1>13. ASSUME NEW i \in h + 1 .. m + n, NEW j \in h + 1 .. m + n, t[i] = t[j]
       PROVE  i = j
  <2>1. CASE i \in h + 1 .. m /\ j \in h + 1 .. m
    BY <1>3, <1>6, <1>13, <2>1
  <2>2. CASE i \in m + 1 .. m + n /\ j \in m + 1 .. m + n
    <3>1. i - m = j - m
      BY <1>1, <1>4, <1>13, <2>2
    <3>. QED
      BY <1>1, <2>2, <3>1
  <2>3. CASE i \in h + 1 .. m /\ j \in m + 1 .. m + n
    BY <1>1, <1>3, <1>4, <1>13, <2>3
  <2>4. CASE j \in h + 1 .. m /\ i \in m + 1 .. m + n
    BY <1>1, <1>3, <1>4, <1>13, <2>4
  <2>. QED
    BY <1>5, <2>1, <2>2, <2>3, <2>4
<1>14. /\ Sound(Push(q, s))
       /\ \A e : e \in Live(Push(q, s)) <=> \E i \in h + 1 .. m + n : t[i] = e
  <2>. DEFINE k == m + n
  <2>1. k \in Nat /\ h <= k /\ k = Len(t)
    BY <1>1, <1>2, <1>10
  <2>2. /\ \A i \in h + 1 .. k : t[i] \in Entry
        /\ \A i, j \in h + 1 .. k : t[i] = t[j] => i = j
    BY <1>12, <1>13
  <2>. HIDE DEF k
  <2>. DEFINE c == Push(q, s)
  <2>3. c = [tasks |-> t, head |-> h] /\ h \in Nat /\ t \in Seq(Entry \cup {Moved})
    BY <1>1, <1>2, <1>7
  <2>. HIDE DEF c
  <2>5. /\ c \in [tasks : Seq(Entry \cup {Moved}), head : Nat]
        /\ c.tasks = t /\ c.head = h /\ Len(c.tasks) = k
    BY <2>1, <2>3
  <2>4. /\ Sound(c)
        /\ \A e : e \in Live(c) <=> \E i \in h + 1 .. k : t[i] = e
    BY <2>1, <2>2, <2>5 DEF Sound, Live
  <2>. QED
    BY <2>4 DEF c, k
<1>. QED
  BY <1>1, <1>11, <1>14

(* The owner takes the newest entry and no other. *)
LEMMA NewestKeeps ==
  ASSUME NEW q, Sound(q), ~IsEmpty(q)
  PROVE  /\ Newest(q) \in Live(q)
         /\ Sound(WithoutNewest(q))
         /\ Live(WithoutNewest(q)) = Live(q) \ {Newest(q)}
<1>. DEFINE m == Len(q.tasks)
            h == q.head
            t == SubSeq(q.tasks, 1, m - 1)
            rest == [tasks |-> t, head |-> h]
<1>1. /\ h \in Nat /\ m \in Nat /\ h < m
      /\ \A i \in 1 .. m : q.tasks[i] \in Entry \cup {Moved}
  BY SoundIs DEF IsEmpty
<1>2. /\ t \in Seq(Entry \cup {Moved}) /\ Len(t) = m - 1
      /\ \A i \in 1 .. m - 1 : t[i] = q.tasks[i]
  <2>1. /\ t \in Seq(Entry \cup {Moved})
        /\ Len(t) = IF 1 <= m - 1 THEN m - 1 - 1 + 1 ELSE 0
        /\ \A i \in 1 .. m - 1 - 1 + 1 : t[i] = q.tasks[1 + i - 1]
    <3>1. 1 \in Int /\ m - 1 \in Int /\ \A i \in 1 .. m - 1 : q.tasks[i] \in Entry \cup {Moved}
      BY <1>1
    <3>. HIDE DEF m
    <3>. QED
      BY <3>1, SubSeqProperties
  <2>. HIDE DEF t
  <2>2. Len(t) = m - 1
    BY <1>1, <2>1
  <2>3. \A i \in 1 .. m - 1 : i \in 1 .. m - 1 - 1 + 1 /\ 1 + i - 1 = i
    BY <1>1
  <2>. QED
    BY <2>1, <2>2, <2>3
<1>3. \A i \in h + 1 .. m - 1 : i \in h + 1 .. m /\ i # m /\ t[i] = q.tasks[i]
  BY <1>1, <1>2
<1>4. /\ m \in h + 1 .. m /\ Newest(q) = q.tasks[m]
      /\ \A i \in h + 1 .. m : i # m => i \in h + 1 .. m - 1
  BY <1>1 DEF Newest
<1>5. /\ \A i \in h + 1 .. m : q.tasks[i] \in Entry
      /\ \A i, j \in h + 1 .. m : q.tasks[i] = q.tasks[j] => i = j
      /\ Live(q) = {q.tasks[i] : i \in h + 1 .. m}
  BY DEF Sound, Live
<1>6. h <= m - 1
  BY <1>1
<1>7. WithoutNewest(q) = IF IsEmpty(rest) THEN EmptyQueue ELSE rest
  BY DEF WithoutNewest
<1>. HIDE DEF m, h, t
<1>8. \A e : (\E i \in h + 1 .. m - 1 : t[i] = e) <=> e \in Live(q) \ {Newest(q)}
  BY <1>3, <1>4, <1>5
<1>9. \A i \in h + 1 .. m - 1 : t[i] \in Entry
  BY <1>3, <1>5
<1>10. \A i, j \in h + 1 .. m - 1 : t[i] = t[j] => i = j
  BY <1>3, <1>5
<1>11. Sound(rest) /\ Live(rest) = Live(q) \ {Newest(q)}
  BY <1>1, <1>2, <1>6, <1>8, <1>9, <1>10, SoundFrom
<1>12. Newest(q) \in Live(q)
  BY <1>4, <1>5
<1>. HIDE DEF rest
<1>. QED
  BY <1>7, <1>11, <1>12, EmptyIs, NothingLives

(* Everybody else takes the oldest, at the head. *)
LEMMA OldestKeeps ==
  ASSUME NEW q, Sound(q), ~IsEmpty(q)
  PROVE  /\ Oldest(q) \in Live(q)
         /\ Sound(WithoutOldest(q))
         /\ Live(WithoutOldest(q)) = Live(q) \ {Oldest(q)}
<1>. DEFINE m == Len(q.tasks)
            h == q.head
            t == [q.tasks EXCEPT ![h + 1] = Moved]
            rest == [tasks |-> t, head |-> h + 1]
<1>1. /\ h \in Nat /\ m \in Nat /\ h < m /\ h + 1 \in 1 .. m /\ h + 1 \in Nat
      /\ \A i \in 1 .. m : q.tasks[i] \in Entry \cup {Moved}
      /\ q.tasks \in Seq(Entry \cup {Moved})
  BY SoundIs DEF IsEmpty
<1>2. /\ t \in Seq(Entry \cup {Moved}) /\ Len(t) = m
      /\ \A i \in 1 .. m : i # h + 1 => t[i] = q.tasks[i]
  BY <1>1, ExceptSeq
<1>3. \A i \in h + 1 + 1 .. m : i \in h + 1 .. m /\ i # h + 1 /\ t[i] = q.tasks[i]
  BY <1>1, <1>2
<1>4. /\ h + 1 \in h + 1 .. m /\ Oldest(q) = q.tasks[h + 1]
      /\ \A i \in h + 1 .. m : i # h + 1 => i \in h + 1 + 1 .. m
  BY <1>1 DEF Oldest
<1>5. /\ \A i \in h + 1 .. m : q.tasks[i] \in Entry
      /\ \A i, j \in h + 1 .. m : q.tasks[i] = q.tasks[j] => i = j
      /\ Live(q) = {q.tasks[i] : i \in h + 1 .. m}
  BY DEF Sound, Live
<1>6. h + 1 <= m
  BY <1>1
<1>7. WithoutOldest(q) = Compact(rest)
  BY DEF WithoutOldest
<1>. HIDE DEF m, h, t
<1>8. \A e : (\E i \in h + 1 + 1 .. m : t[i] = e) <=> e \in Live(q) \ {Oldest(q)}
  BY <1>3, <1>4, <1>5
<1>9. \A i \in h + 1 + 1 .. m : t[i] \in Entry
  BY <1>3, <1>5
<1>10. \A i, j \in h + 1 + 1 .. m : t[i] = t[j] => i = j
  BY <1>3, <1>5
<1>11. Sound(rest) /\ Live(rest) = Live(q) \ {Oldest(q)}
  <2>. DEFINE k == h + 1
  <2>1. k \in Nat /\ k <= Len(t) /\ rest = [tasks |-> t, head |-> k]
    BY <1>1, <1>2, <1>6
  <2>2. /\ \A e : (\E i \in k + 1 .. Len(t) : t[i] = e) <=> e \in Live(q) \ {Oldest(q)}
        /\ \A i \in k + 1 .. Len(t) : t[i] \in Entry
        /\ \A i, j \in k + 1 .. Len(t) : t[i] = t[j] => i = j
    BY <1>2, <1>8, <1>9, <1>10
  <2>. HIDE DEF k, rest
  <2>. QED
    BY <1>2, <2>1, <2>2, SoundFrom
<1>12. Oldest(q) \in Live(q)
  BY <1>4, <1>5
<1>. HIDE DEF rest
<1>. QED
  BY <1>7, <1>11, <1>12, CompactKeeps

-----------------------------------------------------------------------------
(* Ready queues: all of them. *)

LEMMA InUnion ==
  ASSUME NEW f, NEW S, NEW G, NEW L, L = (UNION {Live(f[q]) : q \in S}) \cup G
  PROVE  \A e : e \in L <=> (\E q \in S : e \in Live(f[q])) \/ e \in G
<1>. TAKE e
<1>1. ASSUME e \in UNION {Live(f[q]) : q \in S}
      PROVE  \E q \in S : e \in Live(f[q])
  <2>1. PICK T \in {Live(f[q]) : q \in S} : e \in T
    BY <1>1
  <2>2. PICK q \in S : T = Live(f[q])
    BY <2>1
  <2>. QED
    BY <2>1, <2>2
<1>2. ASSUME NEW q \in S, e \in Live(f[q])
      PROVE  e \in UNION {Live(f[r]) : r \in S}
  <2>1. Live(f[q]) \in {Live(f[r]) : r \in S}
    OBVIOUS
  <2>. QED
    BY <1>2, <2>1
<1>3. e \in L <=> (e \in UNION {Live(f[q]) : q \in S}) \/ e \in G
  OBVIOUS
<1>. QED
  BY <1>1, <1>2, <1>3

LEMMA LiveAre ==
  \A e : e \in LiveEntries <=> (\E q \in Queue : e \in Live(queue[q])) \/ e \in Gates
<1>1. LiveEntries = (UNION {Live(queue[q]) : q \in Queue}) \cup Gates
  BY DEF LiveEntries, Gates
<1>. QED
  BY <1>1, InUnion

(* ... after a step. *)
LEMMA LiveWillBe ==
  \A e : e \in LiveEntries' <=> (\E q \in Queue : e \in Live(queue'[q])) \/ e \in Gates'
<1>1. LiveEntries' = (UNION {Live(queue'[q]) : q \in Queue}) \cup Gates'
  BY DEF LiveEntries, Gates
<1>. QED
  BY <1>1, InUnion

(* A queue that takes entries nobody has, or loses one; no entries at all are a
   compaction. *)
LEMMA QueueGrows ==
  ASSUME QueuesAreSound, EntriesAreApart, NEW p \in Queue, NEW x, NEW E, Sound(x),
         queue' = [queue EXCEPT ![p] = x], UNCHANGED gates,
         Live(x) = Live(queue[p]) \cup E, E \cap LiveEntries = {}
  PROVE  QueuesAreSound' /\ EntriesAreApart' /\ LiveEntries' = LiveEntries \cup E
<1>1. /\ queue' \in [Queue -> [tasks : Seq(Entry \cup {Moved}), head : Nat]]
      /\ queue'[p] = x
      /\ \A q \in Queue : q # p => queue'[q] = queue[q]
  BY DEF QueuesAreSound, Sound
<1>2. QueuesAreSound'
  BY <1>1 DEF QueuesAreSound
<1>3. Gates' = Gates
  BY DEF Gates
<1>4. \A q \in Queue : Live(queue[q]) \subseteq LiveEntries
  BY LiveAre
<1>5. Gates \subseteq LiveEntries
  BY LiveAre
<1>6. EntriesAreApart'
  <2>1. ASSUME NEW q \in Queue, NEW r \in Queue, q # r
        PROVE  Live(queue'[q]) \cap Live(queue'[r]) = {}
    BY <1>1, <1>4, <2>1 DEF EntriesAreApart
  <2>2. ASSUME NEW q \in Queue
        PROVE  Live(queue'[q]) \cap Gates = {}
    BY <1>1, <1>5 DEF EntriesAreApart
  <2>. QED
    BY <1>3, <2>1, <2>2 DEF EntriesAreApart
<1>7. \A e : e \in LiveEntries' <=> (\E q \in Queue : e \in Live(queue'[q])) \/ e \in Gates'
  BY LiveWillBe
<1>8. \A e : (\E q \in Queue : e \in Live(queue'[q])) <=>
               (\E q \in Queue : e \in Live(queue[q])) \/ e \in E
  BY <1>1
<1>9. LiveEntries' = LiveEntries \cup E
  BY <1>3, <1>7, <1>8, LiveAre
<1>. QED
  BY <1>2, <1>6, <1>9

LEMMA QueueShrinks ==
  ASSUME QueuesAreSound, EntriesAreApart, NEW p \in Queue, NEW x, NEW e, Sound(x),
         queue' = [queue EXCEPT ![p] = x], UNCHANGED gates,
         e \in Live(queue[p]), Live(x) = Live(queue[p]) \ {e}
  PROVE  QueuesAreSound' /\ EntriesAreApart' /\ LiveEntries' = LiveEntries \ {e}
<1>1. /\ queue' \in [Queue -> [tasks : Seq(Entry \cup {Moved}), head : Nat]]
      /\ queue'[p] = x
      /\ \A q \in Queue : q # p => queue'[q] = queue[q]
  BY DEF QueuesAreSound, Sound
<1>2. QueuesAreSound'
  BY <1>1 DEF QueuesAreSound
<1>3. Gates' = Gates
  BY DEF Gates
<1>4. EntriesAreApart'
  <2>1. ASSUME NEW q \in Queue, NEW r \in Queue, q # r
        PROVE  Live(queue'[q]) \cap Live(queue'[r]) = {}
    BY <1>1, <2>1 DEF EntriesAreApart
  <2>2. ASSUME NEW q \in Queue
        PROVE  Live(queue'[q]) \cap Gates = {}
    BY <1>1 DEF EntriesAreApart
  <2>. QED
    BY <1>3, <2>1, <2>2 DEF EntriesAreApart
<1>5. \A d : d \in LiveEntries' <=> (\E q \in Queue : d \in Live(queue'[q])) \/ d \in Gates'
  BY LiveWillBe
<1>6. e \notin Gates /\ \A q \in Queue : q # p => e \notin Live(queue[q])
  BY DEF EntriesAreApart
<1>7. \A d : (\E q \in Queue : d \in Live(queue'[q])) <=>
               (\E q \in Queue : d \in Live(queue[q])) /\ d # e
  BY <1>1, <1>6
<1>8. LiveEntries' = LiveEntries \ {e}
  BY <1>3, <1>5, <1>6, <1>7, LiveAre
<1>. QED
  BY <1>2, <1>4, <1>8

(* The same for the list of gates. *)
LEMMA GatesGrow ==
  ASSUME QueuesAreSound, EntriesAreApart, gates \in Seq(Entry), NEW e \in Entry,
         e \notin LiveEntries,
         NEW s \in Seq(Entry), Len(s) = 1, s[1] = e,
         gates' = gates \o s, UNCHANGED queue
  PROVE  /\ QueuesAreSound' /\ EntriesAreApart' /\ gates' \in Seq(Entry)
         /\ LiveEntries' = LiveEntries \cup {e}
<1>. DEFINE n == Len(gates)
<1>1. n \in Nat /\ DOMAIN gates = 1 .. n
  BY LenProperties
<1>2. /\ gates' \in Seq(Entry) /\ DOMAIN gates' = 1 .. n + 1
      /\ \A i \in 1 .. n + 1 : gates'[i] = IF i <= n THEN gates[i] ELSE s[i - n]
  BY <1>1, ConcatProperties, LenProperties
<1>. HIDE DEF n
<1>3. \A i \in 1 .. n : i \in 1 .. n + 1 /\ gates'[i] = gates[i]
  BY <1>1, <1>2
<1>4. n + 1 \in 1 .. n + 1 /\ gates'[n + 1] = e /\ n + 1 \notin 1 .. n
  <2>1. n + 1 \in 1 .. n + 1 /\ ~(n + 1 <= n) /\ (n + 1) - n = 1
    BY <1>1
  <2>. QED
    BY <1>1, <1>2, <2>1
<1>5. \A i \in 1 .. n + 1 : i \in 1 .. n \/ i = n + 1
  BY <1>1
<1>6. \A d : d \in Gates <=> \E i \in 1 .. n : gates[i] = d
  BY <1>1 DEF Gates
<1>7. \A d : d \in Gates' <=> \E i \in 1 .. n + 1 : gates'[i] = d
  BY <1>2 DEF Gates
<1>8. Gates' = Gates \cup {e}
  BY <1>3, <1>4, <1>5, <1>6, <1>7
<1>9. e \notin Gates /\ \A q \in Queue : e \notin Live(queue[q])
  BY LiveAre
<1>10. \A d : d \in LiveEntries' <=> (\E q \in Queue : d \in Live(queue[q])) \/ d \in Gates'
  BY LiveWillBe
<1>11. LiveEntries' = LiveEntries \cup {e}
  BY <1>8, <1>10, LiveAre
<1>12. ASSUME NEW i \in 1 .. n + 1, NEW j \in 1 .. n + 1, gates'[i] = gates'[j]
       PROVE  i = j
  <2>1. \A k \in 1 .. n : gates'[k] # e /\ gates'[k] = gates[k]
    BY <1>3, <1>6, <1>9
  <2>2. CASE i = n + 1 \/ j = n + 1
    BY <1>4, <1>5, <1>12, <2>1, <2>2
  <2>3. CASE i \in 1 .. n /\ j \in 1 .. n
    BY <1>1, <1>12, <2>1, <2>3 DEF EntriesAreApart
  <2>. QED
    BY <1>5, <2>2, <2>3
<1>13. EntriesAreApart'
  BY <1>2, <1>8, <1>9, <1>12 DEF EntriesAreApart
<1>14. QueuesAreSound'
  BY DEF QueuesAreSound
<1>. QED
  BY <1>2, <1>11, <1>13, <1>14

LEMMA GatesShrink ==
  ASSUME QueuesAreSound, EntriesAreApart, gates \in Seq(Entry), gates # <<>>,
         gates' = Tail(gates), UNCHANGED queue
  PROVE  /\ QueuesAreSound' /\ EntriesAreApart' /\ gates' \in Seq(Entry)
         /\ Head(gates) \in LiveEntries
         /\ LiveEntries' = LiveEntries \ {Head(gates)}
<1>. DEFINE n == Len(gates)
            e == Head(gates)
<1>1. n \in Nat \ {0} /\ DOMAIN gates = 1 .. n
  BY LenProperties, EmptySeq
<1>2. /\ gates' \in Seq(Entry) /\ DOMAIN gates' = 1 .. n - 1
      /\ \A i \in 1 .. n - 1 : gates'[i] = gates[i + 1]
  BY HeadTailProperties, LenProperties
<1>0. e = gates[1]
  OBVIOUS
<1>. HIDE DEF n, e
<1>3. \A i \in 1 .. n - 1 : i + 1 \in 1 .. n /\ i + 1 # 1
  BY <1>1
<1>4. \A i \in 1 .. n : i # 1 => i - 1 \in 1 .. n - 1 /\ i - 1 + 1 = i
  BY <1>1
<1>5. 1 \in 1 .. n
  BY <1>1
<1>6. \A i, j \in 1 .. n : gates[i] = gates[j] => i = j
  BY <1>1 DEF EntriesAreApart
<1>7. \A d : d \in Gates <=> \E i \in 1 .. n : gates[i] = d
  BY <1>1 DEF Gates
<1>8. \A d : d \in Gates' <=> \E i \in 1 .. n - 1 : gates'[i] = d
  BY <1>2 DEF Gates
<1>9. Gates' = Gates \ {e}
  <2>1. ASSUME NEW i \in 1 .. n - 1
        PROVE  gates'[i] \in Gates \ {e}
    <3>1. gates'[i] = gates[i + 1] /\ i + 1 \in 1 .. n /\ i + 1 # 1
      BY <1>2, <1>3
    <3>2. gates[i + 1] \in Gates /\ gates[i + 1] # e
      BY <1>0, <1>5, <1>6, <1>7, <3>1
    <3>. QED
      BY <3>1, <3>2
  <2>3. e \notin Gates'
    BY <1>8, <2>1
  <2>4. Gates' \subseteq Gates
    BY <1>8, <2>1
  <2>2. ASSUME NEW i \in 1 .. n, i # 1
        PROVE  gates[i] \in Gates'
    <3>1. i - 1 \in 1 .. n - 1 /\ (i - 1) + 1 = i
      BY <1>1, <1>4, <2>2
    <3>2. gates'[i - 1] = gates[i]
      BY <1>2, <3>1
    <3>. QED
      BY <1>8, <3>1, <3>2
  <2>. QED
    BY <1>0, <1>7, <2>2, <2>3, <2>4
<1>10. e \in Gates /\ \A q \in Queue : e \notin Live(queue[q])
  <2>1. e \in Gates
    BY <1>0, <1>5, <1>7
  <2>. QED
    BY <2>1 DEF EntriesAreApart
<1>11. \A d : d \in LiveEntries' <=> (\E q \in Queue : d \in Live(queue[q])) \/ d \in Gates'
  BY LiveWillBe
<1>12. LiveEntries' = LiveEntries \ {e} /\ e \in LiveEntries
  BY <1>9, <1>10, <1>11, LiveAre
<1>13. ASSUME NEW i \in 1 .. n - 1, NEW j \in 1 .. n - 1, gates'[i] = gates'[j]
       PROVE  i = j
  <2>1. i + 1 = j + 1
    BY <1>2, <1>3, <1>6, <1>13
  <2>. QED
    BY <1>1, <2>1
<1>14. EntriesAreApart'
  BY <1>2, <1>9, <1>13 DEF EntriesAreApart
<1>15. QueuesAreSound'
  BY DEF QueuesAreSound
<1>. QED
  BY <1>2, <1>12, <1>14, <1>15 DEF e

LEMMA PlacesSame ==
  ASSUME QueuesAreSound, EntriesAreApart, UNCHANGED <<queue, gates>>
  PROVE  QueuesAreSound' /\ EntriesAreApart' /\ LiveEntries' = LiveEntries
BY DEF QueuesAreSound, EntriesAreApart, LiveEntries, Gates

-----------------------------------------------------------------------------
(* Ready queues: what is counted. *)

PoolFacts ==
  /\ WorkerCount \in Nat \ {0} /\ MaxEntries \in Nat
  /\ published \in 0 .. MaxEntries /\ readyCount \in Nat /\ permits \in Nat /\ release \in Nat
  /\ LastLook \in Nat

LEMMA Numbers == TypeOK => PoolFacts
<1>1. WorkerCount \in Nat \ {0} /\ MaxEntries \in Nat
  BY ReadySchedulerAssumption
<1>. QED
  BY <1>1 DEF PoolFacts, TypeOK, LastLook

Seekers == {w \in Worker : Searching(w)}

LEMMA SeekersAre ==
  /\ IsFiniteSet(Seekers) /\ Cardinality(Seekers) \in Nat
  /\ \A w \in Worker :
        /\ w \notin Seekers => Cardinality(Seekers \cup {w}) = Cardinality(Seekers) + 1
        /\ w \in Seekers => /\ Cardinality(Seekers \ {w}) = Cardinality(Seekers) - 1
                            /\ Cardinality(Seekers) # 0
<1>1. IsFiniteSet(Worker)
  <2>1. 0 \in Int /\ WorkerCount - 1 \in Int
    BY ReadySchedulerAssumption
  <2>2. IsFiniteSet(0 .. WorkerCount - 1)
    BY <2>1, FS_Interval
  <2>. QED
    BY <2>2 DEF Worker
<1>2. Seekers \in SUBSET Worker
  BY DEF Seekers
<1>. HIDE DEF Seekers
<1>3. IsFiniteSet(Seekers)
  BY <1>1, <1>2, FS_Subset
<1>. QED
  BY <1>3, FS_CardinalityType, FS_AddElement, FS_RemoveElement, FS_EmptySet

PCs == {"top", "acquire", "scan", "recheck", "claim", "run", "completed", "check", "exited"}

(* What a worker at l counts for. *)
Awake(l) == IF l \in {"scan", "recheck"} THEN 1 ELSE 0

(* A worker that goes to l starts or stops searching. *)
LEMMA SeekersMove ==
  ASSUME pc \in [Worker -> PCs], NEW w \in Worker, NEW l \in PCs, Goto(w, l)
  PROVE  /\ pc' \in [Worker -> PCs] /\ pc'[w] = l
         /\ \A v \in Worker : v # w => pc'[v] = pc[v]
         /\ Cardinality(Seekers') \in Nat
         /\ Cardinality(Seekers') + Awake(pc[w]) = Cardinality(Seekers) + Awake(l)
<1>1. /\ pc' \in [Worker -> PCs] /\ pc'[w] = l
      /\ \A v \in Worker : v # w => pc'[v] = pc[v]
  BY DEF Goto
<1>2. \A v : v \in Seekers' <=> v \in Worker /\ pc'[v] \in {"scan", "recheck"}
  BY DEF Seekers, Searching
<1>3. \A v : v \in Seekers <=> v \in Worker /\ pc[v] \in {"scan", "recheck"}
  BY DEF Seekers, Searching
<1>4. CASE l \in {"scan", "recheck"} <=> pc[w] \in {"scan", "recheck"}
  <2>1. Seekers' = Seekers
    BY <1>1, <1>2, <1>3, <1>4
  <2>. HIDE DEF Seekers
  <2>. QED
    BY <1>1, <1>4, <2>1, SeekersAre DEF Awake
<1>5. CASE l \in {"scan", "recheck"} /\ pc[w] \notin {"scan", "recheck"}
  <2>1. Seekers' = Seekers \cup {w} /\ w \notin Seekers
    BY <1>1, <1>2, <1>3, <1>5
  <2>. HIDE DEF Seekers
  <2>. QED
    BY <1>1, <1>5, <2>1, SeekersAre DEF Awake
<1>6. CASE l \notin {"scan", "recheck"} /\ pc[w] \in {"scan", "recheck"}
  <2>1. Seekers' = Seekers \ {w} /\ w \in Seekers
    BY <1>1, <1>2, <1>3, <1>6
  <2>. HIDE DEF Seekers
  <2>. QED
    BY <1>1, <1>6, <2>1, SeekersAre DEF Awake
<1>. QED
  BY <1>4, <1>5, <1>6

(* The entries of a publication are new. *)
LEMMA FreshAre ==
  ASSUME TypeOK, NEW n \in Nat, published + n <= MaxEntries
  PROVE  /\ Fresh(n) \in Seq(Entry) /\ Len(Fresh(n)) = n /\ DOMAIN Fresh(n) = 1 .. n
         /\ \A i \in 1 .. n : Fresh(n)[i] = published + i
         /\ \A i, j \in 1 .. n : Fresh(n)[i] = Fresh(n)[j] => i = j
         /\ \A e : (\E i \in 1 .. n : Fresh(n)[i] = e) <=> e \in published + 1 .. published + n
         /\ \A i \in 1 .. n : Fresh(n)[i] \notin 1 .. published
<1>1. published \in Nat /\ MaxEntries \in Nat
  BY Numbers DEF PoolFacts
<1>. DEFINE s == Fresh(n)
<1>2. /\ s \in [1 .. n -> Entry]
      /\ \A i \in 1 .. n : s[i] = published + i
  BY <1>1 DEF Fresh, Entry
<1>. HIDE DEF s
<1>3. s \in Seq(Entry) /\ Len(s) = n /\ DOMAIN s = 1 .. n
  <2>1. s \in Seq(Entry)
    BY <1>2
  <2>2. s = [i \in 1 .. n |-> s[i]]
    BY <1>2
  <2>3. Len(s) = n
    BY <2>2
  <2>. QED
    BY <1>2, <2>1, <2>3
<1>4. \A i, j \in 1 .. n : s[i] = s[j] => i = j
  BY <1>1, <1>2
<1>5. \A i \in 1 .. n : s[i] \notin 1 .. published /\ s[i] \in published + 1 .. published + n
  BY <1>1, <1>2
<1>6. ASSUME NEW e \in published + 1 .. published + n
      PROVE  \E i \in 1 .. n : s[i] = e
  <2>1. e - published \in 1 .. n /\ published + (e - published) = e
    BY <1>1
  <2>2. s[e - published] = e
    BY <1>2, <2>1
  <2>. QED
    BY <2>1, <2>2
<1>. QED
  BY <1>2, <1>3, <1>4, <1>5, <1>6 DEF s

LEMMA PushedQueue ==
  ASSUME PoolInv, NEW n \in Nat, published + n <= MaxEntries, NEW p \in Queue, NEW y, Sound(y),
         Live(y) = Live(queue[p]),
         queue' = [queue EXCEPT ![p] = Push(y, Fresh(n))], UNCHANGED gates
  PROVE  /\ QueuesAreSound' /\ EntriesAreApart'
         /\ LiveEntries' = LiveEntries \cup (published + 1 .. published + n)
<1>. DEFINE s == Fresh(n)
            x == Push(y, s)
            E == published + 1 .. published + n
<1>1. /\ s \in Seq(Entry) /\ DOMAIN s = 1 .. n
      /\ \A i, j \in DOMAIN s : s[i] = s[j] => i = j
      /\ \A e : (\E i \in DOMAIN s : s[i] = e) <=> e \in E
      /\ \A i \in DOMAIN s : s[i] \notin 1 .. published
  BY FreshAre DEF PoolInv
<1>2. LiveEntries \subseteq 1 .. published
  BY DEF PoolInv, EntriesArePublished
<1>3. \A i \in DOMAIN s : s[i] \notin LiveEntries
  BY <1>1, <1>2
<1>4. Live(queue[p]) \subseteq LiveEntries
  BY LiveAre
<1>5. queue' = [queue EXCEPT ![p] = x]
  OBVIOUS
<1>. HIDE DEF s, E
<1>6. Sound(x) /\ Live(x) = Live(y) \cup {s[i] : i \in DOMAIN s}
  BY <1>1, <1>3, <1>4, PushKeeps
<1>7. {s[i] : i \in DOMAIN s} = E
  BY <1>1
<1>8. E \cap LiveEntries = {}
  BY <1>1, <1>3
<1>9. Live(x) = Live(queue[p]) \cup E
  BY <1>6, <1>7
<1>. HIDE DEF x
<1>. QED
  BY <1>5, <1>6, <1>8, <1>9, QueueGrows DEF PoolInv, E

(* The count follows the set. *)
LEMMA LiveCounts ==
  ASSUME PoolInv
  PROVE  /\ IsFiniteSet(LiveEntries) /\ Cardinality(LiveEntries) = readyCount
         /\ readyCount \in Nat /\ readyCount <= published
         /\ \A e \in LiveEntries : Cardinality(LiveEntries \ {e}) = readyCount - 1 /\ readyCount # 0
         /\ \A n \in Nat : Cardinality(LiveEntries \cup (published + 1 .. published + n)) = readyCount + n
<1>1. published \in Nat /\ LiveEntries \in SUBSET (1 .. published)
  BY Numbers DEF PoolFacts, PoolInv, EntriesArePublished
<1>2. IsFiniteSet(1 .. published) /\ Cardinality(1 .. published) = published
  <2>1. /\ IsFiniteSet(1 .. published)
        /\ Cardinality(1 .. published) = IF 1 > published THEN 0 ELSE published - 1 + 1
    BY <1>1, FS_Interval
  <2>. QED
    BY <1>1, <2>1
<1>3. readyCount = Cardinality(LiveEntries)
  BY DEF PoolInv, NoLostWakeup
<1>. DEFINE L == LiveEntries
<1>. HIDE DEF L
<1>4. /\ IsFiniteSet(L) /\ Cardinality(L) <= published /\ Cardinality(L) \in Nat
  BY <1>1, <1>2, FS_Subset, FS_CardinalityType DEF L
<1>5. ASSUME NEW e \in L
      PROVE  Cardinality(L \ {e}) = Cardinality(L) - 1 /\ Cardinality(L) # 0
  BY <1>4, FS_RemoveElement, FS_EmptySet
<1>6. ASSUME NEW n \in Nat
      PROVE  Cardinality(L \cup (published + 1 .. published + n)) = Cardinality(L) + n
  <2>. DEFINE E == published + 1 .. published + n
  <2>1. IsFiniteSet(E) /\ Cardinality(E) = n
    <3>. DEFINE a == published + 1
                b == published + n
    <3>1. a \in Int /\ b \in Int /\ n = IF a > b THEN 0 ELSE b - a + 1
      BY <1>1
    <3>2. E = a .. b
      OBVIOUS
    <3>. HIDE DEF a, b, E
    <3>3. IsFiniteSet(a .. b) /\ Cardinality(a .. b) = IF a > b THEN 0 ELSE b - a + 1
      BY <3>1, FS_Interval
    <3>. QED
      BY <3>1, <3>2, <3>3
  <2>2. L \cap E = {}
    BY <1>1 DEF L
  <2>. HIDE DEF E
  <2>3. Cardinality(L \cup E) = Cardinality(L) + Cardinality(E) - Cardinality(L \cap E)
    BY <1>4, <2>1, FS_Union
  <2>4. Cardinality(L \cap E) = 0
    BY <2>2, FS_EmptySet
  <2>. QED
    BY <1>4, <2>1, <2>3, <2>4 DEF E
<1>. QED
  BY <1>3, <1>4, <1>5, <1>6 DEF L

-----------------------------------------------------------------------------
(* Ready queues: the kinds of steps. *)

(* A publication keeps the invariant: as many permits are due as entries come. *)
LEMMA PublicationKeeps ==
  ASSUME PoolInv, NEW n \in Nat, published + n <= MaxEntries, NEW th \in Thread,
         QueuesAreSound', EntriesAreApart', gates' \in Seq(Entry),
         LiveEntries' = LiveEntries \cup (published + 1 .. published + n),
         readyCount' = readyCount + n, published' = published + n,
         release = 0, release' = n, ~stopping, publisher' = th, reserved' = FALSE,
         UNCHANGED <<permits, stopping, taken, held, look, pc>>
  PROVE  PoolInv'
<1>1. PoolFacts
  BY Numbers DEF PoolInv
<1>2. readyCount' = Cardinality(LiveEntries') /\ readyCount <= published /\ readyCount \in Nat
  BY LiveCounts
<1>3. readyCount' \in 0 .. MaxEntries /\ published' \in 0 .. MaxEntries
  BY <1>1, <1>2 DEF PoolFacts
<1>4. TypeOK'
  <2>1. \A q \in Queue : /\ queue'[q].tasks \in Seq(Entry \cup {Moved})
                         /\ queue'[q].head \in 0 .. Len(queue'[q].tasks)
    <3>. TAKE q \in Queue
    <3>1. Sound(queue'[q])
      BY DEF QueuesAreSound
    <3>2. queue'[q].head <= Len(queue'[q].tasks)
      BY <3>1 DEF Sound
    <3>. QED
      BY <3>1, <3>2, SoundIs
  <2>. QED
    BY <1>3, <2>1 DEF PoolInv, TypeOK
<1>5. EntriesArePublished'
  <2>1. /\ \A e \in 1 .. published : e \in 1 .. published + n
        /\ \A e \in published + 1 .. published + n : e \in 1 .. published + n
    BY <1>1 DEF PoolFacts
  <2>2. LiveEntries \subseteq 1 .. published /\ taken \subseteq 1 .. published
    BY DEF PoolInv, EntriesArePublished
  <2>3. LiveEntries' \subseteq 1 .. published' /\ taken' \subseteq 1 .. published'
    BY <2>1, <2>2
  <2>. QED
    BY <2>3 DEF EntriesArePublished
<1>6. PublisherIsAlone'
  <2>1. th # None
    BY ReadySchedulerAssumption DEF Thread, Worker
  <2>. QED
    BY <2>1 DEF PublisherIsAlone
<1>7. NoLostWakeup'
  <2>1. {w \in Worker : Searching(w)}' = {w \in Worker : Searching(w)}
    BY DEF Searching
  <2>2. readyCount <= permits + release + Cardinality(Seekers) /\ Cardinality(Seekers) \in Nat
    BY SeekersAre DEF PoolInv, NoLostWakeup, Seekers
  <2>. HIDE DEF Seekers
  <2>3. readyCount' <= permits' + release' + Cardinality(Seekers)
    BY <1>1, <2>2 DEF PoolFacts
  <2>. QED
    BY <1>2, <2>1, <2>3 DEF NoLostWakeup, Seekers
<1>8. ExitedMeansDrained'
  BY DEF PoolInv, ExitedMeansDrained
<1>. QED
  BY <1>4, <1>5, <1>6, <1>7, <1>8 DEF PoolInv

(* A worker that pops an entry stops searching. *)
LEMMA PopKeeps ==
  ASSUME PoolInv, NEW w \in Worker, NEW e \in LiveEntries, pc[w] = "scan", Pop(w, e),
         QueuesAreSound', EntriesAreApart', gates' \in Seq(Entry),
         LiveEntries' = LiveEntries \ {e}
  PROVE  PoolInv'
<1>1. PoolFacts
  BY Numbers DEF PoolInv
<1>2. /\ readyCount' = Cardinality(LiveEntries') /\ readyCount \in Nat \ {0}
      /\ readyCount' = readyCount - 1 /\ readyCount <= published
  BY LiveCounts DEF Pop
<1>3. readyCount' \in 0 .. MaxEntries /\ \A d \in 1 .. published : d \in Entry
  BY <1>1, <1>2 DEF PoolFacts, Entry
<1>4. LiveEntries \subseteq 1 .. published /\ taken \subseteq 1 .. published
  BY DEF PoolInv, EntriesArePublished
<1>5. /\ pc' \in [Worker -> PCs] /\ pc'[w] = "claim"
      /\ \A v \in Worker : v # w => pc'[v] = pc[v]
      /\ Cardinality(Seekers') \in Nat /\ Cardinality(Seekers') + 1 = Cardinality(Seekers)
  <2>1. pc \in [Worker -> PCs] /\ "claim" \in PCs /\ Goto(w, "claim")
    BY DEF PoolInv, TypeOK, PCs, Pop
  <2>. HIDE DEF Seekers
  <2>2. Cardinality(Seekers) \in Nat
    BY SeekersAre
  <2>. QED
    BY <2>1, <2>2, SeekersMove DEF Awake
<1>6. TypeOK'
  <2>1. \A q \in Queue : /\ queue'[q].tasks \in Seq(Entry \cup {Moved})
                         /\ queue'[q].head \in 0 .. Len(queue'[q].tasks)
    <3>. TAKE q \in Queue
    <3>1. Sound(queue'[q])
      BY DEF QueuesAreSound
    <3>2. queue'[q].head <= Len(queue'[q].tasks)
      BY <3>1 DEF Sound
    <3>. QED
      BY <3>1, <3>2, SoundIs
  <2>2. taken' \subseteq Entry /\ held' \in [Worker -> Entry \cup {None}]
    BY <1>3, <1>4 DEF Pop, PoolInv, TypeOK
  <2>. QED
    BY <1>3, <1>5, <2>1, <2>2 DEF PoolInv, TypeOK, PCs, Pop, mutexVars
<1>7. EntriesArePublished'
  BY <1>4 DEF EntriesArePublished, Pop
<1>8. PublisherIsAlone'
  BY DEF PublisherIsAlone, PoolInv, Pop, mutexVars
<1>9. NoLostWakeup'
  <2>1. readyCount <= permits + release + Cardinality(Seekers)
    BY DEF PoolInv, NoLostWakeup, Seekers
  <2>2. permits' = permits /\ release' = release
    BY DEF Pop, mutexVars
  <2>3. readyCount' <= permits' + release' + Cardinality(Seekers')
    <3>. HIDE DEF Seekers
    <3>. QED
      BY <1>1, <1>2, <1>5, <2>1, <2>2 DEF PoolFacts
  <2>. QED
    BY <1>2, <2>3 DEF NoLostWakeup, Seekers
<1>10. ExitedMeansDrained'
  BY <1>2, <1>5 DEF PoolInv, ExitedMeansDrained, Pop
<1>. QED
  BY <1>6, <1>7, <1>8, <1>9, <1>10 DEF PoolInv

LEMMA PermitsSuffice ==
  ASSUME NEW count \in Nat, NEW p \in Nat, NEW pp \in Nat, NEW due \in Nat,
         NEW k \in Nat, NEW kk \in Nat, NEW a \in Nat, NEW b \in Nat,
         count <= p + due + k, kk + a = k + b, count = 0 \/ pp + b = p + a
  PROVE  count <= pp + due + kk
OBVIOUS

(* Permits that are released, or added, serve as many entries. *)
LEMMA MorePermitsSuffice ==
  ASSUME NEW count \in Nat, NEW p \in Nat, NEW pp \in Nat, NEW due \in Nat,
         NEW dd \in Nat, NEW k \in Nat, count <= p + due + k, p + due <= pp + dd
  PROVE  count <= pp + dd + k
OBVIOUS

(* A worker goes on without an entry: it keeps the promise of its permit, or finds
   that nothing is ready. *)
LEMMA GoingOnKeeps ==
  ASSUME PoolInv, NEW w \in Worker, NEW l \in PCs, Goto(w, l),
         QueuesAreSound', EntriesAreApart', gates' = gates, LiveEntries' = LiveEntries,
         permits' \in Nat, held' \in [Worker -> Entry \cup {None}],
         look' \in [Worker -> 0 .. LastLook],
         \/ readyCount = 0
         \/ permits' + Awake(l) = permits + Awake(pc[w]),
         l = "exited" => stopping /\ readyCount = 0,
         UNCHANGED <<readyCount, stopping, mutexVars, published, taken>>
  PROVE  PoolInv'
<1>1. PoolFacts
  BY Numbers DEF PoolInv
<1>2. /\ pc' \in [Worker -> PCs] /\ pc'[w] = l
      /\ \A v \in Worker : v # w => pc'[v] = pc[v]
      /\ Cardinality(Seekers') \in Nat
      /\ Cardinality(Seekers') + Awake(pc[w]) = Cardinality(Seekers) + Awake(l)
  <2>1. pc \in [Worker -> PCs]
    BY DEF PoolInv, TypeOK, PCs
  <2>. QED
    BY <2>1, SeekersMove
<1>3. TypeOK'
  <2>1. \A q \in Queue : /\ queue'[q].tasks \in Seq(Entry \cup {Moved})
                         /\ queue'[q].head \in 0 .. Len(queue'[q].tasks)
    <3>. TAKE q \in Queue
    <3>1. Sound(queue'[q])
      BY DEF QueuesAreSound
    <3>2. queue'[q].head <= Len(queue'[q].tasks)
      BY <3>1 DEF Sound
    <3>. QED
      BY <3>1, <3>2, SoundIs
  <2>. QED
    BY <1>2, <2>1 DEF PoolInv, TypeOK, PCs, mutexVars
<1>4. EntriesArePublished' /\ PublisherIsAlone'
  BY DEF PoolInv, EntriesArePublished, PublisherIsAlone, mutexVars
<1>5. NoLostWakeup'
  <2>1. /\ readyCount <= permits + release + Cardinality(Seekers)
        /\ readyCount = Cardinality(LiveEntries)
    BY DEF PoolInv, NoLostWakeup, Seekers
  <2>2. Cardinality(Seekers) \in Nat
    BY SeekersAre
  <2>3. readyCount' = readyCount /\ release' = release
    BY DEF mutexVars
  <2>4. readyCount <= permits' + release + Cardinality(Seekers')
    <3>1. Awake(l) \in Nat /\ Awake(pc[w]) \in Nat
      BY DEF Awake
    <3>2. readyCount \in Nat /\ permits \in Nat /\ release \in Nat
      BY <1>1 DEF PoolFacts
    <3>. HIDE DEF Seekers
    <3>. QED
      BY <1>2, <2>1, <2>2, <3>1, <3>2, PermitsSuffice
  <2>. QED
    BY <2>1, <2>3, <2>4 DEF NoLostWakeup, Seekers
<1>6. ExitedMeansDrained'
  BY <1>2 DEF PoolInv, ExitedMeansDrained
<1>. QED
  BY <1>3, <1>4, <1>5, <1>6 DEF PoolInv

-----------------------------------------------------------------------------
(* Ready queues: each action. *)

LEMMA PublishKeeps ==
  ASSUME PoolInv, NEW th \in Thread, Publish(th)
  PROVE  PoolInv' /\ LiveEntries' = LiveEntries \cup (published + 1 .. published + 1)
                  /\ UNCHANGED taken
<1>1. PoolFacts /\ published + 1 <= MaxEntries /\ 1 \in Nat
  BY Numbers DEF PoolInv, PoolFacts, Publish, PublishReadyTask, PublishGroupReadyTask
<1>2. release = 0 /\ ~reserved /\ ~stopping
  BY DEF PoolInv, PublisherIsAlone, MayPublish, Publish, PublishReadyTask,
         PublishGroupReadyTask
<1>3. /\ readyCount' = readyCount + 1 /\ published' = published + 1
      /\ publisher' = th /\ release' = 1
      /\ UNCHANGED <<permits, stopping, taken, held, look, pc>>
      /\ reserved' = reserved
  BY DEF Publish, PublishReadyTask, PublishGroupReadyTask
<1>4. reserved' = FALSE
  BY <1>2, <1>3 DEF PoolInv, TypeOK
<1>5. gates \in Seq(Entry)
  BY DEF PoolInv, TypeOK
<1>6. CASE PublishReadyTask(th)
  <2>1. Target(th) \in Queue
    BY DEF Target, Queue
  <2>2. Sound(Compact(queue[Target(th)])) /\ Live(Compact(queue[Target(th)])) = Live(queue[Target(th)])
    BY <2>1, CompactKeeps DEF PoolInv, QueuesAreSound
  <2>3. /\ queue' = [queue EXCEPT ![Target(th)] = Push(Compact(queue[Target(th)]), Fresh(1))]
        /\ UNCHANGED gates
    BY <1>6 DEF PublishReadyTask
  <2>4. /\ QueuesAreSound' /\ EntriesAreApart'
        /\ LiveEntries' = LiveEntries \cup (published + 1 .. published + 1)
    BY <1>1, <2>1, <2>2, <2>3, PushedQueue
  <2>5. gates' \in Seq(Entry)
    BY <1>5, <2>3
  <2>. QED
    BY <1>1, <1>2, <1>3, <1>4, <2>4, <2>5, PublicationKeeps
<1>7. CASE PublishGroupReadyTask(th)
  <2>. DEFINE s == Fresh(1)
              e == published + 1
  <2>1. s \in Seq(Entry) /\ Len(s) = 1 /\ s[1] = e
    <3>1. 1 \in 1 .. 1
      OBVIOUS
    <3>. QED
      BY <1>1, <3>1, FreshAre DEF PoolInv
  <2>2. /\ e \in Entry /\ e \notin LiveEntries /\ {e} = published + 1 .. published + 1
    BY <1>1 DEF PoolFacts, PoolInv, EntriesArePublished, Entry
  <2>3. gates' = gates \o s /\ UNCHANGED queue
    BY <1>7 DEF PublishGroupReadyTask
  <2>. HIDE DEF s, e
  <2>4. /\ QueuesAreSound' /\ EntriesAreApart' /\ gates' \in Seq(Entry)
        /\ LiveEntries' = LiveEntries \cup {e}
    BY <1>5, <2>1, <2>2, <2>3, GatesGrow DEF PoolInv
  <2>. QED
    BY <1>1, <1>2, <1>3, <1>4, <2>2, <2>4, PublicationKeeps
<1>. QED
  BY <1>3, <1>6, <1>7 DEF Publish

LEMMA PublishDependentsKeeps ==
  ASSUME PoolInv, NEW w \in Worker, NEW n \in 0 .. MaxEntries, PublishDependents(w, n)
  PROVE  PoolInv' /\ LiveEntries' = LiveEntries \cup (published + 1 .. published + n)
                  /\ UNCHANGED taken
<1>1. PoolFacts /\ published + n <= MaxEntries /\ n \in Nat
  BY Numbers DEF PoolInv, PoolFacts, PublishDependents
<1>2. /\ publisher = w /\ reserved
      /\ queue' = [queue EXCEPT ![w] = Push(queue[w], Fresh(n))]
      /\ readyCount' = readyCount + n /\ published' = published + n
      /\ release' = n /\ reserved' = FALSE
      /\ UNCHANGED <<gates, permits, stopping, publisher, taken, held, look, pc>>
  BY DEF PublishDependents
<1>3. w # None /\ w \in Thread /\ w \in Queue
  BY ReadySchedulerAssumption DEF Thread, Worker, Queue
<1>4. release = 0 /\ ~stopping
  BY <1>2, <1>3 DEF PoolInv, PublisherIsAlone
<1>5. Sound(queue[w])
  BY <1>3 DEF PoolInv, QueuesAreSound
<1>6. gates' \in Seq(Entry) /\ UNCHANGED gates
  BY <1>2 DEF PoolInv, TypeOK
<1>7. /\ QueuesAreSound' /\ EntriesAreApart'
      /\ LiveEntries' = LiveEntries \cup (published + 1 .. published + n)
  BY <1>1, <1>2, <1>3, <1>5, <1>6, PushedQueue
<1>8. publisher' = w /\ UNCHANGED <<permits, stopping, taken, held, look, pc>>
  BY <1>2
<1>. QED
  BY <1>1, <1>2, <1>3, <1>4, <1>6, <1>7, <1>8, PublicationKeeps

(* Room is made without moving an entry in or out. *)
LEMMA ReserveRoomKeeps ==
  ASSUME PoolInv, NEW w \in Worker, ReserveRoom(w)
  PROVE  PoolInv' /\ UNCHANGED <<LiveEntries, taken>>
<1>. DEFINE x == Compact(queue[w])
            E == {}
<1>1. w # None /\ w \in Thread /\ w \in Queue
  BY ReadySchedulerAssumption DEF Thread, Worker, Queue
<1>2. Sound(x) /\ Live(x) = Live(queue[w]) \cup E /\ E \cap LiveEntries = {}
  BY <1>1, CompactKeeps DEF PoolInv, QueuesAreSound
<1>3. queue' = [queue EXCEPT ![w] = x] /\ UNCHANGED gates
  BY DEF ReserveRoom
<1>. HIDE DEF x
<1>4. QueuesAreSound' /\ EntriesAreApart' /\ LiveEntries' = LiveEntries
  <2>. HIDE DEF E
  <2>1. QueuesAreSound' /\ EntriesAreApart' /\ LiveEntries' = LiveEntries \cup E
    BY <1>1, <1>2, <1>3, QueueGrows DEF PoolInv
  <2>. QED
    BY <2>1 DEF E
<1>5. /\ pc[w] = "run" /\ publisher = None /\ ~stopping
      /\ Goto(w, "completed") /\ publisher' = w /\ reserved' = TRUE
      /\ UNCHANGED <<gates, readyCount, permits, stopping, release, published, taken, held, look>>
  BY DEF ReserveRoom, MayPublish, Goto
<1>6. /\ pc' \in [Worker -> PCs] /\ pc'[w] = "completed"
      /\ \A v \in Worker : v # w => pc'[v] = pc[v]
      /\ Cardinality(Seekers') = Cardinality(Seekers)
  <2>1. pc \in [Worker -> PCs] /\ "completed" \in PCs
    BY DEF PoolInv, TypeOK, PCs
  <2>. HIDE DEF Seekers
  <2>2. Cardinality(Seekers) \in Nat
    BY SeekersAre
  <2>. QED
    BY <1>5, <2>1, <2>2, SeekersMove DEF Awake
<1>7. TypeOK'
  <2>1. \A q \in Queue : /\ queue'[q].tasks \in Seq(Entry \cup {Moved})
                         /\ queue'[q].head \in 0 .. Len(queue'[q].tasks)
    <3>. TAKE q \in Queue
    <3>1. Sound(queue'[q])
      BY <1>4 DEF QueuesAreSound
    <3>2. queue'[q].head <= Len(queue'[q].tasks)
      BY <3>1 DEF Sound
    <3>. QED
      BY <3>1, <3>2, SoundIs
  <2>. QED
    BY <1>1, <1>5, <1>6, <2>1 DEF PoolInv, TypeOK, PCs
<1>8. EntriesArePublished' /\ PublisherIsAlone' /\ NoLostWakeup' /\ ExitedMeansDrained'
  <2>1. EntriesArePublished' /\ PublisherIsAlone'
    BY <1>1, <1>4, <1>5 DEF PoolInv, EntriesArePublished, PublisherIsAlone
  <2>2. NoLostWakeup'
    BY <1>4, <1>5, <1>6 DEF PoolInv, NoLostWakeup, Seekers
  <2>3. ExitedMeansDrained'
    BY <1>5, <1>6 DEF PoolInv, ExitedMeansDrained
  <2>. QED
    BY <2>1, <2>2, <2>3
<1>. QED
  BY <1>4, <1>5, <1>7, <1>8 DEF PoolInv

(* The permits due are released, and a stop releases one for every worker. *)
LEMMA ReleaseKeepsPool ==
  ASSUME PoolInv, \/ \E th \in Thread : ReleaseWakeups(th)
                  \/ StopWorkers
  PROVE  PoolInv' /\ UNCHANGED <<LiveEntries, taken>>
<1>1. PoolFacts
  BY Numbers DEF PoolInv
<1>2. /\ UNCHANGED <<queue, gates, readyCount, published, taken, held, look, pc>>
      /\ permits' \in Nat /\ release' \in Nat /\ permits + release <= permits' + release'
  BY <1>1 DEF ReleaseWakeups, StopWorkers, PoolFacts, mutexVars
<1>3. /\ publisher' = None /\ release' = 0 /\ ~reserved'
      /\ reserved' \in BOOLEAN /\ stopping' \in BOOLEAN
      /\ stopping => stopping'
  <2>1. CASE \E th \in Thread : ReleaseWakeups(th)
    <3>1. /\ publisher' = None /\ release' = 0 /\ ~reserved
          /\ reserved' = reserved /\ stopping' = stopping
      BY <2>1 DEF ReleaseWakeups
    <3>. QED
      BY <3>1 DEF PoolInv, TypeOK
  <2>2. CASE StopWorkers
    <3>1. /\ publisher = None /\ stopping' = TRUE /\ publisher' = publisher
          /\ release' = release /\ reserved' = reserved
      BY <2>2 DEF StopWorkers, mutexVars
    <3>2. release = 0 /\ ~reserved
      BY <3>1 DEF PoolInv, PublisherIsAlone
    <3>. QED
      BY <3>1, <3>2 DEF PoolInv, TypeOK
  <2>. QED
    BY <2>1, <2>2
<1>4. QueuesAreSound' /\ EntriesAreApart' /\ LiveEntries' = LiveEntries
  BY <1>2, PlacesSame DEF PoolInv
<1>5. TypeOK'
  BY <1>2, <1>3 DEF PoolInv, TypeOK
<1>6. EntriesArePublished' /\ PublisherIsAlone'
  BY <1>2, <1>3, <1>4 DEF PoolInv, EntriesArePublished, PublisherIsAlone
<1>7. NoLostWakeup'
  <2>1. {w \in Worker : Searching(w)}' = {w \in Worker : Searching(w)}
    BY <1>2 DEF Searching
  <2>2. /\ readyCount <= permits + release + Cardinality(Seekers) /\ Cardinality(Seekers) \in Nat
        /\ readyCount = Cardinality(LiveEntries)
    BY SeekersAre DEF PoolInv, NoLostWakeup, Seekers
  <2>. HIDE DEF Seekers
  <2>3. readyCount' <= permits' + release' + Cardinality(Seekers)
    <3>1. readyCount \in Nat /\ permits \in Nat /\ release \in Nat /\ readyCount' = readyCount
      BY <1>1, <1>2 DEF PoolFacts
    <3>. QED
      BY <1>2, <2>2, <3>1, MorePermitsSuffice
  <2>. QED
    BY <1>2, <1>4, <2>1, <2>2, <2>3 DEF NoLostWakeup, Seekers
<1>8. ExitedMeansDrained'
  BY <1>2, <1>3 DEF PoolInv, ExitedMeansDrained
<1>. QED
  BY <1>2, <1>4, <1>5, <1>6, <1>7, <1>8 DEF PoolInv

(* The steps of a worker that looks at no queue. *)
LEMMA BetweenLooksKeeps ==
  ASSUME PoolInv, NEW w \in Worker,
         Top(w) \/ Acquire(w) \/ Recheck(w) \/ TryClaim(w) \/ Check(w) \/ EndTask(w)
  PROVE  PoolInv' /\ UNCHANGED <<LiveEntries, taken>>
<1>1. PoolFacts
  BY Numbers DEF PoolInv
<1>2. /\ UNCHANGED <<queue, gates>> /\ gates' = gates
      /\ UNCHANGED <<readyCount, stopping, mutexVars, published, taken>>
  BY DEF Top, Acquire, Recheck, TryClaim, Check, EndTask
<1>3. QueuesAreSound' /\ EntriesAreApart' /\ LiveEntries' = LiveEntries
  BY <1>2, PlacesSame DEF PoolInv
<1>4. /\ permits \in Nat /\ held \in [Worker -> Entry \cup {None}]
      /\ look \in [Worker -> 0 .. LastLook]
  BY DEF PoolInv, TypeOK
<1>5. held' \in [Worker -> Entry \cup {None}]
  BY <1>4 DEF Top, Acquire, Recheck, TryClaim, Check, EndTask
<1>6. look' \in [Worker -> 0 .. LastLook]
  <2>1. 0 \in 0 .. LastLook
    BY <1>1 DEF PoolFacts
  <2>. QED
    BY <1>4, <2>1 DEF Top, Acquire, Recheck, TryClaim, Check, EndTask
<1>7. permits' \in Nat
  BY <1>4 DEF Top, Acquire, Recheck, TryClaim, Check, EndTask
<1>8. ASSUME NEW l \in PCs, Goto(w, l),
             readyCount = 0 \/ permits' + Awake(l) = permits + Awake(pc[w]),
             l = "exited" => stopping /\ readyCount = 0
      PROVE  PoolInv'
  BY <1>2, <1>3, <1>5, <1>6, <1>7, <1>8, GoingOnKeeps
<1>9. CASE Acquire(w)
  <2>1. Goto(w, "scan") /\ permits' + 1 = permits + 0 /\ pc[w] = "acquire"
    BY <1>4, <1>9 DEF Acquire
  <2>2. "scan" \in PCs /\ Awake("scan") = 1 /\ Awake("acquire") = 0
    BY DEF PCs, Awake
  <2>. QED
    BY <1>2, <1>3, <1>8, <2>1, <2>2
<1>10. CASE Recheck(w)
  <2>. DEFINE l == IF HasReadyTasks THEN "scan" ELSE "check"
  <2>1. Goto(w, l) /\ permits' = permits /\ pc[w] = "recheck"
    BY <1>10 DEF Recheck
  <2>2. l \in PCs /\ l # "exited" /\ Awake("recheck") = 1 /\ (readyCount = 0 \/ Awake(l) = 1)
    BY DEF PCs, Awake, HasReadyTasks
  <2>. HIDE DEF l
  <2>. QED
    BY <1>2, <1>3, <1>8, <2>1, <2>2
<1>11. CASE Top(w) \/ Check(w) \/ TryClaim(w) \/ EndTask(w)
  <2>1. PICK l \in {"exited", "acquire", "top", "run", "check"} :
           Goto(w, l) /\ (l = "exited" => stopping /\ ~HasReadyTasks)
    BY <1>11 DEF Top, Check, TryClaim, EndTask
  <2>2. /\ permits' = permits /\ pc[w] \in {"top", "check", "claim", "run", "completed"}
    BY <1>11 DEF Top, Check, TryClaim, EndTask
  <2>3. /\ l \in PCs /\ Awake(l) = 0 /\ Awake(pc[w]) = 0
        /\ l = "exited" => stopping /\ readyCount = 0
    BY <2>1, <2>2 DEF PCs, Awake, HasReadyTasks
  <2>. QED
    BY <1>2, <1>3, <1>8, <2>1, <2>2, <2>3
<1>. QED
  BY <1>9, <1>10, <1>11

(* A worker looks into queues that exist. *)
LEMMA PlaceIs ==
  ASSUME PoolFacts, NEW w \in Worker, NEW k \in 1 .. LastLook
  PROVE  Place(w, k) \in Queue
<1>1. CASE k \in {1, 2}
  BY <1>1 DEF Place, Queue
<1>2. CASE k \notin {1, 2}
  <2>1. w + k - 2 \in Nat /\ WorkerCount \in Nat \ {0}
    BY <1>2 DEF PoolFacts, Worker, LastLook
  <2>2. (w + k - 2) % WorkerCount \in 0 .. WorkerCount - 1
    BY <2>1
  <2>. QED
    BY <1>2, <2>2 DEF Place, Queue, Worker
<1>. QED
  BY <1>1, <1>2

LEMMA LookFurtherKeeps ==
  ASSUME PoolInv, NEW w \in Worker, LookFurther(w)
  PROVE  PoolInv' /\ UNCHANGED <<LiveEntries, taken>>
<1>1. PoolFacts
  BY Numbers DEF PoolInv
<1>2. look \in [Worker -> 0 .. LastLook] /\ LastLook \in Nat
  BY <1>1 DEF PoolInv, TypeOK, PoolFacts
<1>3. /\ pc[w] = "scan" /\ gates' = gates
      /\ UNCHANGED <<gates, readyCount, permits, stopping, mutexVars, published, taken, held>>
      /\ look' = [look EXCEPT ![w] = IF look[w] = LastLook THEN 0 ELSE look[w] + 1]
      /\ Goto(w, IF look[w] = LastLook THEN "recheck" ELSE "scan")
  BY DEF LookFurther
<1>4. QueuesAreSound' /\ EntriesAreApart' /\ LiveEntries' = LiveEntries
  <2>1. CASE look[w] = GateLook /\ UNCHANGED queue
    BY <1>3, <2>1, PlacesSame DEF PoolInv
  <2>2. CASE /\ look[w] # GateLook
             /\ IsEmpty(queue[Place(w, look[w])])
             /\ queue' = [queue EXCEPT ![Place(w, look[w])] = EmptyQueue]
    <3>. DEFINE p == Place(w, look[w])
                E == {}
    <3>1. p \in Queue
      <4>1. look[w] \in 1 .. LastLook
        BY <1>2, <2>2 DEF GateLook
      <4>. QED
        BY <1>1, <4>1, PlaceIs
    <3>. HIDE DEF p
    <3>2. IsEmpty(queue[p]) /\ queue' = [queue EXCEPT ![p] = EmptyQueue] /\ Sound(queue[p])
      BY <2>2, <3>1 DEF p, PoolInv, QueuesAreSound
    <3>3. Sound(EmptyQueue) /\ Live(EmptyQueue) = Live(queue[p]) \cup E /\ E \cap LiveEntries = {}
      BY <3>2, EmptyIs, NothingLives
    <3>4. UNCHANGED gates
      BY <1>3
    <3>. HIDE DEF E
    <3>5. QueuesAreSound' /\ EntriesAreApart' /\ LiveEntries' = LiveEntries \cup E
      BY <3>1, <3>2, <3>3, <3>4, QueueGrows DEF PoolInv
    <3>. QED
      BY <3>5 DEF E
  <2>. QED
    BY <2>1, <2>2 DEF LookFurther
<1>5. look' \in [Worker -> 0 .. LastLook]
  <2>. DEFINE k == IF look[w] = LastLook THEN 0 ELSE look[w] + 1
  <2>1. k \in 0 .. LastLook
    BY <1>2
  <2>2. look' = [look EXCEPT ![w] = k]
    BY <1>3
  <2>. HIDE DEF k
  <2>. QED
    BY <1>2, <2>1, <2>2
<1>. DEFINE l == IF look[w] = LastLook THEN "recheck" ELSE "scan"
<1>6. /\ l \in PCs /\ l # "exited" /\ Awake(l) = 1 /\ Awake("scan") = 1 /\ Goto(w, l)
  BY <1>3 DEF PCs, Awake
<1>7. /\ permits' \in Nat /\ held' \in [Worker -> Entry \cup {None}] /\ permits' = permits
      /\ UNCHANGED <<readyCount, stopping, mutexVars, published, taken>>
  BY <1>3 DEF PoolInv, TypeOK
<1>. HIDE DEF l
<1>8. permits' + Awake(l) = permits + Awake(pc[w])
  BY <1>3, <1>6, <1>7
<1>. QED
  BY <1>3, <1>4, <1>5, <1>6, <1>7, <1>8, GoingOnKeeps

LEMMA PopGateKeeps ==
  ASSUME PoolInv, NEW w \in Worker, PopGate(w)
  PROVE  PoolInv' /\ \E e \in LiveEntries : /\ LiveEntries' = LiveEntries \ {e}
                                            /\ taken' = taken \cup {e}
<1>. DEFINE e == Head(gates)
<1>1. /\ QueuesAreSound' /\ EntriesAreApart' /\ gates' \in Seq(Entry)
      /\ e \in LiveEntries /\ LiveEntries' = LiveEntries \ {e}
  BY GatesShrink DEF PopGate, PoolInv, TypeOK
<1>2. pc[w] = "scan" /\ Pop(w, e) /\ taken' = taken \cup {e}
  BY DEF PopGate, Pop
<1>. HIDE DEF e
<1>. QED
  BY <1>1, <1>2, PopKeeps

LEMMA PopQueueKeeps ==
  ASSUME PoolInv, NEW w \in Worker, PopQueue(w)
  PROVE  PoolInv' /\ \E e \in LiveEntries : /\ LiveEntries' = LiveEntries \ {e}
                                            /\ taken' = taken \cup {e}
<1>. DEFINE p == Place(w, look[w])
            q == queue[p]
            x == IF p = w THEN WithoutNewest(q) ELSE WithoutOldest(q)
            e == IF p = w THEN Newest(q) ELSE Oldest(q)
<1>1. PoolFacts
  BY Numbers DEF PoolInv
<1>2. p \in Queue
  <2>1. look[w] \in 1 .. LastLook
    BY <1>1 DEF PopQueue, PoolInv, TypeOK, PoolFacts, GateLook
  <2>. QED
    BY <1>1, <2>1, PlaceIs
<1>3. Sound(q) /\ ~IsEmpty(q)
  BY <1>2 DEF PopQueue, PoolInv, QueuesAreSound
<1>4. /\ pc[w] = "scan" /\ queue' = [queue EXCEPT ![p] = x] /\ Pop(w, e) /\ UNCHANGED gates
      /\ gates' \in Seq(Entry)
  BY DEF PopQueue, PoolInv, TypeOK
<1>5. Sound(x) /\ e \in Live(q) /\ Live(x) = Live(q) \ {e}
  <2>. HIDE DEF p, q
  <2>. QED
    BY <1>3, NewestKeeps, OldestKeeps
<1>6. q = queue[p]
  OBVIOUS
<1>. HIDE DEF p, q, x, e
<1>7. QueuesAreSound' /\ EntriesAreApart' /\ LiveEntries' = LiveEntries \ {e}
  BY <1>2, <1>4, <1>5, <1>6, QueueShrinks DEF PoolInv
<1>8. e \in LiveEntries
  BY <1>2, <1>5, <1>6, LiveAre
<1>9. taken' = taken \cup {e}
  BY <1>4 DEF Pop
<1>. QED
  BY <1>4, <1>7, <1>8, <1>9, PopKeeps

LEMMA PoolStutters == PoolInv /\ UNCHANGED vars => PoolInv' /\ UNCHANGED <<LiveEntries, taken>>
<1>. SUFFICES ASSUME PoolInv, UNCHANGED vars
              PROVE  PoolInv' /\ UNCHANGED <<LiveEntries, taken>>
  OBVIOUS
<1>1. /\ UNCHANGED <<queue, gates>>
      /\ UNCHANGED <<readyCount, permits, stopping, publisher, release, reserved>>
      /\ UNCHANGED <<published, taken, held, look, pc>>
  BY DEF vars, mutexVars
<1>2. QueuesAreSound' /\ EntriesAreApart' /\ LiveEntries' = LiveEntries
  BY <1>1, PlacesSame DEF PoolInv
<1>3. TypeOK' /\ EntriesArePublished' /\ PublisherIsAlone'
  BY <1>1, <1>2 DEF PoolInv, TypeOK, EntriesArePublished, PublisherIsAlone
<1>4. NoLostWakeup' /\ ExitedMeansDrained'
  BY <1>1, <1>2 DEF PoolInv, NoLostWakeup, ExitedMeansDrained, Searching
<1>. QED
  BY <1>1, <1>2, <1>3, <1>4 DEF PoolInv

-----------------------------------------------------------------------------
(* Ready queues: the theorems. *)

LEMMA PoolInitially == Init => PoolInv /\ LiveEntries = {} /\ taken = {}
<1>. SUFFICES ASSUME Init
              PROVE  PoolInv /\ LiveEntries = {} /\ taken = {}
  OBVIOUS
<1>1. WorkerCount \in Nat \ {0} /\ MaxEntries \in Nat /\ LastLook \in Nat
  BY ReadySchedulerAssumption DEF LastLook
<1>2. \A q \in Queue : Sound(queue[q]) /\ Live(queue[q]) = {}
  BY EmptyIs DEF Init
<1>3. gates = <<>> /\ gates \in Seq(Entry) /\ DOMAIN gates = {} /\ Gates = {}
  <2>1. gates = <<>> /\ gates \in Seq(Entry) /\ Len(gates) = 0
    BY EmptySeq DEF Init
  <2>2. DOMAIN gates = {}
    BY <2>1
  <2>. QED
    BY <2>1, <2>2 DEF Gates
<1>4. LiveEntries = {}
  BY <1>2, <1>3, LiveAre
<1>5. QueuesAreSound
  <2>1. EmptyQueue \in [tasks : Seq(Entry \cup {Moved}), head : Nat]
    BY EmptyIs DEF Sound
  <2>. QED
    BY <1>2, <2>1 DEF QueuesAreSound, Init
<1>6. EntriesAreApart
  BY <1>2, <1>3 DEF EntriesAreApart
<1>7. TypeOK
  <2>1. \A q \in Queue : /\ queue[q].tasks \in Seq(Entry \cup {Moved})
                         /\ queue[q].head \in 0 .. Len(queue[q].tasks)
    <3>. TAKE q \in Queue
    <3>1. Sound(queue[q]) /\ queue[q].head <= Len(queue[q].tasks)
      BY <1>2 DEF Sound
    <3>. QED
      BY <3>1, SoundIs
  <2>2. /\ readyCount \in 0 .. MaxEntries /\ permits \in Nat /\ release \in Nat
        /\ published \in 0 .. MaxEntries
    BY <1>1 DEF Init
  <2>3. /\ stopping \in BOOLEAN /\ publisher \in Thread \cup {None} /\ reserved \in BOOLEAN
        /\ taken \subseteq Entry
    BY DEF Init
  <2>4. held \in [Worker -> Entry \cup {None}]
    BY DEF Init
  <2>5. look \in [Worker -> 0 .. LastLook]
    BY <1>1 DEF Init
  <2>6. pc \in [Worker -> {"top", "acquire", "scan", "recheck", "claim", "run",
                           "completed", "check", "exited"}]
    BY DEF Init
  <2>. QED
    BY <1>3, <2>1, <2>2, <2>3, <2>4, <2>5, <2>6 DEF TypeOK
<1>8. EntriesArePublished /\ PublisherIsAlone
  BY <1>4 DEF Init, EntriesArePublished, PublisherIsAlone
<1>9. NoLostWakeup
  <2>1. Cardinality(LiveEntries) = 0
    BY <1>4, FS_EmptySet
  <2>2. readyCount = 0 /\ permits = 0 /\ release = 0
    BY DEF Init
  <2>3. Cardinality(Seekers) \in Nat
    BY SeekersAre
  <2>. HIDE DEF Seekers
  <2>4. readyCount <= permits + release + Cardinality(Seekers)
    BY <2>2, <2>3
  <2>. QED
    BY <2>1, <2>2, <2>4 DEF NoLostWakeup, Seekers
<1>10. ExitedMeansDrained
  BY DEF Init, ExitedMeansDrained
<1>. QED
  BY <1>4, <1>5, <1>6, <1>7, <1>8, <1>9, <1>10 DEF PoolInv, Init

(* What a step is to the pool of ReadyPool. *)
Moves ==
  \/ \E n \in Nat : /\ LiveEntries' = LiveEntries \cup (published + 1 .. published + n)
                    /\ published + n <= MaxEntries
                    /\ UNCHANGED taken
  \/ \E e \in LiveEntries : LiveEntries' = LiveEntries \ {e} /\ taken' = taken \cup {e}
  \/ UNCHANGED <<LiveEntries, taken>>

LEMMA PoolStep == PoolInv /\ [Next]_vars => PoolInv' /\ Moves
<1>. SUFFICES ASSUME PoolInv, [Next]_vars
              PROVE  PoolInv' /\ Moves
  OBVIOUS
<1>1. ASSUME NEW th \in Thread, Publish(th)
      PROVE  PoolInv' /\ Moves
  <2>1. PoolInv' /\ LiveEntries' = LiveEntries \cup (published + 1 .. published + 1)
                 /\ UNCHANGED taken
    BY <1>1, PublishKeeps
  <2>2. published + 1 <= MaxEntries
    BY <1>1, Numbers DEF PoolInv, PoolFacts, Publish, PublishReadyTask, PublishGroupReadyTask
  <2>3. 1 \in Nat
    OBVIOUS
  <2>. QED
    BY <2>1, <2>2, <2>3 DEF Moves
<1>2. ASSUME NEW w \in Worker, NEW n \in 0 .. MaxEntries, PublishDependents(w, n)
      PROVE  PoolInv' /\ Moves
  <2>1. PoolInv' /\ LiveEntries' = LiveEntries \cup (published + 1 .. published + n)
                 /\ UNCHANGED taken
    BY <1>2, PublishDependentsKeeps
  <2>2. published + n <= MaxEntries /\ n \in Nat
    BY <1>2 DEF PublishDependents
  <2>. QED
    BY <2>1, <2>2 DEF Moves
<1>3. ASSUME \/ \E th \in Thread : ReleaseWakeups(th)
             \/ StopWorkers
      PROVE  PoolInv' /\ Moves
  BY <1>3, ReleaseKeepsPool DEF Moves
<1>4. ASSUME NEW w \in Worker, ReserveRoom(w)
      PROVE  PoolInv' /\ Moves
  BY <1>4, ReserveRoomKeeps DEF Moves
<1>5. ASSUME NEW w \in Worker, Loop(w)
      PROVE  PoolInv' /\ Moves
  <2>1. CASE Top(w) \/ Acquire(w) \/ Recheck(w) \/ TryClaim(w) \/ Check(w) \/ EndTask(w)
    BY <2>1, BetweenLooksKeeps DEF Moves
  <2>2. CASE LookFurther(w)
    BY <2>2, LookFurtherKeeps DEF Moves
  <2>3. CASE PopGate(w)
    BY <2>3, PopGateKeeps DEF Moves
  <2>4. CASE PopQueue(w)
    BY <2>4, PopQueueKeeps DEF Moves
  <2>. QED
    BY <1>5, <2>1, <2>2, <2>3, <2>4 DEF Loop
<1>6. CASE UNCHANGED vars
  BY <1>6, PoolStutters DEF Moves
<1>. QED
  BY <1>1, <1>2, <1>3, <1>4, <1>5, <1>6 DEF Next, Finish

LEMMA PoolAlways == Spec => []PoolInv
<1>1. Init => PoolInv
  BY PoolInitially
<1>2. PoolInv /\ [Next]_vars => PoolInv'
  BY PoolStep
<1>. QED
  BY <1>1, <1>2, PTL DEF Spec

(* Every queue stays a vector of entries with a head within it, every counter
   within its bounds, and every worker at a step of WorkerLoop. *)
THEOREM PoolTyped == Spec => []TypeOK
<1>1. PoolInv => TypeOK
  BY DEF PoolInv
<1>. QED
  BY <1>1, PoolAlways, PTL

(* However many workers and publishers race, ReadyTaskCount is the number of
   entries in the queues, there is a permit, a permit due or a searching worker for
   each of them, and no worker has left with work ready. *)
THEOREM PoolSafe == Spec => []PoolIsSafe
<1>1. PoolInv => PoolIsSafe
  BY DEF PoolInv, PoolIsSafe
<1>. QED
  BY <1>1, PoolAlways, PTL

(* The vectors with consumed prefixes, their compaction, the owner's end and the
   thieves' end, and the gate list together are the pool of ReadyPool: what is
   published is new, and every entry leaves once, to one worker. *)
THEOREM PoolRefines == Spec => ImplementsReadyPool
<1>1. Init => Pool!Init
  BY PoolInitially DEF Pool!Init
<1>2. PoolInv /\ [Next]_vars => [Pool!Next]_(Pool!vars)
  <2>. SUFFICES ASSUME PoolInv, [Next]_vars
                PROVE  Pool!Next \/ UNCHANGED Pool!vars
    OBVIOUS
  <2>1. Moves
    BY PoolStep
  <2>2. ASSUME NEW n \in Nat,
               LiveEntries' = LiveEntries \cup (published + 1 .. published + n),
               published + n <= MaxEntries, UNCHANGED taken
        PROVE  Pool!Next
    <3>. DEFINE E == published + 1 .. published + n
    <3>1. MaxEntries \in Nat /\ published \in Nat
      BY Numbers DEF PoolInv, PoolFacts
    <3>2. E \in SUBSET Entry
      BY <2>2, <3>1 DEF Entry
    <3>3. \A e \in E : e \notin 1 .. published
      BY <3>1
    <3>4. E \cap (LiveEntries \cup taken) = {}
      <4>. HIDE DEF E
      <4>. QED
        BY <3>3 DEF PoolInv, EntriesArePublished
    <3>5. LiveEntries' = LiveEntries \cup E
      BY <2>2
    <3>. HIDE DEF E
    <3>6. Pool!Publish(E)
      BY <2>2, <3>4, <3>5 DEF Pool!Publish
    <3>. QED
      BY <3>2, <3>6 DEF Pool!Next
  <2>3. ASSUME NEW e \in LiveEntries, LiveEntries' = LiveEntries \ {e}, taken' = taken \cup {e}
        PROVE  Pool!Next
    <3>1. e \in 1 .. published /\ published \in 0 .. MaxEntries /\ MaxEntries \in Nat
      BY Numbers DEF PoolInv, PoolFacts, EntriesArePublished
    <3>2. e \in Entry
      BY <3>1 DEF Entry
    <3>3. Pool!Take(e)
      BY <2>3 DEF Pool!Take
    <3>. QED
      BY <3>2, <3>3 DEF Pool!Next
  <2>4. CASE UNCHANGED <<LiveEntries, taken>>
    BY <2>4 DEF Pool!vars
  <2>. QED
    BY <2>1, <2>2, <2>3, <2>4 DEF Moves
<1>. QED
  BY <1>1, <1>2, PoolAlways, PTL DEF Spec, ImplementsReadyPool, Pool!Spec

=============================================================================
