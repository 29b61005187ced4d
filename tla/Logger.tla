-------------------------------- MODULE Logger --------------------------------
(***************************************************************************)
(* Logger with an AsyncLogWriter and a FileChannel.  Threads put messages  *)
(* into _pending and post a semaphore, a thread of the writer puts them    *)
(* into the files, and exit() destroys the writer, on whichever thread     *)
(* calls it.  A signal interrupts the main thread wherever it is, and its  *)
(* handler logs and exits there.  A process may be killed, and started     *)
(* again.                                                                  *)
(*                                                                         *)
(* What other threads log while the process exits is left out.             *)
(***************************************************************************)
EXTENDS LogFiles

CONSTANTS
  Main, Handler,   \* the main thread, and the handler that interrupts it
  Others,          \* other threads that log
  None,
  MaxMsgs,         \* bound: messages
  MaxLives         \* bound: processes

Threads == {Main} \cup Others
Actors == Threads \cup {Handler}

ASSUME LoggerAssumption == /\ Main \notin Others /\ Handler \notin Threads
                           /\ None \notin Actors /\ MaxMsgs \in Nat

VARIABLES
  at,         \* the place of each actor in Logger::write
  ctx,        \* the message each actor has made
  pending,    \* _pending
  sem,        \* the count of _sem
  exitFlag,   \* _exit_flag
  async,      \* the place of the writer's thread
  batch,      \* tmp of flushAll
  exiter,     \* the actor that called exit
  signalled,  \* a signal came
  life,       \* which process this is
  made,       \* messages made
  accepted,   \* history: what this process put into _pending
  written,    \* history: what all processes wrote to files
  mixed       \* history: a message was put behind one of a later day

process == <<at, ctx, pending, sem, exitFlag, async, batch, exiter, signalled>>
history == <<life, made, accepted, written, mixed>>
vars == <<today, files, process, history>>

Init ==
  /\ InitFiles
  /\ at = [a \in Actors |-> "run"] /\ ctx = [a \in Actors |-> NoMsg]
  /\ pending = <<>> /\ sem = 0 /\ exitFlag = FALSE
  /\ async = "check" /\ batch = <<>> /\ exiter = None /\ signalled = FALSE
  /\ life = 1 /\ made = 0 /\ accepted = <<>> /\ written = <<NoMsg>> /\ mixed = FALSE

\* The process ends, and its memory with it.
Dies ==
  /\ async' = "gone"
  /\ at' = [a \in Actors |-> "run"] /\ ctx' = [a \in Actors |-> NoMsg]
  /\ sem' = 0 /\ exitFlag' = FALSE /\ exiter' = None /\ signalled' = FALSE

\* async is "done" when the thread was joined, "gone" when the process ended.
Running == async # "gone"
\* The handler runs on the main thread, which does not go on.
Moves(a) == Running /\ (IF a = Main THEN ~signalled ELSE a = Handler => signalled)

Holds(a, place) == at[a] = place
MutexFree == \A a \in Actors : ~Holds(a, "locked")
\* The mutex of the semaphore is recursive, and the handler is the main thread.
SemFree(a) == \A b \in Actors \ {a} :
                Holds(b, "posting") => a = Handler /\ b = Main

Step(a, place) == at' = [at EXCEPT ![a] = place]
-----------------------------------------------------------------------------
(* Logger::write and AsyncLogWriter::write *)

\* LogContext takes the time when it is made.
Make(a) ==
  /\ Moves(a) /\ at[a] = "run" /\ exiter = None /\ made < MaxMsgs
  /\ made' = made + 1
  /\ ctx' = [ctx EXCEPT ![a] = [n |-> made + 1, day |-> today]]
  /\ Step(a, "made")
  /\ UNCHANGED <<today, files, pending, sem, exitFlag, async, batch, exiter,
                 signalled, life, accepted, written, mixed>>

Lock(a) ==
  /\ Moves(a) /\ at[a] = "made" /\ exiter = None /\ MutexFree
  /\ pending' = Append(pending, ctx[a])
  /\ accepted' = Append(accepted, ctx[a])
  /\ mixed' = (mixed \/ \E i \in DOMAIN accepted : accepted[i].day > ctx[a].day)
  /\ ctx' = [ctx EXCEPT ![a] = NoMsg]
  /\ Step(a, "locked")
  /\ UNCHANGED <<today, files, sem, exitFlag, async, batch, exiter,
                 signalled, life, made, written>>

Unlock(a) ==
  /\ Moves(a) /\ at[a] = "locked"
  /\ Step(a, "post")
  /\ UNCHANGED <<today, files, ctx, pending, sem, exitFlag, async, batch, exiter,
                 signalled, history>>

PostLock(a) ==
  /\ Moves(a) /\ at[a] = "post" /\ SemFree(a)
  /\ Step(a, "posting")
  /\ UNCHANGED <<today, files, ctx, pending, sem, exitFlag, async, batch, exiter,
                 signalled, history>>

Post(a) ==
  /\ Moves(a) /\ at[a] = "posting"
  /\ sem' = sem + 1
  /\ Step(a, IF exiter = a THEN "join" ELSE "run")
  /\ UNCHANGED <<today, files, ctx, pending, exitFlag, async, batch, exiter,
                 signalled, history>>
-----------------------------------------------------------------------------
(* AsyncLogWriter::run and flushAll *)

Check ==
  /\ async = "check"
  /\ async' = IF exitFlag THEN "done" ELSE "wait"
  /\ UNCHANGED <<today, files, at, ctx, pending, sem, exitFlag, batch, exiter,
                 signalled, history>>

Wait ==
  /\ async = "wait" /\ sem > 0 /\ \A a \in Actors : ~Holds(a, "posting")
  /\ sem' = sem - 1
  /\ async' = "swap"
  /\ UNCHANGED <<today, files, at, ctx, pending, exitFlag, batch, exiter,
                 signalled, history>>

Swap ==
  /\ async = "swap" /\ MutexFree
  /\ batch' = pending /\ pending' = <<>>
  /\ async' = "flush"
  /\ UNCHANGED <<today, files, at, ctx, sem, exitFlag, exiter, signalled, history>>

\* writeChannels of the next message: by the writer's thread, and at the end by
\* the thread that destroys the writer.
WriteChannels ==
  /\ async \in {"flush", "last"} /\ batch # <<>>
  /\ Write(Head(batch))
  /\ written' = Append(written, Head(batch))
  /\ batch' = Tail(batch)
  /\ UNCHANGED <<today, at, ctx, pending, sem, exitFlag, async, exiter, signalled,
                 life, made, accepted, mixed>>

Flushed ==
  /\ async = "flush" /\ batch = <<>>
  /\ async' = "check"
  /\ UNCHANGED <<today, files, at, ctx, pending, sem, exitFlag, batch, exiter,
                 signalled, history>>

-----------------------------------------------------------------------------
(* The end of the process *)

\* Mutant of Exit: without the post.
Exit_NoPost(a) ==
  /\ Moves(a) /\ at[a] = "run" /\ exiter = None
  /\ exiter' = a /\ exitFlag' = TRUE
  /\ Step(a, "join")
  /\ UNCHANGED <<today, files, ctx, pending, sem, async, batch, signalled, history>>

\* exit() by an actor, and with it ~AsyncLogWriter: the flag, then the post.
Exit(a) ==
  /\ Moves(a) /\ at[a] = "run" /\ exiter = None
  /\ exiter' = a /\ exitFlag' = TRUE
  /\ Step(a, "post")
  /\ UNCHANGED <<today, files, ctx, pending, sem, async, batch, signalled, history>>

\* Mutant of Join: the last flushAll is left out.
Join_NoFlush ==
  /\ async = "done" /\ exiter # None /\ Moves(exiter) /\ at[exiter] = "join"
  /\ MutexFree
  /\ pending' = <<>> /\ batch' = <<>>
  /\ async' = "last"
  /\ UNCHANGED <<today, files, at, ctx, sem, exitFlag, exiter, signalled, history>>

\* The writer's thread has ended; flushAll once more.
Join ==
  /\ async = "done" /\ exiter # None /\ Moves(exiter) /\ at[exiter] = "join"
  /\ MutexFree
  /\ batch' = pending /\ pending' = <<>>
  /\ async' = "last"
  /\ UNCHANGED <<today, files, at, ctx, sem, exitFlag, exiter, signalled, history>>

Exited ==
  /\ async = "last" /\ batch = <<>>
  /\ Dies
  /\ UNCHANGED <<today, files, pending, batch, history>>

Signal ==
  /\ Running /\ ~signalled /\ exiter # Main
  /\ signalled' = TRUE
  /\ UNCHANGED <<today, files, at, ctx, pending, sem, exitFlag, async, batch,
                 exiter, history>>

Killed ==
  /\ Running /\ life < MaxLives
  /\ Dies
  /\ pending' = <<>> /\ batch' = <<>> /\ accepted' = <<>>
  /\ UNCHANGED <<today, files, life, made, written, mixed>>

Restart ==
  /\ ~Running /\ life < MaxLives
  /\ life' = life + 1 /\ accepted' = <<>>
  /\ async' = "check"
  /\ Open
  /\ UNCHANGED <<today, at, ctx, pending, sem, exitFlag, batch, exiter, signalled,
                 made, written, mixed>>

\* No message waits for a day.
Midnight ==
  /\ today < LastDay
  /\ \A a \in Actors : at[a] = "made" => ctx[a].day = today
  /\ \A i \in DOMAIN pending : pending[i].day = today
  /\ \A i \in DOMAIN batch : batch[i].day = today
  /\ today' = today + 1
  /\ UNCHANGED <<files, process, history>>

\* The handler came while the main thread held a mutex of the writer, and waits.
Interrupted == signalled /\ at[Main] \in {"locked", "posting"}

Act(a) == Make(a) \/ Lock(a) \/ Unlock(a) \/ PostLock(a) \/ Post(a) \/ Exit(a)
Writer == Check \/ Wait \/ Swap \/ WriteChannels \/ Flushed \/ Join \/ Exited
Next == \/ \E a \in Actors : Act(a)
        \/ Writer \/ Signal \/ Killed \/ Restart \/ Midnight

\* A thread inside a call goes on, the handler gets to its exit.
Goes(a) == Lock(a) \/ Unlock(a) \/ PostLock(a) \/ Post(a) \/ (a = Handler /\ Exit(a))
Fairness == WF_vars(Writer) /\ \A a \in Actors : WF_vars(Goes(a))

Spec == Init /\ [][Next]_vars
FairSpec == Spec /\ Fairness
-----------------------------------------------------------------------------
(* Properties *)

Msgs == [n : 0..MaxMsgs, day : 0..LastDay]

TypeOK ==
  /\ today \in 1..LastDay
  /\ \A f \in DOMAIN disk : f \in (0..LastDay) \X Nat /\ disk[f] \in Seq(Msgs)
  /\ path = NoPath \/ path \in DOMAIN disk
  /\ day \in -1..LastDay /\ index \in Nat
  /\ at \in [Actors -> {"run", "made", "locked", "post", "posting", "join"}]
  /\ ctx \in [Actors -> Msgs]
  /\ pending \in Seq(Msgs) /\ batch \in Seq(Msgs)
  /\ sem \in Nat /\ exitFlag \in BOOLEAN /\ signalled \in BOOLEAN
  /\ async \in {"check", "wait", "swap", "flush", "done", "last", "gone"}
  /\ exiter \in Actors \cup {None}

\* Whatever thread exits, and wherever the writer's thread was then: a message
\* write() returned for is written, once and in the order of the calls, before
\* the process is gone.
NothingLost ==
  /\ TypeOK
  /\ IsSuffix(batch \o pending, accepted)
  /\ LET done == Len(accepted) - Len(batch \o pending)
     IN IsSuffix(SubSeq(accepted, 1, done), written)
  /\ async = "gone" => batch \o pending = <<>>

\* The files, read by name, hold the messages in the order they were written
\* and without a gap, across the days, the slices and the processes, and end
\* with the latest; what is missing are the oldest.  (Two threads that log at
\* midnight may swap a message of each day.)
NoGaps ==
  ~mixed => /\ IsSuffix(OnDisk, written)
            /\ Len(written) > 0 => Len(OnDisk) > 0
            /\ Cardinality(DOMAIN disk) <= MaxCount

\* A process that exits, or is told to by a signal, ends: the writer's thread
\* does not miss the post of the destructor.  Only a signal that interrupts the
\* main thread inside the writer may hang.
ExitEnds == (exiter # None \/ signalled) ~> (~Running \/ Interrupted)
===============================================================================
