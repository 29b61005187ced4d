----------------------------- MODULE LoggerProofs -----------------------------
(***************************************************************************)
(* What the logger guarantees for any number of threads, messages, slices  *)
(* and lives of the process: a message write() returned for is written     *)
(* once, in the order of the calls, before the process that exits is gone; *)
(* and the slices, read by name, are the end of what was written.          *)
(***************************************************************************)
EXTENDS Logger, SequenceTheorems, FiniteSetTheorems, WellFoundedInduction, TLAPS

(* Facts about numbers and sequences. *)

Below == OpToRel(<, Nat)

LEMMA BelowFounded == IsWellFoundedOn(Below, Nat)
BY NatLessThanWellFounded DEF Below

LEMMA BelowHolds == ASSUME NEW x \in Nat, NEW y \in Nat, y < x
                    PROVE  <<y, x>> \in Below
<1>1. <<y, x>> \in Nat \X Nat OBVIOUS
<1>2. <<y, x>>[1] = y /\ <<y, x>>[2] = x OBVIOUS
<1>3. <<y, x>>[1] < <<y, x>>[2] BY <1>2, Zenon
<1> QED BY <1>1, <1>3, Zenon DEF Below, OpToRel

LEMMA LeastNatural ==
  ASSUME NEW S \in SUBSET Nat, S # {}
  PROVE  \E x \in S : \A y \in S : x <= y
<1>1. PICK x \in S : \A y \in S : ~(<<y, x>> \in Below)
  BY WFMin, BelowFounded, Zenon
<1>2. \A y \in S : ~(y < x) BY <1>1, BelowHolds
<1> QED BY <1>2

LEMMA BoundedMax ==
  ASSUME NEW S \in SUBSET Nat, S # {}, NEW b \in Nat, \A y \in S : y <= b
  PROVE  Max(S) \in S
<1> DEFINE T == {b - y : y \in S}
<1>1. T \in SUBSET Nat /\ T # {}
  <2>1. \A y \in S : y \in Nat /\ b - y \in Nat OBVIOUS
  <2> QED BY <2>1
<1>2. PICK x \in T : \A y \in T : x <= y
  <2> HIDE DEF T
  <2> QED BY <1>1, LeastNatural
<1>3. PICK m \in S : x = b - m OBVIOUS
<1>4. \A y \in S : m >= y
  <2> TAKE y \in S
  <2>1. b - m <= b - y BY <1>2, <1>3
  <2> QED BY <2>1
<1>5. \E n \in S : \A y \in S : n >= y BY <1>4
<1> QED BY <1>5 DEF Max

LEMMA SuffixOfConcat ==
  ASSUME NEW S, NEW s \in Seq(S), NEW t \in Seq(S)
  PROVE  IsSuffix(t, s \o t)
<1> DEFINE u == s \o t
<1>1. /\ u \in Seq(S) /\ Len(u) = Len(s) + Len(t)
      /\ \A i \in 1..Len(t) : u[Len(s) + i] = t[i]
  BY ConcatProperties
<1> HIDE DEF u
<1>2. /\ Len(s) \in Nat /\ Len(t) \in Nat
      /\ Reverse(t) = [i \in 1..Len(t) |-> t[Len(t) - i + 1]]
      /\ Reverse(u) = [i \in 1..Len(u) |-> u[Len(u) - i + 1]]
  BY DEF Reverse
<1>3. /\ Reverse(t) \in Seq(S) /\ Len(Reverse(t)) = Len(t)
      /\ Reverse(u) \in Seq(S) /\ Len(Reverse(u)) = Len(u)
  <2>1. \A i \in 1..Len(t) : t[Len(t) - i + 1] \in S BY <1>2, ElementOfSeq
  <2>2. \A i \in 1..Len(u) : u[Len(u) - i + 1] \in S BY <1>1, <1>2, ElementOfSeq
  <2> QED BY <1>1, <1>2, <2>1, <2>2
<1>4. \A i \in 1..Len(t) : Reverse(u)[i] = Reverse(t)[i]
  <2> TAKE i \in 1..Len(t)
  <2>1. Len(t) - i + 1 \in 1..Len(t) /\ i \in 1..Len(u)
        /\ Len(u) - i + 1 = Len(s) + (Len(t) - i + 1)
    BY <1>1, <1>2
  <2> QED BY <1>1, <1>2, <2>1
<1>5. SubSeq(Reverse(t), 1, Len(t)) = Reverse(t) BY <1>3, SubSeqFull
<1>6. /\ SubSeq(Reverse(u), 1, Len(t)) \in Seq(S)
      /\ Len(SubSeq(Reverse(u), 1, Len(t))) = Len(t)
      /\ \A i \in 1..Len(t) : SubSeq(Reverse(u), 1, Len(t))[i] = Reverse(u)[i]
  <2>1. \A i \in 1..Len(t) : Reverse(u)[i] \in S BY <1>1, <1>2, <1>3, ElementOfSeq
  <2> QED BY <1>2, <2>1, SubSeqProperties
<1>7. SubSeq(Reverse(u), 1, Len(t)) = Reverse(t)
  BY <1>3, <1>4, <1>6, SeqEqual
<1> QED BY <1>1, <1>2, <1>3, <1>5, <1>7 DEF IsSuffix, IsPrefix, u

LEMMA PrefixOfConcat ==
  ASSUME NEW S, NEW s \in Seq(S), NEW t \in Seq(S)
  PROVE  SubSeq(s \o t, 1, Len(s \o t) - Len(t)) = s
<1>1. Len(s \o t) = Len(s) + Len(t) /\ Len(s) \in Nat /\ Len(t) \in Nat
  BY ConcatProperties
<1>2. Len(s \o t) - Len(t) = Len(s) BY <1>1
<1>3. CASE Len(s) = 0
  <2>1. s = <<>> BY <1>3
  <2>2. SubSeq(s \o t, 1, 0) = <<>> BY SubSeqEmpty
  <2> QED BY <1>2, <1>3, <2>1, <2>2
<1>4. CASE Len(s) # 0
  <2>1. 1 \in 1..Len(s) /\ Len(s) \in 1..Len(s) BY <1>1, <1>4
  <2>2. SubSeq(s \o t, 1, Len(s)) = SubSeq(s, 1, Len(s))
    BY <2>1, SubSeqOfConcat1
  <2> QED BY <1>2, <2>2, SubSeqFull
<1> QED BY <1>3, <1>4

-----------------------------------------------------------------------------
(* The inductive invariant. *)

\* What was accepted is, in this order, what was written, what is being
\* flushed and what is pending.
Ledger == \E earlier, done \in Seq(Msgs) :
            /\ written = earlier \o done
            /\ accepted = done \o (batch \o pending)

\* Where the thread of the writer is tells which of the lists are empty.
Places == /\ async \in {"check", "wait", "swap", "done", "gone"} => batch = <<>>
          /\ async \in {"last", "gone"} => pending = <<>>
          /\ async = "last" => exiter # None

\* No message under way is older than yesterday, so its slice is not deleted.
Recent == /\ \A a \in Actors : at[a] = "made" => ctx[a].day >= today - 1
          /\ \A i \in DOMAIN pending : pending[i].day >= today - 1
          /\ \A i \in DOMAIN batch : batch[i].day >= today - 1

FilesOK == /\ today \in 1..LastDay
           /\ \A f \in DOMAIN disk : f \in (0..LastDay) \X Nat /\ disk[f] \in Seq(Msgs)
           /\ path = NoPath \/ path \in DOMAIN disk
           /\ day \in -1..LastDay /\ index \in Nat

\* The slices of the directory have a largest index.
Bounded == \E b \in Nat : \A f \in DOMAIN disk : f[2] <= b

IInv == TypeOK /\ made \in Nat /\ Ledger /\ Places /\ Recent /\ Bounded

LEMMA InvImpliesNothingLost == IInv => NothingLost
<1> SUFFICES ASSUME IInv PROVE NothingLost OBVIOUS
<1>1. PICK earlier, done \in Seq(Msgs) :
        /\ written = earlier \o done
        /\ accepted = done \o (batch \o pending)
  BY DEF IInv, Ledger
<1>2. batch \o pending \in Seq(Msgs)
  BY ConcatProperties DEF IInv, TypeOK
<1>3. IsSuffix(batch \o pending, accepted) BY <1>1, <1>2, SuffixOfConcat
<1>4. SubSeq(accepted, 1, Len(accepted) - Len(batch \o pending)) = done
  BY <1>1, <1>2, PrefixOfConcat
<1>5. IsSuffix(done, written) BY <1>1, SuffixOfConcat
<1>6. async = "gone" => batch \o pending = <<>>
  BY DEF IInv, Places
<1> QED BY <1>3, <1>4, <1>5, <1>6 DEF IInv, NothingLost

-----------------------------------------------------------------------------
(* The files. *)

LEMMA ChangeKeepsFiles ==
  ASSUME FilesOK, Bounded, NEW m \in Msgs, m.day >= today - 1,
         NEW i \in Nat, ChangeFile(m.day, i, m), day' \in -1..LastDay,
         UNCHANGED today
  PROVE  FilesOK' /\ Bounded'
<1> DEFINE f == <<m.day, i>>
           fs == Kept(DOMAIN disk \cup {f}, f)
           was == IF f \in DOMAIN disk THEN disk[f] ELSE <<>>
<1>1. /\ disk' = [g \in fs |-> IF g = f THEN Append(was, m) ELSE disk[g]]
      /\ path' = f /\ index' = i + 1
  BY DEF ChangeFile
<1>2. m.day \in 0..LastDay /\ today \in 1..LastDay BY DEF Msgs, FilesOK
<1>3. f \in (0..LastDay) \X Nat /\ f[1] = m.day /\ f[2] = i BY <1>2
<1>4. was \in Seq(Msgs) BY DEF FilesOK
<1>5. fs \subseteq DOMAIN disk \cup {f} BY DEF Kept
<1>6. f \in fs
  <2>1. today < m.day + MaxDay BY <1>2, LogFilesAssumption
  <2>2. ~Before(f, f) BY <1>2, <1>3 DEF Before
  <2> HIDE DEF f
  <2> QED BY <1>3, <2>1, <2>2 DEF Kept
<1> HIDE DEF f, fs, was
<1>7. DOMAIN disk' = fs BY <1>1
<1>8. \A g \in fs : g \in (0..LastDay) \X Nat /\ disk'[g] \in Seq(Msgs)
  <2> TAKE g \in fs
  <2>1. CASE g = f
    <3>1. Append(was, m) \in Seq(Msgs) BY <1>4, AppendProperties
    <3> QED BY <1>1, <1>3, <2>1, <3>1
  <2>2. CASE g # f BY <1>1, <1>5, <2>2 DEF FilesOK
  <2> QED BY <2>1, <2>2
<1>9. FilesOK' BY <1>1, <1>2, <1>6, <1>7, <1>8 DEF FilesOK
<1>10. PICK b \in Nat : \A g \in DOMAIN disk : g[2] <= b BY DEF Bounded
<1>11. \A g \in DOMAIN disk : g[2] \in Nat BY DEF FilesOK
<1>12. \A g \in fs : g[2] <= b + i
  BY <1>3, <1>5, <1>10, <1>11
<1> QED BY <1>7, <1>9, <1>12 DEF Bounded

LEMMA WriteKeepsFiles ==
  ASSUME FilesOK, Bounded, NEW m \in Msgs, m.day >= today - 1, Write(m),
         UNCHANGED today
  PROVE  FilesOK' /\ Bounded'
<1>1. day \in -1..LastDay /\ index \in Nat /\ m.day \in 0..LastDay
  BY DEF FilesOK, Msgs
<1>2. CASE /\ ChangeFile(m.day, IF day = -1 THEN index ELSE 0, m)
           /\ day' = m.day
  <2>1. (IF day = -1 THEN index ELSE 0) \in Nat /\ day' \in -1..LastDay
    BY <1>1, <1>2
  <2> QED BY <1>2, <2>1, ChangeKeepsFiles
<1>3. CASE ChangeFile(m.day, index, m) /\ UNCHANGED day
  BY <1>1, <1>3, ChangeKeepsFiles
<1>4. CASE /\ disk' = [disk EXCEPT ![path] = Append(@, m)]
           /\ UNCHANGED <<path, day, index>>
  <2>1. DOMAIN disk' = DOMAIN disk BY <1>4
  <2>2. \A f \in DOMAIN disk : disk'[f] \in Seq(Msgs)
    <3> TAKE f \in DOMAIN disk
    <3>1. disk[f] \in Seq(Msgs) BY DEF FilesOK
    <3>2. Append(disk[f], m) \in Seq(Msgs) BY <3>1, AppendProperties
    <3> QED BY <1>4, <3>1, <3>2
  <2> QED BY <1>4, <2>1, <2>2 DEF FilesOK, Bounded
<1> QED BY <1>2, <1>3, <1>4 DEF Write

LEMMA ScannedIsIndex ==
  ASSUME FilesOK, Bounded PROVE Scanned(disk) \in Nat
<1> DEFINE now == {f[2] : f \in {g \in DOMAIN disk : g[1] = today}}
<1>1. now \in SUBSET Nat BY DEF FilesOK
<1>2. PICK b \in Nat : \A f \in DOMAIN disk : f[2] <= b BY DEF Bounded
<1>3. \A n \in now : n <= b BY <1>2
<1>4. Scanned(disk) = IF now = {} THEN 0 ELSE Max(now) BY DEF Scanned
<1> HIDE DEF now
<1>5. now # {} => Max(now) \in now BY <1>1, <1>2, <1>3, BoundedMax
<1>6. CASE now = {} BY <1>4, <1>6
<1>7. CASE now # {}
  <2>1. Max(now) \in Nat BY <1>1, <1>5, <1>7
  <2> QED BY <1>4, <1>7, <2>1
<1> QED BY <1>6, <1>7

-----------------------------------------------------------------------------
(* The steps. *)

Sites == {"run", "made", "locked", "post", "posting", "join"}
Stages == {"check", "wait", "swap", "flush", "done", "last", "gone"}

\* A step that touches no message.
LEMMA Quiet ==
  ASSUME IInv, UNCHANGED <<today, files, ctx, pending, batch, history>>,
         at' \in [Actors -> Sites],
         \A a \in Actors : at'[a] = "made" => at[a] = "made",
         sem' \in Nat, exitFlag' \in BOOLEAN, signalled' \in BOOLEAN,
         async' \in Stages, exiter' \in Actors \cup {None}, Places'
  PROVE  IInv'
<1>1. TypeOK' BY DEF IInv, TypeOK, files, Sites, Stages
<1>2. made' \in Nat /\ Ledger' BY DEF IInv, Ledger, history
<1>3. Recent' BY DEF IInv, Recent
<1>4. Bounded' BY DEF IInv, Bounded, files
<1> QED BY <1>1, <1>2, <1>3, <1>4 DEF IInv

LEMMA Stepped ==
  ASSUME IInv, NEW a \in Actors, NEW x \in Sites, Step(a, x)
  PROVE  /\ at' \in [Actors -> Sites]
         /\ x # "made" => \A b \in Actors : at'[b] = "made" => at[b] = "made"
BY DEF IInv, TypeOK, Step, Sites

LEMMA MakeStep ==
  ASSUME IInv, NEW a \in Actors, Make(a)
  PROVE  IInv'
<1> DEFINE m == [n |-> made + 1, day |-> today]
<1>1. /\ made < MaxMsgs /\ made' = made + 1
      /\ ctx' = [ctx EXCEPT ![a] = m]
      /\ at' = [at EXCEPT ![a] = "made"]
      /\ UNCHANGED <<today, files, pending, sem, exitFlag, async, batch, exiter,
                     signalled, life, accepted, written, mixed>>
  BY DEF Make, Step
<1>2. m \in Msgs /\ m.day = today /\ made + 1 \in Nat
  BY <1>1, LoggerAssumption DEF IInv, TypeOK, Msgs
<1> HIDE DEF m
<1>3. ctx' \in [Actors -> Msgs] /\ at' \in [Actors -> Sites]
      /\ ctx'[a] = m
      /\ \A b \in Actors \ {a} : ctx'[b] = ctx[b] /\ at'[b] = at[b]
  BY <1>1, <1>2 DEF IInv, TypeOK, Sites
<1>4. TypeOK' BY <1>1, <1>3 DEF IInv, TypeOK, files, Sites
<1>5. Ledger' /\ Places' /\ Bounded'
  BY <1>1 DEF IInv, Ledger, Places, Bounded, files
<1>6. m.day >= today - 1
  <2>1. today \in Nat BY DEF IInv, TypeOK
  <2> QED BY <1>2, <2>1
<1>7. Recent' BY <1>1, <1>3, <1>6 DEF IInv, Recent
<1> QED BY <1>1, <1>2, <1>4, <1>5, <1>7 DEF IInv

LEMMA LockStep ==
  ASSUME IInv, NEW a \in Actors, Lock(a)
  PROVE  IInv'
<1> DEFINE m == ctx[a]
<1>1. /\ at[a] = "made" /\ exiter = None /\ async # "gone"
      /\ pending' = Append(pending, m) /\ accepted' = Append(accepted, m)
      /\ ctx' = [ctx EXCEPT ![a] = NoMsg]
      /\ at' = [at EXCEPT ![a] = "locked"]
      /\ UNCHANGED <<today, files, sem, exitFlag, async, batch, exiter,
                     signalled, life, made, written>>
  BY DEF Lock, Step, Moves, Running
<1>2. /\ m \in Msgs /\ pending \in Seq(Msgs) /\ batch \in Seq(Msgs)
      /\ NoMsg \in Msgs
  BY LoggerAssumption, LogFilesAssumption DEF IInv, TypeOK, NoMsg, Msgs
<1>3. m.day >= today - 1 BY <1>1 DEF IInv, Recent
<1> HIDE DEF m
<1>4. /\ ctx' \in [Actors -> Msgs] /\ at' \in [Actors -> Sites]
      /\ \A b \in Actors : at'[b] = "made" => b # a /\ at[b] = "made"
      /\ \A b \in Actors \ {a} : ctx'[b] = ctx[b]
  BY <1>1, <1>2 DEF IInv, TypeOK, Sites
<1>5. /\ pending' \in Seq(Msgs)
      /\ \A i \in DOMAIN pending' : \/ i \in DOMAIN pending /\ pending'[i] = pending[i]
                                    \/ pending'[i] = m
  BY <1>1, <1>2
<1>6. TypeOK' BY <1>1, <1>4, <1>5 DEF IInv, TypeOK, files, Sites
<1>7. Ledger'
  <2>1. PICK earlier, done \in Seq(Msgs) :
          /\ written = earlier \o done
          /\ accepted = done \o (batch \o pending)
    BY DEF IInv, Ledger
  <2>2. <<m>> \in Seq(Msgs) /\ batch \o pending \in Seq(Msgs)
    BY <1>2, ConcatProperties
  <2>3. accepted \in Seq(Msgs) BY <2>1, <2>2, ConcatProperties
  <2>4. accepted' = (done \o (batch \o pending)) \o <<m>>
    BY <1>1, <1>2, <2>1, <2>3, AppendIsConcat
  <2>5. @ = done \o ((batch \o pending) \o <<m>>)
    BY <2>2, ConcatAssociative
  <2>6. (batch \o pending) \o <<m>> = batch \o (pending \o <<m>>)
    BY <1>2, <2>2, ConcatAssociative
  <2>7. pending' = pending \o <<m>> BY <1>1, <1>2, AppendIsConcat
  <2>8. accepted' = done \o (batch' \o pending') /\ written' = earlier \o done
    BY <1>1, <2>1, <2>4, <2>5, <2>6, <2>7
  <2> QED BY <2>8 DEF Ledger
<1>8. Places' BY <1>1 DEF IInv, Places
<1>9. Recent' BY <1>1, <1>3, <1>4, <1>5 DEF IInv, Recent
<1>10. Bounded' BY <1>1 DEF IInv, Bounded, files
<1> QED BY <1>1, <1>6, <1>7, <1>8, <1>9, <1>10 DEF IInv

\* Unlock, PostLock, Post, Exit.
LEMMA CallStep ==
  ASSUME IInv, NEW a \in Actors, Unlock(a) \/ PostLock(a) \/ Post(a) \/ Exit(a)
  PROVE  IInv'
<1>1. PICK x \in Sites \ {"made"} : Step(a, x)
  BY DEF Unlock, PostLock, Post, Exit, Sites
<1>2. /\ at' \in [Actors -> Sites]
      /\ \A b \in Actors : at'[b] = "made" => at[b] = "made"
  BY <1>1, Stepped
<1>3. /\ UNCHANGED <<today, files, ctx, pending, batch, history>>
      /\ UNCHANGED <<async, signalled>>
      /\ sem' \in Nat /\ exitFlag' \in BOOLEAN
      /\ exiter' = exiter \/ exiter' = a
  <2>1. sem \in Nat /\ exitFlag \in BOOLEAN BY DEF IInv, TypeOK
  <2>2. CASE Unlock(a) \/ PostLock(a) BY <2>1, <2>2 DEF Unlock, PostLock
  <2>3. CASE Post(a) BY <2>1, <2>3 DEF Post
  <2>4. CASE Exit(a) BY <2>1, <2>4 DEF Exit
  <2> QED BY <2>2, <2>3, <2>4
<1>4. async \in Stages /\ signalled \in BOOLEAN /\ exiter' \in Actors \cup {None}
  BY <1>3 DEF IInv, TypeOK, Stages
<1>5. Places' BY <1>3, LoggerAssumption DEF IInv, Places
<1> QED BY <1>2, <1>3, <1>4, <1>5, Quiet

\* Check, Wait, Flushed, Signal.
LEMMA WaitStep ==
  ASSUME IInv, Check \/ Wait \/ Flushed \/ Signal
  PROVE  IInv'
<1>1. /\ UNCHANGED <<today, files, at, ctx, pending, batch, exitFlag, exiter, history>>
      /\ sem' \in Nat /\ signalled' \in BOOLEAN /\ async' \in Stages
  <2>1. sem \in Nat /\ signalled \in BOOLEAN /\ async \in Stages
    BY DEF IInv, TypeOK, Stages
  <2>2. CASE Check BY <2>1, <2>2 DEF Check, Stages
  <2>3. CASE Wait BY <2>1, <2>3 DEF Wait, Stages
  <2>4. CASE Flushed BY <2>1, <2>4 DEF Flushed, Stages
  <2>5. CASE Signal BY <2>1, <2>5 DEF Signal
  <2> QED BY <2>2, <2>3, <2>4, <2>5
<1>2. Places'
  BY <1>1 DEF Check, Wait, Flushed, Signal, IInv, Places
<1>3. /\ at' \in [Actors -> Sites] /\ exitFlag' \in BOOLEAN
      /\ exiter' \in Actors \cup {None}
      /\ \A b \in Actors : at'[b] = "made" => at[b] = "made"
  BY <1>1 DEF IInv, TypeOK, Sites
<1> QED BY <1>1, <1>2, <1>3, Quiet

\* flushAll takes what is pending: Swap, Join.
LEMMA TakeStep ==
  ASSUME IInv, Swap \/ Join
  PROVE  IInv'
<1>1. /\ async \in {"swap", "done"} /\ async' \in {"flush", "last"}
      /\ async' = "last" => exiter # None
      /\ batch' = pending /\ pending' = <<>>
      /\ UNCHANGED <<today, files, at, ctx, sem, exitFlag, exiter, signalled, history>>
  BY DEF Swap, Join
<1>2. batch = <<>> /\ pending \in Seq(Msgs) BY <1>1 DEF IInv, Places, TypeOK
<1>3. TypeOK' BY <1>1, EmptySeq DEF IInv, TypeOK, files
<1>4. Ledger'
  <2>1. batch \o pending = pending /\ batch' \o pending' = pending
    BY <1>1, <1>2, ConcatEmptySeq
  <2> QED BY <1>1, <2>1 DEF IInv, Ledger, history
<1>5. Places' BY <1>1 DEF Places
<1>6. Recent' BY <1>1, EmptySeq DEF IInv, Recent
<1>7. Bounded' /\ made' \in Nat BY <1>1 DEF IInv, Bounded, files, history
<1> QED BY <1>3, <1>4, <1>5, <1>6, <1>7 DEF IInv

LEMMA WriteStep ==
  ASSUME IInv, WriteChannels
  PROVE  IInv'
<1> DEFINE m == Head(batch)
<1>1. /\ async \in {"flush", "last"} /\ batch # <<>> /\ Write(m)
      /\ written' = Append(written, m) /\ batch' = Tail(batch)
      /\ UNCHANGED <<today, at, ctx, pending, sem, exitFlag, async, exiter, signalled,
                     life, made, accepted, mixed>>
  BY DEF WriteChannels
<1>2. batch \in Seq(Msgs) /\ pending \in Seq(Msgs) BY DEF IInv, TypeOK
<1>3. /\ m \in Msgs /\ Tail(batch) \in Seq(Msgs)
      /\ m = batch[1] /\ 1 \in DOMAIN batch
      /\ \A i \in DOMAIN Tail(batch) : i + 1 \in DOMAIN batch
                                       /\ Tail(batch)[i] = batch[i + 1]
      /\ batch = <<m>> \o Tail(batch)
  BY <1>1, <1>2
<1>4. m.day >= today - 1 BY <1>3 DEF IInv, Recent
<1> HIDE DEF m
<1>5. FilesOK /\ Bounded BY DEF IInv, TypeOK, FilesOK
<1>6. FilesOK' /\ Bounded' BY <1>1, <1>3, <1>4, <1>5, WriteKeepsFiles
<1>7. TypeOK' BY <1>1, <1>3, <1>6 DEF IInv, TypeOK, FilesOK
<1>8. Ledger'
  <2>1. PICK earlier, done \in Seq(Msgs) :
          /\ written = earlier \o done
          /\ accepted = done \o (batch \o pending)
    BY DEF IInv, Ledger
  <2> DEFINE rest == Tail(batch) \o pending
             more == done \o <<m>>
  <2>2. <<m>> \in Seq(Msgs) /\ rest \in Seq(Msgs) /\ more \in Seq(Msgs)
    BY <1>2, <1>3, <2>1, ConcatProperties
  <2>3. written' = (earlier \o done) \o <<m>>
    <3>1. written \in Seq(Msgs) BY <2>1, ConcatProperties
    <3> QED BY <1>1, <1>3, <2>1, <3>1, AppendIsConcat
  <2>4. @ = earlier \o more BY <2>1, <2>2, ConcatAssociative
  <2>5. batch \o pending = <<m>> \o rest
    BY <1>2, <1>3, <2>2, ConcatAssociative
  <2>6. accepted = done \o (<<m>> \o rest) BY <2>1, <2>5
  <2>7. @ = more \o rest BY <2>1, <2>2, ConcatAssociative
  <2>8. written' = earlier \o more /\ accepted' = more \o (batch' \o pending')
    BY <1>1, <2>3, <2>4, <2>6, <2>7
  <2> HIDE DEF more, rest
  <2> QED BY <2>1, <2>2, <2>8 DEF Ledger
<1>9. Places' BY <1>1 DEF IInv, Places
<1>10. Recent' BY <1>1, <1>3 DEF IInv, Recent
<1> QED BY <1>1, <1>6, <1>7, <1>8, <1>9, <1>10 DEF IInv

LEMMA Died ==
  ASSUME IInv, Dies
  PROVE  /\ async' = "gone" /\ exiter' = None /\ at' \in [Actors -> Sites]
         /\ \A a \in Actors : at'[a] = "run" /\ ctx'[a] = NoMsg
         /\ sem' \in Nat /\ exitFlag' \in BOOLEAN /\ signalled' \in BOOLEAN
         /\ ctx' \in [Actors -> Msgs]
<1>1. NoMsg \in Msgs
  BY LoggerAssumption, LogFilesAssumption DEF NoMsg, Msgs
<1> QED BY <1>1 DEF Dies, Sites

LEMMA EndStep ==
  ASSUME IInv, Exited \/ Killed
  PROVE  IInv'
<1>1. Dies /\ UNCHANGED <<today, files, life, made, written, mixed>>
  BY DEF Exited, Killed, history
<1>2. /\ batch' = <<>> /\ pending' = <<>>
      /\ \/ async = "last" /\ UNCHANGED <<pending, batch, accepted>>
         \/ accepted' = <<>>
  BY DEF Exited, Killed, IInv, Places, history
<1>3. TypeOK' BY <1>1, <1>2, Died, EmptySeq DEF IInv, TypeOK, files, Sites
<1>4. Ledger'
  <2>1. PICK earlier, done \in Seq(Msgs) :
          /\ written = earlier \o done
          /\ accepted = done \o (batch \o pending)
    BY DEF IInv, Ledger
  <2>2. CASE UNCHANGED <<pending, batch, accepted>>
    BY <1>1, <2>1, <2>2 DEF Ledger
  <2>3. CASE accepted' = <<>>
    <3>1. written \in Seq(Msgs) BY <2>1, ConcatProperties
    <3>2. written' = written \o <<>> /\ accepted' = <<>> \o (batch' \o pending')
      BY <1>1, <1>2, <2>3, <3>1, ConcatEmptySeq, EmptySeq
    <3> QED BY <3>1, <3>2, EmptySeq DEF Ledger
  <2> QED BY <1>2, <2>2, <2>3
<1>5. Places' BY <1>1, <1>2, Died DEF Places
<1>6. Recent' BY <1>1, <1>2, Died, EmptySeq DEF Recent
<1>7. Bounded' /\ made' \in Nat BY <1>1 DEF IInv, Bounded, files
<1> QED BY <1>3, <1>4, <1>5, <1>6, <1>7 DEF IInv

LEMMA RestartStep ==
  ASSUME IInv, Restart
  PROVE  IInv'
<1>1. /\ async = "gone" /\ async' = "check" /\ accepted' = <<>>
      /\ UNCHANGED <<today, at, ctx, pending, sem, exitFlag, batch, exiter,
                     signalled, made, written, mixed>>
      /\ path' = NoPath /\ day' = -1 /\ index' = Scanned(disk) /\ UNCHANGED disk
  BY DEF Restart, Open, Running
<1>2. batch = <<>> /\ pending = <<>> BY <1>1 DEF IInv, Places
<1>3. Scanned(disk) \in Nat
  <2>1. FilesOK /\ Bounded BY DEF IInv, TypeOK, FilesOK
  <2> QED BY <2>1, ScannedIsIndex
<1>4. -1 \in -1..LastDay BY LogFilesAssumption
<1>5. TypeOK' BY <1>1, <1>3, <1>4 DEF IInv, TypeOK
<1>6. Ledger'
  <2>1. written \in Seq(Msgs)
    BY ConcatProperties DEF IInv, Ledger
  <2>2. written' = written \o <<>> /\ accepted' = <<>> \o (batch' \o pending')
    BY <1>1, <1>2, <2>1, ConcatEmptySeq, EmptySeq
  <2> QED BY <2>1, <2>2, EmptySeq DEF Ledger
<1>7. Places' BY <1>1, <1>2 DEF Places
<1>8. Recent' BY <1>1 DEF IInv, Recent
<1>9. Bounded' /\ made' \in Nat BY <1>1 DEF IInv, Bounded
<1> QED BY <1>5, <1>6, <1>7, <1>8, <1>9 DEF IInv

LEMMA MidnightStep ==
  ASSUME IInv, Midnight
  PROVE  IInv'
<1>1. /\ today < LastDay /\ today' = today + 1
      /\ \A a \in Actors : at[a] = "made" => ctx[a].day = today
      /\ \A i \in DOMAIN pending : pending[i].day = today
      /\ \A i \in DOMAIN batch : batch[i].day = today
      /\ UNCHANGED <<files, process, history>>
  BY DEF Midnight
<1>2. today \in Nat /\ today' \in 1..LastDay /\ today >= today' - 1
  <2>1. today \in 1..LastDay BY DEF IInv, TypeOK
  <2> QED BY <1>1, <2>1, LogFilesAssumption
<1>3. TypeOK' BY <1>1, <1>2 DEF IInv, TypeOK, files, process
<1>4. Recent' BY <1>1, <1>2 DEF Recent, process
<1>5. Ledger' /\ Places' /\ Bounded' /\ made' \in Nat
  BY <1>1 DEF IInv, Ledger, Places, Bounded, files, process, history
<1> QED BY <1>3, <1>4, <1>5 DEF IInv

-----------------------------------------------------------------------------
(* The theorem. *)

LEMMA InitEstablishesIInv == Init => IInv
<1> SUFFICES ASSUME Init PROVE IInv OBVIOUS
<1>1. NoMsg \in Msgs
  BY LoggerAssumption, LogFilesAssumption DEF NoMsg, Msgs
<1>2. FilesOK /\ Bounded
  BY <1>1, LogFilesAssumption DEF Init, InitFiles, FilesOK, Bounded
<1>3. TypeOK BY <1>1, <1>2, EmptySeq DEF Init, TypeOK, FilesOK
<1>4. Ledger
  <2>1. <<NoMsg>> \in Seq(Msgs) /\ <<>> \in Seq(Msgs) BY <1>1
  <2>2. written = <<NoMsg>> \o <<>> /\ accepted = <<>> \o (batch \o pending)
    BY <2>1, ConcatEmptySeq DEF Init
  <2> QED BY <2>1, <2>2 DEF Ledger
<1>5. Places /\ Recent /\ made \in Nat
  BY DEF Init, Places, Recent
<1> QED BY <1>2, <1>3, <1>4, <1>5 DEF IInv

LEMMA NextKeepsIInv == IInv /\ [Next]_vars => IInv'
<1> SUFFICES ASSUME IInv, [Next]_vars PROVE IInv' OBVIOUS
<1>1. CASE UNCHANGED vars
  BY <1>1 DEF vars, files, process, history, IInv, TypeOK, Ledger, Places,
              Recent, Bounded
<1>2. ASSUME NEW a \in Actors, Act(a) PROVE IInv'
  BY <1>2, MakeStep, LockStep, CallStep DEF Act
<1>3. CASE Writer BY <1>3, WaitStep, TakeStep, WriteStep, EndStep DEF Writer
<1>4. CASE Signal \/ Killed \/ Restart \/ Midnight
  BY <1>4, WaitStep, EndStep, RestartStep, MidnightStep
<1> QED BY <1>1, <1>2, <1>3, <1>4 DEF Next

\* Whatever thread exits and wherever the writer's thread was then, a message
\* Logger::write returned for is written, once and in the order of the calls,
\* before the process is gone (AsyncLogWriter in Logger.cpp).
THEOREM LoggerLosesNothing == Spec => []NothingLost
BY InvImpliesNothingLost, InitEstablishesIInv, NextKeepsIInv, PTL DEF Spec

-----------------------------------------------------------------------------
(* The order of the names, and what clean leaves of them. *)

\* The names of the slices, and their order.
Names == (0..LastDay) \X Nat

LEMMA BeforeOrders ==
  ASSUME NEW f \in Names, NEW g \in Names
  PROVE  /\ ~Before(f, f)
         /\ Before(f, g) => ~Before(g, f)
         /\ f = g \/ Before(f, g) \/ Before(g, f)
         /\ \A h \in Names : Before(f, g) /\ Before(g, h) => Before(f, h)
<1>1. \A h \in Names : h[1] \in Int /\ h[2] \in Int /\ h = <<h[1], h[2]>>
  BY LogFilesAssumption DEF Names
<1>2. f[1] = g[1] /\ f[2] = g[2] => f = g
  BY <1>1
<1> QED BY <1>1, <1>2 DEF Before

LEMMA Smallest ==
  ASSUME NEW S, IsFiniteSet(S), NEW B \in SUBSET SUBSET S, B # {}
  PROVE  \E T \in B : /\ IsFiniteSet(T)
                      /\ \A x \in T : /\ IsFiniteSet(T \ {x}) /\ T \ {x} \in SUBSET S
                                      /\ T \ {x} \notin B
<1> DEFINE sizes == {Cardinality(T) : T \in B}
<1>1. \A T \in B : IsFiniteSet(T) /\ Cardinality(T) \in Nat
  BY FS_Subset, FS_CardinalityType
<1>2. PICK n \in sizes : \A k \in sizes : n <= k
  <2>1. sizes \in SUBSET Nat /\ sizes # {} BY <1>1
  <2> HIDE DEF sizes
  <2> QED BY <2>1, LeastNatural
<1>3. PICK T \in B : n = Cardinality(T) BY <1>2
<1>4. ASSUME NEW x \in T
      PROVE  /\ IsFiniteSet(T \ {x}) /\ T \ {x} \in SUBSET S
             /\ T \ {x} \notin B
  <2>1. IsFiniteSet(T \ {x}) /\ Cardinality(T \ {x}) = Cardinality(T) - 1
    BY <1>1, FS_RemoveElement
  <2>2. T \ {x} \in B => Cardinality(T \ {x}) \in sizes OBVIOUS
  <2> QED BY <1>1, <1>2, <1>3, <2>1, <2>2
<1> QED BY <1>1, <1>4

Latest(S, f) == f \in S /\ \A g \in S : g = f \/ Before(g, f)

LEMMA LatestExists ==
  ASSUME NEW S \in SUBSET Names, IsFiniteSet(S), S # {}
  PROVE  \E f \in S : Latest(S, f)
<1> DEFINE bad == {T \in SUBSET S : T # {} /\ ~\E f \in T : Latest(T, f)}
<1>1. SUFFICES ASSUME bad # {} PROVE FALSE OBVIOUS
<1>2. \E T \in bad : \A x \in T : T \ {x} \in SUBSET S /\ T \ {x} \notin bad
  <2>1. bad \in SUBSET SUBSET S OBVIOUS
  <2> HIDE DEF bad
  <2>2. \E T \in bad : /\ IsFiniteSet(T)
                       /\ \A x \in T : /\ IsFiniteSet(T \ {x}) /\ T \ {x} \in SUBSET S
                                       /\ T \ {x} \notin bad
    BY <1>1, <2>1, Smallest, Zenon
  <2> QED BY <2>2, Zenon
<1>3. PICK T \in bad : \A x \in T : T \ {x} \in SUBSET S /\ T \ {x} \notin bad
  BY <1>2
<1>4. T \in SUBSET Names /\ T # {} /\ ~\E f \in T : Latest(T, f) OBVIOUS
<1>5. PICK x \in T : TRUE BY <1>4
<1>6. CASE T \ {x} = {}
  BY <1>4, <1>5, <1>6 DEF Latest
<1>7. CASE T \ {x} # {}
  <2>1. PICK y \in T \ {x} : Latest(T \ {x}, y) BY <1>3, <1>5, <1>7
  <2>2. x \in Names /\ y \in Names BY <1>4, <1>5
  <2>3. CASE Before(x, y)
    BY <1>4, <2>1, <2>3 DEF Latest
  <2>4. CASE ~Before(x, y)
    <3>1. Before(y, x) BY <2>1, <2>2, <2>4, BeforeOrders
    <3>2. \A g \in T : g = x \/ Before(g, x)
      <4> TAKE g \in T
      <4>1. g \in Names BY <1>4
      <4>2. g = x \/ g = y \/ Before(g, y) BY <2>1 DEF Latest
      <4> QED BY <2>2, <3>1, <4>1, <4>2, BeforeOrders
    <3> QED BY <1>4, <1>5, <3>2 DEF Latest
  <2> QED BY <2>3, <2>4
<1> QED BY <1>6, <1>7

Increasing(d) == \A i, j \in DOMAIN d : i < j => Before(d[i], d[j])

\* A finite set of names can be listed in their order.
LEMMA ListingExists ==
  ASSUME NEW S \in SUBSET Names, IsFiniteSet(S)
  PROVE  \E d \in [1..Cardinality(S) -> S] : Increasing(d)
<1> DEFINE bad == {T \in SUBSET S : ~\E d \in [1..Cardinality(T) -> T] : Increasing(d)}
<1>1. SUFFICES bad = {}
  <2>1. S \in SUBSET S OBVIOUS
  <2> QED BY <1>1, <2>1
<1>2. SUFFICES ASSUME bad # {} PROVE FALSE OBVIOUS
<1>3. \E T \in bad : /\ IsFiniteSet(T)
                     /\ \A x \in T : /\ IsFiniteSet(T \ {x}) /\ T \ {x} \in SUBSET S
                                     /\ T \ {x} \notin bad
  <2>1. bad \in SUBSET SUBSET S OBVIOUS
  <2> HIDE DEF bad
  <2> QED BY <1>2, <2>1, Smallest, Zenon
<1>4. PICK T \in bad : /\ IsFiniteSet(T)
                       /\ \A x \in T : /\ IsFiniteSet(T \ {x}) /\ T \ {x} \in SUBSET S
                                       /\ T \ {x} \notin bad
  BY <1>3, Zenon
<1>5. T \in SUBSET S /\ ~\E d \in [1..Cardinality(T) -> T] : Increasing(d) OBVIOUS
<1>6. Cardinality(T) \in Nat BY <1>4, FS_CardinalityType
<1>7. T # {}
  <2>1. SUFFICES ASSUME T = {} PROVE FALSE OBVIOUS
  <2>2. Cardinality(T) = 0 BY <2>1, FS_EmptySet
  <2> DEFINE d == [i \in 1..Cardinality(T) |-> 0]
  <2>3. d \in [1..Cardinality(T) -> T] BY <2>2
  <2>4. Increasing(d) BY <2>2 DEF Increasing
  <2> QED BY <1>5, <2>3, <2>4
<1>8. PICK m \in T : Latest(T, m)
  <2>1. T \in SUBSET Names BY <1>5
  <2> QED BY <1>4, <1>7, <2>1, LatestExists
<1> DEFINE U == T \ {m}
           c == Cardinality(U)
<1>9. IsFiniteSet(U) /\ U \in SUBSET S /\ U \notin bad BY <1>4
<1>10. PICK d \in [1..c -> U] : Increasing(d) BY <1>9
<1>11. c \in Nat /\ Cardinality(T) = c + 1
  <2>1. Cardinality(U) = Cardinality(T) - 1 /\ Cardinality(U) \in Nat
    BY <1>4, <1>9, FS_RemoveElement, FS_CardinalityType
  <2> QED BY <1>6, <2>1
<1> HIDE DEF bad
<1> DEFINE e == [i \in 1..(c + 1) |-> IF i = c + 1 THEN m ELSE d[i]]
<1>12. e \in [1..(c + 1) -> T]
  <2>1. \A i \in 1..(c + 1) : i # c + 1 => i \in 1..c BY <1>11
  <2> HIDE DEF c
  <2> QED BY <2>1
<1>13. ASSUME NEW i \in 1..(c + 1), NEW j \in 1..(c + 1), i < j
       PROVE  Before(e[i], e[j])
  <2>1. i \in 1..c /\ e[i] = d[i] BY <1>11, <1>13
  <2>2. CASE j = c + 1
    <3>1. d[i] \in U BY <2>1
    <3>2. d[i] \in T /\ d[i] # m /\ e[j] = m BY <2>2, <3>1
    <3> QED BY <1>8, <2>1, <3>2 DEF Latest
  <2>3. CASE j # c + 1
    <3>1. j \in 1..c /\ e[j] = d[j] BY <1>11, <2>3
    <3>2. i \in DOMAIN d /\ j \in DOMAIN d BY <2>1, <3>1
    <3> QED BY <1>10, <1>13, <2>1, <3>1, <3>2 DEF Increasing
  <2> QED BY <2>2, <2>3
<1> HIDE DEF e, c
<1>14. Increasing(e) BY <1>12, <1>13 DEF Increasing
<1> QED BY <1>5, <1>11, <1>12, <1>14

\* A listing names every element.
LEMMA ListingIsOnto ==
  ASSUME NEW S \in SUBSET Names, IsFiniteSet(S),
         NEW d \in [1..Cardinality(S) -> S], Increasing(d), NEW f \in S
  PROVE  \E i \in 1..Cardinality(S) : d[i] = f
<1> DEFINE n == Cardinality(S)
<1>1. n \in Nat BY FS_CardinalityType
<1>2. IsFiniteSet(1..n) /\ Cardinality(1..n) = n BY <1>1, FS_Interval
<1>3. \A i, j \in 1..n : d[i] = d[j] => i = j
  <2> SUFFICES ASSUME NEW i \in 1..n, NEW j \in 1..n, d[i] = d[j], i # j PROVE FALSE
    OBVIOUS
  <2>1. i < j \/ j < i BY <1>1
  <2>2. Before(d[i], d[j]) \/ Before(d[j], d[i])
    BY <2>1 DEF Increasing
  <2>3. d[i] \in Names OBVIOUS
  <2> QED BY <2>2, <2>3, BeforeOrders
<1>4. d \in Injection(1..n, S)
  BY <1>3 DEF Injection, IsInjective
<1>5. d \in Surjection(1..n, S)
  BY <1>2, <1>4, FS_Injection
<1> QED BY <1>5 DEF Surjection

LEMMA EarliestExists ==
  ASSUME NEW S \in SUBSET Names, IsFiniteSet(S), S # {}
  PROVE  \E f \in S : \A g \in S : g = f \/ Before(f, g)
<1>1. PICK d \in [1..Cardinality(S) -> S] : Increasing(d) BY ListingExists
<1>2. Cardinality(S) \in Nat BY FS_CardinalityType
<1>3. \A g \in S : \E i \in 1..Cardinality(S) : d[i] = g
  BY <1>1, ListingIsOnto
<1>4. 1 \in 1..Cardinality(S) BY <1>2, <1>3
<1>5. \A g \in S : g = d[1] \/ Before(d[1], g)
  <2> TAKE g \in S
  <2>1. PICK i \in 1..Cardinality(S) : d[i] = g BY <1>3
  <2>2. i = 1 \/ 1 < i BY <1>2
  <2> QED BY <1>1, <1>4, <2>1, <2>2 DEF Increasing
<1> QED BY <1>4, <1>5

\* clean keeps the slice that is open, the last, and as many before it as fit.
LEMMA KeptIsTheEnd ==
  ASSUME NEW S \in SUBSET Names, IsFiniteSet(S), today \in Nat,
         NEW f, Latest(S, f), f[1] >= today - 1
  PROVE  /\ f \in Kept(S, f) /\ Kept(S, f) \subseteq S
         /\ \A g \in Kept(S, f), h \in S : Before(g, h) => h \in Kept(S, f)
         /\ IsFiniteSet(Kept(S, f)) /\ Cardinality(Kept(S, f)) <= MaxCount
<1> DEFINE fresh == {g \in S : today < g[1] + MaxDay}
           from(g) == {h \in fresh : ~Before(h, g)}
           K == Kept(S, f)
<1>1. K = {g \in fresh : \/ Cardinality(from(g)) <= MaxCount
                         \/ f \in fresh /\ ~Before(g, f)}
  BY DEF Kept
<1>2. f \in Names /\ f[1] \in Nat /\ MaxDay \in Nat /\ MaxDay > 1 /\ MaxCount \in Nat \ {0}
  BY LogFilesAssumption DEF Latest, Names
<1>3. f \in fresh BY <1>2 DEF Latest
<1>4. fresh \subseteq S /\ IsFiniteSet(fresh) BY FS_Subset
<1>5. \A g \in fresh, h \in S : Before(g, h) => h \in fresh
  <2> SUFFICES ASSUME NEW g \in fresh, NEW h \in S, Before(g, h) PROVE h \in fresh
    OBVIOUS
  <2>1. g[1] \in Nat /\ h[1] \in Nat /\ g[1] <= h[1] /\ today < g[1] + MaxDay
    BY <1>4, LogFilesAssumption DEF Before, Names
  <2> QED BY <1>2, <2>1
<1>6. \A g \in S : from(g) \subseteq fresh /\ IsFiniteSet(from(g)) /\ Cardinality(from(g)) \in Nat
  BY <1>4, FS_Subset, FS_CardinalityType
<1>7. \A g \in S, h \in S : Before(g, h) => from(h) \subseteq from(g) /\ g \notin from(h)
  BY <1>4, BeforeOrders
<1>8. \A g \in fresh : g \in from(g) BY <1>4, BeforeOrders
<1>9. f \in K BY <1>1, <1>2, <1>3, BeforeOrders
<1>10. K \subseteq fresh BY <1>1
<1> HIDE DEF fresh, from, K
<1>11. ASSUME NEW g \in K, NEW h \in S, Before(g, h) PROVE h \in K
  <2>1. g \in fresh /\ h \in fresh /\ g \in S BY <1>4, <1>5, <1>10, <1>11
  <2>2. CASE Cardinality(from(g)) <= MaxCount
    <3>1. Cardinality(from(h)) <= Cardinality(from(g))
      BY <1>6, <1>7, <1>11, <2>1, FS_Subset
    <3>2. Cardinality(from(h)) <= MaxCount BY <1>2, <1>6, <2>1, <2>2, <3>1
    <3> QED BY <1>1, <2>1, <3>2
  <2>3. CASE ~Before(g, f)
    <3>1. g = f BY <2>1, <2>3 DEF Latest
    <3>2. h = f \/ Before(h, f) BY DEF Latest
    <3> QED BY <1>2, <1>9, <1>11, <3>1, <3>2, BeforeOrders
  <2> QED BY <1>1, <2>2, <2>3
<1>12. IsFiniteSet(K) BY <1>4, <1>10, FS_Subset
<1>13. Cardinality(K) <= MaxCount
  <2>1. PICK g \in K : \A h \in K : h = g \/ Before(g, h)
    <3>1. K \in SUBSET Names /\ K # {} BY <1>4, <1>9, <1>10
    <3> QED BY <1>12, <3>1, EarliestExists
  <2>2. g \in S /\ g \in fresh BY <1>4, <1>10
  <2>3. CASE Cardinality(from(g)) <= MaxCount
    <3>1. K \subseteq from(g)
      BY <1>4, <1>10, <2>1, <2>2, BeforeOrders DEF from
    <3>2. Cardinality(K) <= Cardinality(from(g)) BY <1>6, <2>2, <3>1, FS_Subset
    <3>3. Cardinality(K) \in Nat BY <1>12, FS_CardinalityType
    <3> QED BY <1>2, <1>6, <2>2, <2>3, <3>2, <3>3
  <2>4. CASE ~Before(g, f)
    <3>1. g = f BY <2>2, <2>4 DEF Latest
    <3>2. \A h \in K : h = f
      BY <1>2, <1>4, <1>10, <2>1, <3>1, BeforeOrders DEF Latest
    <3>3. K = {f} BY <1>9, <3>2
    <3>4. Cardinality(K) = 1 BY <3>3, FS_Singleton, Zenon
    <3> QED BY <1>2, <3>4
  <2> QED BY <1>1, <2>1, <2>3, <2>4
<1> QED BY <1>4, <1>9, <1>10, <1>11, <1>12, <1>13 DEF K

-----------------------------------------------------------------------------
(* The slices as pieces of what was written. *)

Adjacent(S, f, g) == Before(f, g) /\ \A h \in S : ~(Before(f, h) /\ Before(h, g))

\* The slices cut the end of a sequence into pieces, in the order of the names.
Cut(d, w, lo, hi) ==
  /\ \A f \in DOMAIN d : /\ lo[f] <= hi[f] /\ hi[f] <= Len(w)
                         /\ d[f] = SubSeq(w, lo[f] + 1, hi[f])
  /\ \A f, g \in DOMAIN d : Adjacent(DOMAIN d, f, g) => hi[f] = lo[g]
  /\ \A f \in DOMAIN d : Latest(DOMAIN d, f) => hi[f] = Len(w) /\ lo[f] < hi[f]

Pieces(d, w) == \E lo, hi \in [DOMAIN d -> Nat] : Cut(d, w, lo, hi)

LEMMA SubSeqOfAppend ==
  ASSUME NEW w \in Seq(Msgs), NEW m \in Msgs, NEW a \in Nat, NEW b \in Nat,
         a <= b, b <= Len(w)
  PROVE  SubSeq(Append(w, m), a + 1, b) = SubSeq(w, a + 1, b)
<1> DEFINE v == Append(w, m)
<1>1. /\ v \in Seq(Msgs) /\ Len(v) = Len(w) + 1 /\ Len(w) \in Nat
      /\ \A i \in 1..Len(w) : v[i] = w[i]
  BY AppendProperties
<1> HIDE DEF v
<1>2. \A i \in (a + 1)..b : i \in 1..Len(w) /\ v[i] = w[i] /\ w[i] \in Msgs
  BY <1>1, ElementOfSeq
<1>3. /\ SubSeq(v, a + 1, b) \in Seq(Msgs) /\ SubSeq(w, a + 1, b) \in Seq(Msgs)
      /\ Len(SubSeq(v, a + 1, b)) = Len(SubSeq(w, a + 1, b))
      /\ Len(SubSeq(v, a + 1, b)) = b - a
      /\ \A i \in 1..(b - a) : /\ SubSeq(v, a + 1, b)[i] = v[a + i]
                               /\ SubSeq(w, a + 1, b)[i] = w[a + i]
  <2>1. a + 1 \in Int /\ b \in Int OBVIOUS
  <2>2. /\ SubSeq(v, a + 1, b) \in Seq(Msgs)
        /\ Len(SubSeq(v, a + 1, b)) = IF a + 1 <= b THEN b - (a + 1) + 1 ELSE 0
        /\ \A i \in 1..(b - (a + 1) + 1) : SubSeq(v, a + 1, b)[i] = v[a + 1 + i - 1]
    BY <1>2, <2>1, SubSeqProperties
  <2>3. /\ SubSeq(w, a + 1, b) \in Seq(Msgs)
        /\ Len(SubSeq(w, a + 1, b)) = IF a + 1 <= b THEN b - (a + 1) + 1 ELSE 0
        /\ \A i \in 1..(b - (a + 1) + 1) : SubSeq(w, a + 1, b)[i] = w[a + 1 + i - 1]
    BY <1>2, <2>1, SubSeqProperties
  <2>4. b - (a + 1) + 1 = b - a OBVIOUS
  <2>5. \A i \in 1..(b - a) : a + 1 + i - 1 = a + i OBVIOUS
  <2> QED BY <2>2, <2>3, <2>4, <2>5
<1>4. \A i \in 1..(b - a) : v[a + i] = w[a + i]
  <2> TAKE i \in 1..(b - a)
  <2>1. a + i \in (a + 1)..b OBVIOUS
  <2> QED BY <1>2, <2>1
<1>5. SubSeq(v, a + 1, b) = SubSeq(w, a + 1, b)
  BY <1>3, <1>4, SeqEqual
<1> QED BY <1>5 DEF v

LEMMA SubSeqAppended ==
  ASSUME NEW w \in Seq(Msgs), NEW m \in Msgs, NEW a \in Nat, a <= Len(w)
  PROVE  SubSeq(Append(w, m), a + 1, Len(w) + 1) = Append(SubSeq(w, a + 1, Len(w)), m)
<1> DEFINE v == Append(w, m)
           n == Len(w)
<1>1. /\ v \in Seq(Msgs) /\ Len(v) = n + 1 /\ n \in Nat /\ v[n + 1] = m
  BY AppendProperties
<1>2. SubSeq(v, a + 1, n) = SubSeq(w, a + 1, n)
  BY <1>1, SubSeqOfAppend
<1>3. SubSeq(v, a + 1, n + 1) = SubSeq(v, a + 1, n) \o <<v[n + 1]>>
  <2>1. a + 1 \in 1..Len(v) /\ n + 1 \in (a + 1)..Len(v) /\ (n + 1) - 1 = n
    BY <1>1
  <2> HIDE DEF v, n
  <2> QED BY <1>1, <2>1, SubSeqRecursiveSecond
<1>4. SubSeq(w, a + 1, n) \in Seq(Msgs)
  <2>1. \A i \in (a + 1)..n : w[i] \in Msgs BY ElementOfSeq, <1>1
  <2>2. a + 1 \in Int /\ n \in Int BY <1>1
  <2> QED BY <2>1, <2>2, SubSeqProperties
<1>5. Append(SubSeq(w, a + 1, n), m) = SubSeq(w, a + 1, n) \o <<m>>
  BY <1>4, AppendIsConcat
<1> QED BY <1>1, <1>2, <1>3, <1>5

\* A message goes to the last slice, a new one or not, and the oldest slices
\* may go.
LEMMA PiecesAppend ==
  ASSUME NEW d, DOMAIN d \in SUBSET Names, NEW w \in Seq(Msgs), Pieces(d, w),
         NEW m \in Msgs, NEW f, Latest(DOMAIN d \cup {f}, f), f \in Names,
         NEW fs \in SUBSET (DOMAIN d \cup {f}), f \in fs,
         \A g \in fs, h \in DOMAIN d \cup {f} : Before(g, h) => h \in fs,
         NEW e,
         e = [g \in fs |-> IF g = f THEN Append(IF f \in DOMAIN d THEN d[f] ELSE <<>>, m)
                           ELSE d[g]]
  PROVE  Pieces(e, Append(w, m))
<1> DEFINE D == DOMAIN d
           n == Len(w)
           v == Append(w, m)
<1>1. PICK lo \in [D -> Nat], hi \in [D -> Nat] : Cut(d, w, lo, hi)
  BY DEF Pieces
<1>2. n \in Nat /\ v \in Seq(Msgs) /\ Len(v) = n + 1 BY AppendProperties
<1>3. /\ \A g \in D : /\ lo[g] \in Nat /\ hi[g] \in Nat /\ lo[g] <= hi[g] /\ hi[g] <= n
                      /\ d[g] = SubSeq(w, lo[g] + 1, hi[g])
      /\ \A g, h \in D : Adjacent(D, g, h) => hi[g] = lo[h]
      /\ \A g \in D : Latest(D, g) => hi[g] = n /\ lo[g] < hi[g]
  BY <1>1 DEF Cut
<1> DEFINE lo2 == [g \in fs |-> IF g = f /\ f \notin D THEN n ELSE lo[g]]
           hi2 == [g \in fs |-> IF g = f THEN n + 1 ELSE hi[g]]
<1>4. DOMAIN e = fs OBVIOUS
<1>5. \A g \in fs : g # f => g \in D /\ Before(g, f) BY DEF Latest
<1>6. lo2 \in [fs -> Nat] /\ hi2 \in [fs -> Nat] BY <1>2, <1>3, <1>5
<1>7. f \in D => Latest(D, f) /\ hi[f] = n BY <1>3 DEF Latest
<1>8. ASSUME NEW g \in fs
      PROVE  /\ lo2[g] <= hi2[g] /\ hi2[g] <= Len(v)
             /\ e[g] = SubSeq(v, lo2[g] + 1, hi2[g])
  <2>1. CASE g # f
    <3>1. lo2[g] = lo[g] /\ hi2[g] = hi[g] /\ e[g] = d[g] /\ g \in D BY <1>5, <2>1
    <3>2. SubSeq(v, lo[g] + 1, hi[g]) = SubSeq(w, lo[g] + 1, hi[g])
      BY <1>3, <3>1, SubSeqOfAppend
    <3>3. hi[g] <= Len(v) /\ lo[g] <= hi[g] BY <1>2, <1>3, <3>1
    <3> QED BY <1>3, <3>1, <3>2, <3>3
  <2>2. CASE g = f /\ f \in D
    <3>1. lo2[g] = lo[f] /\ hi2[g] = n + 1 /\ e[g] = Append(d[f], m) BY <2>2
    <3>2. lo[f] \in Nat /\ lo[f] <= n /\ d[f] = SubSeq(w, lo[f] + 1, n)
      BY <1>3, <1>7, <2>2
    <3>3. SubSeq(v, lo[f] + 1, n + 1) = Append(SubSeq(w, lo[f] + 1, n), m)
      BY <3>2, SubSeqAppended
    <3>4. lo[f] <= n + 1 /\ n + 1 <= Len(v) BY <1>2, <3>2
    <3> QED BY <3>1, <3>2, <3>3, <3>4
  <2>3. CASE g = f /\ f \notin D
    <3>1. lo2[g] = n /\ hi2[g] = n + 1 /\ e[g] = Append(<<>>, m) BY <2>3
    <3>2. SubSeq(v, n + 1, n + 1) = Append(SubSeq(w, n + 1, n), m)
      BY <1>2, SubSeqAppended
    <3>3. SubSeq(w, n + 1, n) = <<>>
      <4>1. n + 1 \in Int /\ n \in Int /\ n < n + 1 BY <1>2
      <4> QED BY <4>1, SubSeqEmpty
    <3>4. n <= n + 1 /\ n + 1 <= Len(v) BY <1>2
    <3>5. e[g] = SubSeq(v, n + 1, n + 1) BY <3>1, <3>2, <3>3
    <3> HIDE DEF lo2, hi2, v
    <3> QED BY <3>1, <3>4, <3>5
  <2> QED BY <2>1, <2>2, <2>3
<1>9. ASSUME NEW g \in fs, NEW h \in fs, Adjacent(fs, g, h)
      PROVE  hi2[g] = lo2[h]
  <2>1. g # f
    <3> SUFFICES ASSUME g = f PROVE FALSE OBVIOUS
    <3>1. h = f \/ Before(h, f) BY DEF Latest
    <3>2. Before(f, h) BY <1>9 DEF Adjacent
    <3>3. f \in Names /\ h \in Names OBVIOUS
    <3> QED BY <3>1, <3>2, <3>3, BeforeOrders
  <2>2. g \in D /\ Before(g, f) /\ hi2[g] = hi[g] BY <1>5, <2>1
  <2>3. CASE h \in D
    <3>1. \A x \in D : ~(Before(g, x) /\ Before(x, h))
      BY <1>9 DEF Adjacent
    <3>2. Adjacent(D, g, h) BY <1>9, <3>1 DEF Adjacent
    <3>3. lo2[h] = lo[h] BY <2>3
    <3> QED BY <1>3, <2>2, <2>3, <3>2, <3>3
  <2>4. CASE h \notin D
    <3>1. h = f /\ lo2[h] = n BY <1>5, <2>4
    <3>2. \A x \in D : x = g \/ Before(x, g)
      <4> TAKE x \in D
      <4>1. x \in Names /\ g \in Names BY <2>2
      <4>2. Before(x, f) BY <2>4, <3>1 DEF Latest
      <4>3. CASE Before(g, x)
        <5>1. x \in fs BY <4>3
        <5> QED BY <1>9, <3>1, <4>2, <4>3, <5>1 DEF Adjacent
      <4> QED BY <4>1, <4>3, BeforeOrders
    <3>3. Latest(D, g) BY <2>2, <3>2 DEF Latest
    <3> QED BY <1>3, <2>2, <3>1, <3>3
  <2> QED BY <2>3, <2>4
<1>10. ASSUME NEW g \in fs, Latest(fs, g)
       PROVE  hi2[g] = Len(v) /\ lo2[g] < hi2[g]
  <2>1. g = f
    <3>1. f = g \/ Before(f, g) BY <1>10 DEF Latest
    <3>2. g = f \/ Before(g, f) BY <1>5
    <3>3. f \in Names /\ g \in Names OBVIOUS
    <3> QED BY <3>1, <3>2, <3>3, BeforeOrders
  <2>2. hi2[g] = n + 1 BY <2>1
  <2>3. lo2[g] \in Nat /\ lo2[g] <= n
    <3>1. CASE f \in D
      <4>1. lo2[g] = lo[f] BY <2>1, <3>1
      <4> QED BY <1>3, <1>7, <3>1, <4>1
    <3>2. CASE f \notin D
      <4>1. lo2[g] = n BY <2>1, <3>2
      <4> QED BY <1>2, <4>1
    <3> QED BY <3>1, <3>2
  <2> QED BY <1>2, <2>2, <2>3
<1> HIDE DEF lo2, hi2, v
<1>11. Cut(e, v, lo2, hi2) BY <1>4, <1>8, <1>9, <1>10 DEF Cut
<1>12. \E a, b \in [DOMAIN e -> Nat] : Cut(e, v, a, b) BY <1>4, <1>6, <1>11
<1> QED BY <1>12 DEF Pieces, v

\* Flattened in the order of their names, the slices are the end of what was
\* written.
LEMMA Flattened ==
  ASSUME NEW w \in Seq(Msgs), DOMAIN disk \in SUBSET Names,
         IsFiniteSet(DOMAIN disk), DOMAIN disk # {}, Pieces(disk, w)
  PROVE  \E a \in Nat : a < Len(w) /\ OnDisk = SubSeq(w, a + 1, Len(w))
<1> DEFINE D == DOMAIN disk
           n == Cardinality(D)
           names == CHOOSE s \in [1..n -> D] :
                      \A i, j \in DOMAIN s : i < j => Before(s[i], s[j])
           parts == [i \in DOMAIN names |-> disk[names[i]]]
<1>1. names \in [1..n -> D] /\ Increasing(names)
  <2>1. \E s \in [1..n -> D] : \A i, j \in DOMAIN s : i < j => Before(s[i], s[j])
    BY ListingExists DEF Increasing
  <2> QED BY <2>1 DEF Increasing
<1>2. OnDisk = FlattenSeq(parts) BY DEF OnDisk
<1> HIDE DEF names
<1>3. n \in Nat /\ n > 0
  <2>1. n \in Nat /\ (n = 0 <=> D = {}) BY FS_CardinalityType, FS_EmptySet
  <2> QED BY <2>1
<1>4. PICK lo \in [D -> Nat], hi \in [D -> Nat] : Cut(disk, w, lo, hi)
  BY DEF Pieces
<1>5. /\ \A g \in D : /\ lo[g] \in Nat /\ hi[g] \in Nat /\ lo[g] <= hi[g] /\ hi[g] <= Len(w)
                      /\ disk[g] = SubSeq(w, lo[g] + 1, hi[g])
      /\ \A g, h \in D : Adjacent(D, g, h) => hi[g] = lo[h]
      /\ \A g \in D : Latest(D, g) => hi[g] = Len(w) /\ lo[g] < hi[g]
  BY <1>4 DEF Cut
<1> HIDE DEF D, n
<1>6. D \in SUBSET Names /\ IsFiniteSet(D) /\ n = Cardinality(D) BY DEF D, n
<1>7. \A g \in D : \E i \in 1..n : names[i] = g
  BY <1>1, <1>6, ListingIsOnto
<1>8. \A i \in 1..n : names[i] \in D /\ names[i] \in Names BY <1>1, <1>6
<1>9. \A i, j \in 1..n : i < j => Before(names[i], names[j])
  BY <1>1 DEF Increasing
<1>10. \A i \in 1..n, j \in 1..n : j = i + 1 => hi[names[i]] = lo[names[j]]
  <2> SUFFICES ASSUME NEW i \in 1..n, NEW j \in 1..n, j = i + 1
               PROVE  Adjacent(D, names[i], names[j])
    BY <1>5, <1>8
  <2>1. Before(names[i], names[j])
    <3>1. i < j OBVIOUS
    <3> QED BY <1>9, <3>1
  <2>2. ASSUME NEW h \in D, Before(names[i], h), Before(h, names[j]) PROVE FALSE
    <3>1. PICK k \in 1..n : names[k] = h BY <1>7
    <3>2. k = i \/ k < i \/ k = j \/ j < k BY <1>3
    <3>3. CASE k < i
      BY <1>8, <1>9, <2>2, <3>1, <3>3, BeforeOrders
    <3>4. CASE j < k
      BY <1>8, <1>9, <2>2, <3>1, <3>4, BeforeOrders
    <3>5. CASE k = i \/ k = j BY <1>8, <2>2, <3>1, <3>5, BeforeOrders
    <3> QED BY <3>2, <3>3, <3>4, <3>5
  <2> QED BY <2>1, <2>2 DEF Adjacent
<1>11. Latest(D, names[n])
  <2>1. ASSUME NEW g \in D PROVE g = names[n] \/ Before(g, names[n])
    <3>1. PICK k \in 1..n : names[k] = g BY <1>7
    <3>2. k = n \/ k < n BY <1>3
    <3>3. n \in 1..n BY <1>3
    <3> QED BY <1>9, <3>1, <3>2, <3>3
  <2>2. n \in 1..n BY <1>3
  <2> QED BY <1>8, <2>1, <2>2 DEF Latest
<1> DEFINE a == lo[names[1]]
           flat == [i \in 1..n |-> SubSeq(w, a + 1, hi[names[i]])]
           Rec(f) == f = [i \in 1..n |-> IF i = 1 THEN parts[i] ELSE f[i - 1] \o parts[i]]
<1>12. \A i \in 1..n : parts[i] = disk[names[i]] /\ DOMAIN names = 1..n BY <1>1
<1>13. 1 \in 1..n /\ n \in 1..n BY <1>3
<1>14. a \in Nat BY <1>5, <1>8, <1>13
<1>15. \A i \in 1..n : a <= hi[names[i]]
  <2> DEFINE bad == {i \in 1..n : ~(a <= hi[names[i]])}
  <2>1. SUFFICES ASSUME bad # {} PROVE FALSE OBVIOUS
  <2>2. bad \in SUBSET Nat BY <1>3
  <2> HIDE DEF bad
  <2>3. PICK i \in bad : \A j \in bad : i <= j BY <2>1, <2>2, LeastNatural
  <2>4. i \in 1..n /\ ~(a <= hi[names[i]]) BY <2>3 DEF bad
  <2>5. names[i] \in D /\ names[1] \in D BY <1>8, <1>13, <2>4
  <2>6. CASE i = 1 BY <1>5, <2>4, <2>5, <2>6
  <2>7. CASE i # 1
    <3>1. i - 1 \in 1..n /\ i = (i - 1) + 1 /\ ~(i <= i - 1) BY <1>3, <2>4, <2>7
    <3>2. i - 1 \notin bad BY <2>3, <3>1
    <3>3. a <= hi[names[i - 1]] BY <3>1, <3>2 DEF bad
    <3>4. hi[names[i - 1]] = lo[names[i]] BY <1>10, <2>4, <3>1
    <3>5. a <= lo[names[i]] BY <3>3, <3>4
    <3>6. lo[names[i]] <= hi[names[i]] /\ lo[names[i]] \in Nat /\ hi[names[i]] \in Nat
      BY <1>5, <2>5
    <3> HIDE DEF a
    <3> QED BY <1>14, <2>4, <3>5, <3>6
  <2> QED BY <2>6, <2>7
<1>16. ASSUME NEW i \in 1..n, i # 1
       PROVE  SubSeq(w, a + 1, hi[names[i - 1]]) \o parts[i] = SubSeq(w, a + 1, hi[names[i]])
  <2>1. i - 1 \in 1..n /\ i = (i - 1) + 1 BY <1>3, <1>16
  <2>2. hi[names[i - 1]] = lo[names[i]] BY <1>10, <2>1
  <2>3. parts[i] = SubSeq(w, lo[names[i]] + 1, hi[names[i]]) BY <1>5, <1>8, <1>12
  <2>4. a <= lo[names[i]] BY <1>15, <2>1, <2>2
  <2>5. /\ lo[names[i]] \in Nat /\ hi[names[i]] \in Nat /\ hi[names[i]] <= Len(w)
        /\ lo[names[i]] <= hi[names[i]]
    BY <1>5, <1>8
  <2> HIDE DEF a, parts
  <2>6. /\ a + 1 \in 1..(Len(w) + 1) /\ lo[names[i]] \in ((a + 1) - 1)..Len(w)
        /\ hi[names[i]] \in lo[names[i]]..Len(w)
    <3>1. Len(w) \in Nat OBVIOUS
    <3> QED BY <1>14, <2>4, <2>5, <3>1
  <2> QED BY <2>2, <2>3, <2>6, ConcatAdjacentSubSeq
<1>17. parts[1] = SubSeq(w, a + 1, hi[names[1]])
  BY <1>5, <1>8, <1>12, <1>13
<1>18. Rec(flat)
  <2>1. \A i \in 1..n : i # 1 => i - 1 \in 1..n BY <1>3
  <2>2. \A i \in 1..n : flat[i] = IF i = 1 THEN parts[i] ELSE flat[i - 1] \o parts[i]
    <3> HIDE DEF parts, a
    <3> QED BY <1>16, <1>17, <2>1
  <2>3. flat = [i \in 1..n |-> IF i = 1 THEN parts[i] ELSE flat[i - 1] \o parts[i]]
    <3>1. flat = [i \in 1..n |-> flat[i]] OBVIOUS
    <3> HIDE DEF flat, parts
    <3> QED BY <2>2, <3>1
  <2> QED BY <2>3
<1>19. ASSUME NEW f, Rec(f) PROVE f[n] = SubSeq(w, a + 1, hi[names[n]])
  <2> DEFINE bad == {i \in 1..n : f[i] # SubSeq(w, a + 1, hi[names[i]])}
  <2>1. SUFFICES ASSUME bad # {} PROVE FALSE BY <1>13
  <2>2. bad \in SUBSET Nat BY <1>3
  <2> HIDE DEF bad
  <2>3. PICK i \in bad : \A j \in bad : i <= j BY <2>1, <2>2, LeastNatural
  <2>4. i \in 1..n /\ f[i] # SubSeq(w, a + 1, hi[names[i]]) BY <2>3 DEF bad
  <2>5. f[i] = IF i = 1 THEN parts[i] ELSE f[i - 1] \o parts[i]
    <3> HIDE DEF parts
    <3> QED BY <1>19, <2>4
  <2>6. CASE i = 1
    <3> HIDE DEF parts, a
    <3> QED BY <1>17, <2>4, <2>5, <2>6
  <2>7. CASE i # 1
    <3>1. i - 1 \in 1..n /\ ~(i <= i - 1) BY <1>3, <2>4, <2>7
    <3>2. f[i - 1] = SubSeq(w, a + 1, hi[names[i - 1]]) BY <2>3, <3>1 DEF bad
    <3> HIDE DEF parts, a
    <3> QED BY <1>16, <2>4, <2>5, <2>7, <3>2
  <2> QED BY <2>6, <2>7
<1>20. Len(parts) = n
  <2>1. parts = [i \in 1..n |-> disk[names[i]]] BY <1>1
  <2>2. Len([i \in 1..n |-> disk[names[i]]]) = n BY <1>3
  <2> QED BY <2>1, <2>2
<1>21. FlattenSeq(parts) = (CHOOSE f : Rec(f))[n]
  <2> HIDE DEF parts
  <2> QED BY <1>3, <1>20 DEF FlattenSeq
<1>22. Rec(CHOOSE f : Rec(f))
  <2>1. \E f : Rec(f) BY <1>18
  <2> HIDE DEF Rec
  <2> QED BY <2>1
<1>23. FlattenSeq(parts) = SubSeq(w, a + 1, Len(w))
  <2>1. hi[names[n]] = Len(w) BY <1>5, <1>11 DEF Latest
  <2> HIDE DEF Rec, parts, a
  <2> QED BY <1>19, <1>21, <1>22, <2>1
<1>24. a < Len(w)
  <2>1. hi[names[n]] = Len(w) /\ lo[names[n]] < hi[names[n]] BY <1>5, <1>8, <1>11, <1>13
  <2>2. lo[names[n]] >= a
    <3>1. CASE n = 1 BY <1>5, <1>8, <1>13, <3>1
    <3>2. CASE n # 1
      <4>1. n - 1 \in 1..n /\ n = (n - 1) + 1 BY <1>3, <3>2
      <4>2. hi[names[n - 1]] = lo[names[n]] /\ a <= hi[names[n - 1]]
        BY <1>10, <1>13, <1>15, <4>1
      <4> HIDE DEF a
      <4> QED BY <4>2
    <3> QED BY <3>1, <3>2
  <2>3. lo[names[n]] \in Nat /\ Len(w) \in Nat BY <1>5, <1>8, <1>13
  <2> HIDE DEF a
  <2> QED BY <1>14, <2>1, <2>2, <2>3
<1> HIDE DEF a, parts
<1> QED BY <1>2, <1>14, <1>23, <1>24

-----------------------------------------------------------------------------
(* The inductive invariant of NoGaps: while no two days were mixed, a message
   goes to the last slice. *)

\* What is not written yet.
Queue == batch \o pending

\* The slices hold the end of what was written.
Slices == /\ IsFiniteSet(DOMAIN disk) /\ DOMAIN disk # {}
          /\ Cardinality(DOMAIN disk) <= MaxCount
          /\ Pieces(disk, written)

\* No slice and no message is of a day to come.
Past == /\ \A f \in DOMAIN disk : f[1] <= today
        /\ \A a \in Actors : at[a] = "made" => ctx[a].day <= today
        /\ \A i \in DOMAIN Queue : Queue[i].day <= today

Rising == \A i, j \in DOMAIN Queue : i < j => Queue[i].day <= Queue[j].day

\* Before the first message: a slice of the day it may have is the last one.
Follows(d) == \A f \in DOMAIN disk : f[1] < d \/ (f[1] = d /\ f[2] <= index)

First == day = -1 => /\ Follows(today)
                     /\ \A a \in Actors : at[a] = "made" => Follows(ctx[a].day)
                     /\ \A i \in DOMAIN Queue : Follows(Queue[i].day)

\* And after it: the open slice is the last, and of a day no later one precedes.
Opened == day # -1 =>
  /\ Latest(DOMAIN disk, path) /\ path[1] = day /\ index = path[2] + 1
  /\ \A i \in DOMAIN Queue : Queue[i].day >= day
  /\ async # "gone" => \E i \in DOMAIN accepted : accepted[i].day = day

Down == async = "gone" => \A a \in Actors : at[a] # "made"

Unmixed == ~mixed => Slices /\ Past /\ Rising /\ First /\ Opened /\ Down

LEMMA QueueType ==
  ASSUME IInv
  PROVE  /\ Queue \in Seq(Msgs) /\ DOMAIN Queue = 1..Len(Queue) /\ written \in Seq(Msgs)
         /\ accepted \in Seq(Msgs)
         /\ DOMAIN disk \in SUBSET Names
         /\ \A i \in DOMAIN Queue : \E k \in DOMAIN accepted : accepted[k] = Queue[i]
<1>1. batch \in Seq(Msgs) /\ pending \in Seq(Msgs) BY DEF IInv, TypeOK
<1>2. Queue \in Seq(Msgs) BY <1>1, ConcatProperties DEF Queue
<1>3. PICK earlier, done \in Seq(Msgs) : written = earlier \o done /\ accepted = done \o Queue
  BY DEF IInv, Ledger, Queue
<1>4. /\ written \in Seq(Msgs) /\ accepted \in Seq(Msgs)
      /\ Len(accepted) = Len(done) + Len(Queue)
      /\ \A i \in 1..Len(done) + Len(Queue) :
           accepted[i] = IF i <= Len(done) THEN done[i] ELSE Queue[i - Len(done)]
  BY <1>2, <1>3, ConcatProperties
<1>5. \A i \in DOMAIN Queue : \E k \in DOMAIN accepted : accepted[k] = Queue[i]
  <2> TAKE i \in DOMAIN Queue
  <2>1. i \in 1..Len(Queue) /\ Len(Queue) \in Nat /\ Len(done) \in Nat BY <1>2
  <2>2. i + Len(done) \in 1..(Len(done) + Len(Queue)) /\ ~(i + Len(done) <= Len(done))
        /\ (i + Len(done)) - Len(done) = i
    BY <2>1
  <2>3. accepted[i + Len(done)] = Queue[i] BY <1>4, <2>2
  <2>4. i + Len(done) \in DOMAIN accepted BY <1>4, <2>2
  <2> QED BY <2>3, <2>4
<1>6. DOMAIN disk \in SUBSET Names BY DEF IInv, TypeOK, Names
<1> QED BY <1>2, <1>4, <1>5, <1>6

\* A step that leaves the messages and the slices alone.
LEMMA QuietOrder ==
  ASSUME Unmixed, UNCHANGED <<today, files, accepted, written, mixed>>, Queue' = Queue,
         \A a \in Actors : at'[a] = "made" => at[a] = "made" /\ ctx'[a] = ctx[a],
         async = "gone" => async' = "gone",
         async' = "gone" => Down'
  PROVE  Unmixed'
<1> SUFFICES ASSUME ~mixed PROVE Slices' /\ Past' /\ Rising' /\ First' /\ Opened' /\ Down'
  BY DEF Unmixed
<1>1. Slices /\ Past /\ Rising /\ First /\ Opened /\ Down BY DEF Unmixed
<1>2. UNCHANGED <<disk, path, day, index, today, accepted, written>> BY DEF files
<1>3. Slices' BY <1>1, <1>2 DEF Slices
<1>4. Past' BY <1>1, <1>2 DEF Past
<1>5. Rising' BY <1>1 DEF Rising
<1>6. First' BY <1>1, <1>2 DEF First, Follows
<1>7. Opened' BY <1>1, <1>2 DEF Opened
<1>8. Down' BY DEF Down
<1> QED BY <1>3, <1>4, <1>5, <1>6, <1>7, <1>8

LEMMA MakeOrder ==
  ASSUME IInv, Unmixed, NEW a \in Actors, Make(a)
  PROVE  Unmixed'
<1> SUFFICES ASSUME ~mixed PROVE Slices' /\ Past' /\ Rising' /\ First' /\ Opened' /\ Down'
  BY DEF Unmixed, Make
<1>1. Slices /\ Past /\ Rising /\ First /\ Opened /\ Down BY DEF Unmixed
<1>2. /\ UNCHANGED <<disk, path, day, index, today, accepted, written, async>>
      /\ async # "gone" /\ Queue' = Queue
  BY DEF Make, files, Moves, Running, Queue
<1>3. /\ ctx'[a].day = today
      /\ \A b \in Actors \ {a} : at'[b] = at[b] /\ ctx'[b] = ctx[b]
  BY DEF Make, Step, IInv, TypeOK
<1>4. Slices' BY <1>1, <1>2 DEF Slices
<1>5. today \in Nat BY LogFilesAssumption DEF IInv, TypeOK
<1>6. Past' BY <1>1, <1>2, <1>3, <1>5 DEF Past
<1>7. Rising' BY <1>1, <1>2 DEF Rising
<1>8. \A b \in Actors : ctx'[b].day = today \/ (b # a /\ at'[b] = at[b] /\ ctx'[b] = ctx[b])
  BY <1>3
<1>9. \A x : Follows(x)' <=> Follows(x)
  BY <1>2 DEF Follows
<1>10. First' BY <1>1, <1>2, <1>8 DEF First, Follows
<1>11. Opened' BY <1>1, <1>2 DEF Opened
<1>12. Down' BY <1>2 DEF Down
<1> QED BY <1>4, <1>6, <1>7, <1>10, <1>11, <1>12

LEMMA LockOrder ==
  ASSUME IInv, Unmixed, NEW a \in Actors, Lock(a)
  PROVE  Unmixed'
<1> DEFINE m == ctx[a]
<1> SUFFICES ASSUME ~mixed' PROVE Slices' /\ Past' /\ Rising' /\ First' /\ Opened' /\ Down'
  BY DEF Unmixed
<1>1. ~mixed /\ \A i \in DOMAIN accepted : ~(accepted[i].day > m.day) BY DEF Lock
<1>2. Slices /\ Past /\ Rising /\ First /\ Opened /\ Down BY <1>1 DEF Unmixed
<1>3. /\ UNCHANGED <<disk, path, day, index, today, written, async>> /\ async # "gone"
      /\ pending' = Append(pending, m) /\ batch' = batch /\ accepted' = Append(accepted, m)
      /\ at[a] = "made"
      /\ \A b \in Actors : at'[b] = "made" => at[b] = "made" /\ ctx'[b] = ctx[b]
  <2>1. at'[a] = "locked" /\ \A b \in Actors \ {a} : ctx'[b] = ctx[b] /\ at'[b] = at[b]
    BY DEF Lock, Step, IInv, TypeOK
  <2> QED BY <2>1 DEF Lock, files, Moves, Running
<1>4. /\ m \in Msgs /\ pending \in Seq(Msgs) /\ batch \in Seq(Msgs)
  BY DEF IInv, TypeOK
<1> HIDE DEF m
<1>5. Queue \in Seq(Msgs) /\ accepted \in Seq(Msgs) BY QueueType
<1>6. Queue' = Append(Queue, m)
  <2>1. <<m>> \in Seq(Msgs) BY <1>4
  <2>2. pending' = pending \o <<m>> BY <1>3, <1>4, AppendIsConcat
  <2>3. batch \o (pending \o <<m>>) = (batch \o pending) \o <<m>>
    BY <1>4, <2>1, ConcatAssociative
  <2>4. Append(Queue, m) = Queue \o <<m>> BY <1>4, <1>5, AppendIsConcat
  <2> QED BY <1>3, <2>2, <2>3, <2>4 DEF Queue
<1>7. \A i \in DOMAIN Queue' : \/ i \in DOMAIN Queue /\ Queue'[i] = Queue[i]
                               \/ i = Len(Queue) + 1 /\ Queue'[i] = m
  BY <1>4, <1>5, <1>6
<1>8. \A i \in DOMAIN Queue : /\ i \in 1..Len(Queue) /\ Queue[i] \in Msgs
                              /\ Queue[i].day <= m.day
  <2> TAKE i \in DOMAIN Queue
  <2>1. PICK k \in DOMAIN accepted : accepted[k] = Queue[i] BY QueueType
  <2>2. Queue[i] \in Msgs /\ i \in 1..Len(Queue) BY <1>5
  <2>3. Queue[i].day \in Nat /\ m.day \in Nat BY <1>4, <2>2, LogFilesAssumption DEF Msgs
  <2> QED BY <1>1, <2>1, <2>2, <2>3
<1>9. Slices' BY <1>2, <1>3 DEF Slices
<1>10. Past'
  <2>1. m.day <= today BY <1>2, <1>3 DEF Past, m
  <2> QED BY <1>2, <1>3, <1>7, <2>1 DEF Past
<1>11. Rising'
  <2> SUFFICES ASSUME NEW i \in DOMAIN Queue', NEW j \in DOMAIN Queue', i < j
               PROVE  Queue'[i].day <= Queue'[j].day
    BY DEF Rising
  <2>1. i \in DOMAIN Queue /\ Queue'[i] = Queue[i]
    <3>1. j <= Len(Queue) + 1 /\ j \in Nat /\ i \in Nat /\ Len(Queue) \in Nat
      BY <1>4, <1>5, <1>6
    <3>2. i # Len(Queue) + 1 BY <3>1
    <3> QED BY <1>7, <3>2
  <2>2. CASE j \in DOMAIN Queue /\ Queue'[j] = Queue[j]
    BY <1>2, <2>1, <2>2 DEF Rising
  <2>3. CASE Queue'[j] = m BY <1>8, <2>1, <2>3
  <2> QED BY <1>7, <2>2, <2>3
<1>12. First'
  <2> SUFFICES ASSUME day = -1
               PROVE  /\ Follows(today)'
                      /\ \A b \in Actors : at'[b] = "made" => Follows(ctx[b].day)'
                      /\ \A i \in DOMAIN Queue' : Follows(Queue[i].day)'
    BY <1>3 DEF First
  <2>1. Follows(m.day) BY <1>2, <1>3 DEF First, m
  <2>2. \A i \in DOMAIN Queue' : Follows(Queue'[i].day)
    BY <1>2, <1>7, <2>1 DEF First
  <2> QED BY <1>2, <1>3, <2>2 DEF First, Follows
<1>13. Opened'
  <2> SUFFICES ASSUME day # -1 PROVE Opened' BY <1>3 DEF Opened
  <2>1. PICK k \in DOMAIN accepted : accepted[k].day = day
    BY <1>2, <1>3 DEF Opened
  <2>2. k \in DOMAIN accepted' /\ accepted'[k] = accepted[k]
    BY <1>3, <1>4, <1>5
  <2>3. m.day >= day
    <3>1. accepted[k] \in Msgs BY <1>5
    <3>2. accepted[k].day \in Nat /\ m.day \in Nat BY <1>4, <3>1, LogFilesAssumption DEF Msgs
    <3> QED BY <1>1, <2>1, <3>2
  <2>4. \A i \in DOMAIN Queue' : Queue'[i].day >= day
    BY <1>2, <1>7, <2>3 DEF Opened
  <2> QED BY <1>2, <1>3, <2>1, <2>2, <2>4 DEF Opened
<1>14. Down' BY <1>3 DEF Down
<1> QED BY <1>9, <1>10, <1>11, <1>12, <1>13, <1>14

\* What a message leaves that went to the slice f, the last one.
Went(f, m) == /\ IsFiniteSet(DOMAIN disk') /\ DOMAIN disk' # {}
              /\ Cardinality(DOMAIN disk') <= MaxCount
              /\ Pieces(disk', Append(written, m))
              /\ DOMAIN disk' \subseteq DOMAIN disk \cup {f}
              /\ Latest(DOMAIN disk', f) /\ path' = f /\ index' = f[2] + 1
              /\ day' = m.day

LEMMA ChangeOrder ==
  ASSUME IInv, Slices, NEW m \in Msgs, NEW i \in Nat, m.day >= today - 1,
         Latest(DOMAIN disk \cup {<<m.day, i>>}, <<m.day, i>>),
         ChangeFile(m.day, i, m), day' = m.day
  PROVE  Went(<<m.day, i>>, m)
<1> DEFINE f == <<m.day, i>>
           S == DOMAIN disk \cup {f}
           fs == Kept(S, f)
<1>1. /\ disk' = [g \in fs |-> IF g = f THEN Append(IF f \in DOMAIN disk THEN disk[f] ELSE <<>>, m)
                               ELSE disk[g]]
      /\ path' = f /\ index' = i + 1
  BY DEF ChangeFile
<1>2. f \in Names /\ f[1] = m.day /\ f[2] = i BY DEF Msgs, Names
<1>3. DOMAIN disk \in SUBSET Names /\ written \in Seq(Msgs) BY QueueType
<1>4. S \in SUBSET Names /\ IsFiniteSet(S) BY <1>2, <1>3, FS_AddElement DEF Slices
<1>5. today \in Nat BY LogFilesAssumption DEF IInv, TypeOK
<1> HIDE DEF f
<1>6. Latest(S, f) BY DEF f
<1> HIDE DEF S
<1>7. /\ f \in fs /\ fs \subseteq S
      /\ \A g \in fs, h \in S : Before(g, h) => h \in fs
      /\ IsFiniteSet(fs) /\ Cardinality(fs) <= MaxCount
  BY <1>2, <1>4, <1>5, <1>6, KeptIsTheEnd
<1> HIDE DEF fs
<1>8. DOMAIN disk' = fs BY <1>1
<1>9. Pieces(disk', Append(written, m))
  <2>1. Pieces(disk, written) BY DEF Slices
  <2> HIDE DEF f, fs
  <2> QED BY <1>1, <1>2, <1>3, <1>6, <1>7, <2>1, PiecesAppend DEF S
<1>10. Latest(fs, f) BY <1>6, <1>7 DEF Latest
<1> QED BY <1>1, <1>2, <1>7, <1>8, <1>9, <1>10 DEF Went, f, S

LEMMA WriteOrder ==
  ASSUME IInv, Unmixed, WriteChannels
  PROVE  Unmixed'
<1> DEFINE m == Head(batch)
<1> SUFFICES ASSUME ~mixed PROVE Slices' /\ Past' /\ Rising' /\ First' /\ Opened' /\ Down'
  BY DEF Unmixed, WriteChannels
<1>1. Slices /\ Past /\ Rising /\ First /\ Opened /\ Down BY DEF Unmixed
<1>2. /\ async # "gone" /\ batch # <<>> /\ Write(m)
      /\ written' = Append(written, m) /\ batch' = Tail(batch)
      /\ UNCHANGED <<today, at, ctx, pending, async, accepted>>
  BY DEF WriteChannels
<1>3. batch \in Seq(Msgs) /\ pending \in Seq(Msgs) BY DEF IInv, TypeOK
<1>4. /\ m \in Msgs /\ Tail(batch) \in Seq(Msgs) /\ 1 \in DOMAIN batch /\ m = batch[1]
      /\ batch = <<m>> \o Tail(batch)
  BY <1>2, <1>3
<1>5. m.day >= today - 1 BY <1>4 DEF IInv, Recent
<1> HIDE DEF m
<1>6. /\ Queue \in Seq(Msgs) /\ DOMAIN disk \in SUBSET Names
      /\ \A i \in DOMAIN Queue : \E k \in DOMAIN accepted : accepted[k] = Queue[i]
  BY QueueType
<1>7. Queue' \in Seq(Msgs) /\ Queue = <<m>> \o Queue'
  <2>1. Queue' = Tail(batch) \o pending BY <1>2 DEF Queue
  <2>2. Queue' \in Seq(Msgs) BY <1>3, <1>4, <2>1, ConcatProperties
  <2>3. <<m>> \in Seq(Msgs) BY <1>4
  <2>4. (<<m>> \o Tail(batch)) \o pending = <<m>> \o (Tail(batch) \o pending)
    BY <1>3, <1>4, <2>3, ConcatAssociative
  <2> QED BY <1>4, <2>1, <2>2, <2>4 DEF Queue
<1>8. /\ 1 \in DOMAIN Queue /\ Queue[1] = m
      /\ \A i \in DOMAIN Queue' : /\ i \in Nat /\ i + 1 \in DOMAIN Queue /\ 1 < i + 1
                                  /\ Queue'[i] = Queue[i + 1]
  BY <1>4, <1>6, <1>7
<1>9. \A i \in DOMAIN Queue' : Queue'[i].day >= m.day
  <2> TAKE i \in DOMAIN Queue'
  <2>1. m.day <= Queue[i + 1].day BY <1>1, <1>8 DEF Rising
  <2>2. Queue[i + 1] \in Msgs BY <1>6, <1>8
  <2>3. m.day \in Nat /\ Queue[i + 1].day \in Nat BY <1>4, <2>2, LogFilesAssumption DEF Msgs
  <2> QED BY <1>8, <2>1, <2>3
<1>10. m.day <= today /\ m.day \in Nat /\ m.day # -1
  <2>1. m.day \in Nat BY <1>4, LogFilesAssumption DEF Msgs
  <2> QED BY <1>1, <1>8, <2>1 DEF Past
<1>11. index \in Nat /\ day \in -1..LastDay BY DEF IInv, TypeOK
<1>12. \A g \in DOMAIN disk : g[1] \in Nat /\ g[2] \in Nat /\ g = <<g[1], g[2]>>
  BY <1>6, LogFilesAssumption DEF Names
<1>13. PICK f \in Names : f[1] = m.day /\ Went(f, m)
  <2>1. CASE /\ m.day # day /\ day' = m.day
             /\ ChangeFile(m.day, IF day = -1 THEN index ELSE 0, m)
    <3> DEFINE i == IF day = -1 THEN index ELSE 0
    <3>1. i \in Nat BY <1>11
    <3>2. ASSUME NEW g \in DOMAIN disk PROVE g = <<m.day, i>> \/ Before(g, <<m.day, i>>)
      <4>1. CASE day = -1
        <5>1. g[1] < m.day \/ (g[1] = m.day /\ g[2] <= index)
          BY <1>1, <1>8, <4>1 DEF First, Follows
        <5> QED BY <1>11, <1>12, <4>1, <5>1 DEF Before
      <4>2. CASE day # -1
        <5>1. g = path \/ Before(g, path) BY <1>1, <4>2 DEF Opened, Latest
        <5>2. path \in DOMAIN disk /\ path[1] = day BY <1>1, <4>2 DEF Opened, Latest
        <5>3. g[1] <= day BY <1>11, <1>12, <5>1, <5>2 DEF Before
        <5>4. m.day >= day BY <1>1, <1>8, <4>2 DEF Opened
        <5>5. g[1] < m.day BY <1>10, <1>11, <1>12, <2>1, <5>3, <5>4
        <5> QED BY <5>5 DEF Before
      <4> QED BY <4>1, <4>2
    <3>3. Latest(DOMAIN disk \cup {<<m.day, i>>}, <<m.day, i>>) BY <3>2 DEF Latest
    <3>4. Went(<<m.day, i>>, m)
      <4> HIDE DEF i
      <4> QED BY <1>1, <1>4, <1>5, <2>1, <3>1, <3>3, ChangeOrder DEF i
    <3>5. <<m.day, i>> \in Names /\ <<m.day, i>>[1] = m.day
      BY <1>4, <3>1 DEF Msgs, Names
    <3> HIDE DEF i
    <3> QED BY <3>4, <3>5
  <2>2. CASE m.day = day /\ ChangeFile(m.day, index, m) /\ UNCHANGED day
    <3>1. /\ path \in DOMAIN disk /\ path[1] = m.day /\ index = path[2] + 1
          /\ \A g \in DOMAIN disk : g = path \/ Before(g, path)
      BY <1>1, <1>10, <2>2 DEF Opened, Latest
    <3>2. Latest(DOMAIN disk \cup {<<m.day, index>>}, <<m.day, index>>)
      <4>1. ASSUME NEW g \in DOMAIN disk PROVE Before(g, <<m.day, index>>)
        BY <1>10, <1>12, <3>1 DEF Before
      <4> QED BY <4>1 DEF Latest
    <3>3. day' = m.day BY <2>2
    <3>4. Went(<<m.day, index>>, m)
      BY <1>1, <1>4, <1>5, <1>11, <2>2, <3>2, <3>3, ChangeOrder
    <3>5. <<m.day, index>> \in Names /\ <<m.day, index>>[1] = m.day
      BY <1>4, <1>11 DEF Msgs, Names
    <3> QED BY <3>4, <3>5
  <2>3. CASE /\ m.day = day
             /\ disk' = [disk EXCEPT ![path] = Append(@, m)]
             /\ UNCHANGED <<path, day, index>>
    <3>1. Latest(DOMAIN disk, path) /\ path[1] = m.day /\ index = path[2] + 1
      BY <1>1, <1>10, <2>3 DEF Opened
    <3>2. path \in DOMAIN disk /\ path \in Names /\ DOMAIN disk \cup {path} = DOMAIN disk
      BY <1>6, <3>1 DEF Latest
    <3>3. disk' = [g \in DOMAIN disk |->
                     IF g = path THEN Append(IF path \in DOMAIN disk THEN disk[path] ELSE <<>>, m)
                     ELSE disk[g]]
      BY <2>3, <3>2
    <3>4. DOMAIN disk' = DOMAIN disk BY <3>3
    <3>5. written \in Seq(Msgs) BY QueueType
    <3>6. Pieces(disk, written) BY <1>1 DEF Slices
    <3>7. Pieces(disk', Append(written, m))
      <4>1. Latest(DOMAIN disk \cup {path}, path) BY <3>1, <3>2
      <4>2. DOMAIN disk \in SUBSET (DOMAIN disk \cup {path}) OBVIOUS
      <4>3. \A g \in DOMAIN disk, h \in DOMAIN disk \cup {path} : Before(g, h) => h \in DOMAIN disk
        BY <3>2
      <4> QED BY <1>4, <1>6, <3>2, <3>3, <3>5, <3>6, <4>1, <4>2, <4>3, PiecesAppend
    <3>8. Went(path, m)
      BY <1>1, <2>3, <3>1, <3>4, <3>7 DEF Went, Slices
    <3> QED BY <3>1, <3>2, <3>8
  <2> QED BY <1>2, <2>1, <2>2, <2>3 DEF Write
<1>14. Slices' BY <1>2, <1>13 DEF Went, Slices
<1>15. Past'
  <2>1. \A g \in DOMAIN disk' : g[1] <= today
    BY <1>1, <1>10, <1>13 DEF Went, Past
  <2> QED BY <1>1, <1>2, <1>8, <2>1 DEF Past
<1>16. Rising'
  <2> SUFFICES ASSUME NEW i \in DOMAIN Queue', NEW j \in DOMAIN Queue', i < j
               PROVE  Queue'[i].day <= Queue'[j].day
    BY DEF Rising
  <2>1. i + 1 < j + 1 BY <1>8
  <2> QED BY <1>1, <1>8, <2>1 DEF Rising
<1>17. First' BY <1>10, <1>13 DEF Went, First
<1>18. Opened'
  <2>1. Latest(DOMAIN disk', path') /\ path'[1] = day' /\ index' = path'[2] + 1 /\ day' = m.day
    BY <1>13 DEF Went
  <2>2. \E k \in DOMAIN accepted' : accepted'[k].day = day'
    BY <1>2, <1>6, <1>8, <2>1
  <2>3. \A i \in DOMAIN Queue' : Queue'[i].day >= day' BY <1>9, <2>1
  <2> QED BY <2>1, <2>2, <2>3 DEF Opened
<1>19. Down' BY <1>2 DEF Down
<1> QED BY <1>14, <1>15, <1>16, <1>17, <1>18, <1>19

\* Unlock, PostLock, Post, Exit.
LEMMA CallOrder ==
  ASSUME IInv, Unmixed, NEW a \in Actors, Unlock(a) \/ PostLock(a) \/ Post(a) \/ Exit(a)
  PROVE  Unmixed'
<1>1. PICK x \in Sites \ {"made"} : Step(a, x)
  BY DEF Unlock, PostLock, Post, Exit, Sites
<1>2. \A b \in Actors : at'[b] = "made" => at[b] = "made" BY <1>1, Stepped
<1>3. /\ UNCHANGED <<today, files, ctx, pending, batch, async, accepted, written, mixed>>
      /\ async # "gone"
  BY DEF Unlock, PostLock, Post, Exit, Moves, Running, history
<1>4. Queue' = Queue BY <1>3 DEF Queue
<1> QED BY <1>2, <1>3, <1>4, QuietOrder

LEMMA WriterOrder ==
  ASSUME IInv, Unmixed, Check \/ Wait \/ Flushed \/ Signal \/ Swap \/ Join \/ Exited
  PROVE  Unmixed'
<1>1. UNCHANGED <<today, files, accepted, written, mixed>>
  BY DEF Check, Wait, Flushed, Signal, Swap, Join, Exited, history
<1>2. Queue' = Queue
  <2>1. CASE Swap \/ Join
    <3>1. batch = <<>> /\ pending \in Seq(Msgs)
      BY <2>1 DEF Swap, Join, IInv, Places, TypeOK
    <3>2. batch' = pending /\ pending' = <<>> BY <2>1 DEF Swap, Join
    <3> QED BY <3>1, <3>2, ConcatEmptySeq DEF Queue
  <2>2. CASE Check \/ Wait \/ Flushed \/ Signal \/ Exited
    BY <2>2 DEF Check, Wait, Flushed, Signal, Exited, Queue
  <2> QED BY <2>1, <2>2
<1>3. CASE Exited
  <2>1. async' = "gone" /\ (\A a \in Actors : at'[a] = "run") /\ async # "gone"
    BY <1>3, Died DEF Exited
  <2>2. Down' BY <2>1 DEF Down
  <2>3. \A a \in Actors : at'[a] = "made" => at[a] = "made" /\ ctx'[a] = ctx[a]
    BY <2>1
  <2> QED BY <1>1, <1>2, <2>1, <2>2, <2>3, QuietOrder
<1>4. CASE Check \/ Wait \/ Flushed \/ Signal \/ Swap \/ Join
  <2>1. UNCHANGED <<at, ctx>> /\ (async' = "gone" <=> async = "gone")
    BY <1>4 DEF Check, Wait, Flushed, Signal, Swap, Join
  <2>2. \A a \in Actors : at'[a] = "made" => at[a] = "made" /\ ctx'[a] = ctx[a]
    BY <2>1
  <2>3. CASE async' = "gone" /\ ~mixed
    <3>1. Down BY <2>3 DEF Unmixed
    <3>2. Down' BY <2>1, <3>1 DEF Down
    <3> QED BY <1>1, <1>2, <2>1, <2>2, <3>2, QuietOrder
  <2>4. CASE async' # "gone" BY <1>1, <1>2, <2>1, <2>2, <2>4, QuietOrder
  <2>5. CASE mixed BY <1>1, <2>5 DEF Unmixed
  <2> QED BY <2>3, <2>4, <2>5
<1> QED BY <1>3, <1>4

LEMMA NoQueue == DOMAIN (<<>> \o <<>>) = {}
<1>1. <<>> \o <<>> = <<>> BY EmptySeq, ConcatEmptySeq
<1>2. DOMAIN <<>> = {} OBVIOUS
<1> QED BY <1>1, <1>2

LEMMA KilledOrder ==
  ASSUME IInv, Unmixed, Killed
  PROVE  Unmixed'
<1> SUFFICES ASSUME ~mixed PROVE Slices' /\ Past' /\ Rising' /\ First' /\ Opened' /\ Down'
  BY DEF Unmixed, Killed
<1>1. Slices /\ Past /\ Rising /\ First /\ Opened /\ Down BY DEF Unmixed
<1>2. /\ UNCHANGED <<today, disk, path, day, index, written>> /\ async' = "gone"
      /\ \A a \in Actors : at'[a] = "run"
      /\ batch' = <<>> /\ pending' = <<>>
  BY Died DEF Killed, files
<1>3. DOMAIN Queue' = {} BY <1>2, NoQueue DEF Queue
<1>4. Slices' BY <1>1, <1>2 DEF Slices
<1>5. Past' BY <1>1, <1>2, <1>3 DEF Past
<1>6. Rising' BY <1>3 DEF Rising
<1>7. First' BY <1>1, <1>2, <1>3 DEF First, Follows
<1>8. Opened' BY <1>1, <1>2, <1>3 DEF Opened
<1>9. Down' BY <1>2 DEF Down
<1> QED BY <1>4, <1>5, <1>6, <1>7, <1>8, <1>9

\* The constructor finds the largest index of the day.
LEMMA ScannedIsLast ==
  ASSUME FilesOK, Bounded, NEW f \in DOMAIN disk, f[1] = today
  PROVE  f[2] <= Scanned(disk)
<1> DEFINE now == {g[2] : g \in {h \in DOMAIN disk : h[1] = today}}
<1>1. PICK b \in Nat : \A g \in DOMAIN disk : g[2] <= b BY DEF Bounded
<1>2. now \in SUBSET (0..b) /\ f[2] \in now BY <1>1 DEF FilesOK
<1>3. Scanned(disk) = Max(now) BY <1>2 DEF Scanned
<1> HIDE DEF now
<1>4. Max(now) >= f[2]
  <2> DEFINE T == {b - y : y \in now}
  <2>1. T \in SUBSET Nat /\ T # {}
    <3>1. \A y \in now : y \in Nat /\ b - y \in Nat BY <1>2
    <3> QED BY <1>2, <3>1
  <2>2. PICK x \in T : \A y \in T : x <= y
    <3> HIDE DEF T
    <3> QED BY <2>1, LeastNatural
  <2>3. PICK n \in now : x = b - n OBVIOUS
  <2>4. \A y \in now : n >= y
    <3> TAKE y \in now
    <3>1. b - n <= b - y BY <2>2, <2>3
    <3>2. n \in 0..b /\ y \in 0..b BY <1>2
    <3> QED BY <3>1, <3>2
  <2>5. \E k \in now : \A y \in now : k >= y BY <2>4
  <2>6. \A y \in now : Max(now) >= y BY <2>5, Zenon DEF Max
  <2> QED BY <1>2, <2>6
<1>5. Max(now) \in now
  <2>1. now \in SUBSET Nat /\ now # {} /\ \A y \in now : y <= b BY <1>2
  <2> QED BY <2>1, BoundedMax
<1> QED BY <1>2, <1>3, <1>4, <1>5

LEMMA RestartOrder ==
  ASSUME IInv, Unmixed, Restart
  PROVE  Unmixed'
<1> SUFFICES ASSUME ~mixed PROVE Slices' /\ Past' /\ Rising' /\ First' /\ Opened' /\ Down'
  BY DEF Unmixed, Restart
<1>1. Slices /\ Past /\ Rising /\ First /\ Opened /\ Down BY DEF Unmixed
<1>2. /\ async = "gone" /\ async' = "check"
      /\ UNCHANGED <<today, at, ctx, pending, batch, written, disk>>
      /\ day' = -1 /\ index' = Scanned(disk)
  BY DEF Restart, Open, Running
<1>3. batch = <<>> /\ pending = <<>> BY <1>2 DEF IInv, Places
<1>4. DOMAIN Queue' = {} BY <1>2, <1>3, NoQueue DEF Queue
<1>5. \A a \in Actors : at'[a] # "made" BY <1>1, <1>2 DEF Down
<1>6. FilesOK /\ Bounded BY DEF IInv, TypeOK, FilesOK
<1>7. \A f \in DOMAIN disk : f[1] < today \/ (f[1] = today /\ f[2] <= Scanned(disk))
  <2> TAKE f \in DOMAIN disk
  <2>1. f[1] \in Nat /\ today \in Nat /\ f[1] <= today
    BY <1>1, <1>6, LogFilesAssumption DEF FilesOK, Past
  <2>2. f[1] = today => f[2] <= Scanned(disk) BY <1>6, ScannedIsLast
  <2> QED BY <2>1, <2>2
<1>8. Slices' BY <1>1, <1>2 DEF Slices
<1>9. Past' BY <1>1, <1>2, <1>4, <1>5 DEF Past
<1>10. Rising' BY <1>4 DEF Rising
<1>11. First' BY <1>2, <1>4, <1>5, <1>7 DEF First, Follows
<1>12. Opened' BY <1>2 DEF Opened
<1>13. Down' BY <1>2 DEF Down
<1> QED BY <1>8, <1>9, <1>10, <1>11, <1>12, <1>13

LEMMA MidnightOrder ==
  ASSUME IInv, Unmixed, Midnight
  PROVE  Unmixed'
<1> SUFFICES ASSUME ~mixed PROVE Slices' /\ Past' /\ Rising' /\ First' /\ Opened' /\ Down'
  BY DEF Unmixed, Midnight, history
<1>1. Slices /\ Past /\ Rising /\ First /\ Opened /\ Down BY DEF Unmixed
<1>2. /\ today' = today + 1 /\ Queue' = Queue
      /\ UNCHANGED <<at, ctx, async, disk, path, day, index, accepted, written>>
  BY DEF Midnight, files, process, history, Queue
<1>4. /\ today \in Nat /\ DOMAIN disk \in SUBSET Names
      /\ \A a \in Actors : ctx[a].day \in Nat
      /\ \A i \in DOMAIN Queue : Queue[i].day \in Nat
  <2>1. Queue \in Seq(Msgs) /\ DOMAIN disk \in SUBSET Names BY QueueType
  <2>2. \A x \in Msgs : x.day \in Nat BY LogFilesAssumption DEF Msgs
  <2>3. \A a \in Actors : ctx[a] \in Msgs BY DEF IInv, TypeOK
  <2> QED BY <2>1, <2>2, <2>3, LogFilesAssumption DEF IInv, TypeOK
<1>5. \A f \in DOMAIN disk : f[1] \in Nat /\ f[1] <= today
  BY <1>1, <1>4, LogFilesAssumption DEF Past, Names
<1>6. Slices' BY <1>1, <1>2 DEF Slices
<1>7. Past' BY <1>1, <1>2, <1>4, <1>5 DEF Past
<1>8. Rising' BY <1>1, <1>2 DEF Rising
<1>9. Follows(today)'
  BY <1>2, <1>4, <1>5 DEF Follows
<1>10. First' BY <1>1, <1>2, <1>9 DEF First, Follows
<1>11. Opened' BY <1>1, <1>2 DEF Opened
<1>12. Down' BY <1>1, <1>2 DEF Down
<1> QED BY <1>6, <1>7, <1>8, <1>10, <1>11, <1>12

LEMMA InitUnmixed == Init => Unmixed
<1> SUFFICES ASSUME Init PROVE Slices /\ Past /\ Rising /\ First /\ Opened /\ Down
  BY DEF Unmixed
<1> DEFINE f == <<0, 0>>
<1>1. /\ disk = [g \in {f} |-> <<NoMsg>>] /\ today = 1 /\ day = -1
      /\ (\A a \in Actors : at[a] = "run") /\ async = "check"
      /\ batch = <<>> /\ pending = <<>> /\ written = <<NoMsg>>
  BY DEF Init, InitFiles
<1>2. DOMAIN Queue = {} BY <1>1, NoQueue DEF Queue
<1>3. DOMAIN disk = {f} /\ f[1] = 0 BY <1>1
<1>4. IsFiniteSet({f}) /\ Cardinality({f}) = 1 BY FS_Singleton, Zenon
<1>5. MaxCount \in Nat \ {0} BY LogFilesAssumption
<1>6. Pieces(disk, written)
  <2> DEFINE lo == [g \in {f} |-> 0]
             hi == [g \in {f} |-> 1]
  <2>1. lo \in [DOMAIN disk -> Nat] /\ hi \in [DOMAIN disk -> Nat] BY <1>3
  <2>2. NoMsg \in Msgs BY LoggerAssumption, LogFilesAssumption DEF NoMsg, Msgs
  <2>3. <<NoMsg>> \in Seq(Msgs) /\ Len(<<NoMsg>>) = 1 BY <2>2
  <2>4. SubSeq(<<NoMsg>>, 1, 1) = <<NoMsg>> BY <2>3, SubSeqFull
  <2>5. ~Before(f, f) BY <1>3 DEF Before
  <2> HIDE DEF f
  <2>6. \A g \in DOMAIN disk : g = f /\ lo[g] = 0 /\ hi[g] = 1 /\ disk[g] = <<NoMsg>>
    BY <1>1, <1>3
  <2> HIDE DEF lo, hi
  <2>7. Cut(disk, written, lo, hi)
    BY <1>1, <2>3, <2>4, <2>5, <2>6 DEF Cut, Adjacent
  <2> QED BY <2>1, <2>7 DEF Pieces
<1>7. Slices BY <1>3, <1>4, <1>5, <1>6 DEF Slices
<1>8. Past /\ Rising /\ First /\ Opened /\ Down
  BY <1>1, <1>2, <1>3 DEF Past, Rising, First, Follows, Opened, Down
<1> QED BY <1>7, <1>8

LEMMA NextUnmixed == IInv /\ Unmixed /\ [Next]_vars => Unmixed'
<1> SUFFICES ASSUME IInv, Unmixed, [Next]_vars PROVE Unmixed' OBVIOUS
<1>1. CASE UNCHANGED vars
  <2>1. /\ UNCHANGED <<today, files, accepted, written, mixed, async, at, ctx>>
        /\ Queue' = Queue
    BY <1>1 DEF vars, process, history, Queue
  <2>2. ~mixed => Down' BY <2>1 DEF Unmixed, Down
  <2>3. CASE mixed BY <2>1, <2>3 DEF Unmixed
  <2>4. CASE ~mixed BY <2>1, <2>2, <2>4, QuietOrder
  <2> QED BY <2>3, <2>4
<1>2. ASSUME NEW a \in Actors, Act(a) PROVE Unmixed'
  BY <1>2, MakeOrder, LockOrder, CallOrder DEF Act
<1>3. CASE Writer BY <1>3, WriterOrder, WriteOrder DEF Writer
<1>4. CASE Signal \/ Killed \/ Restart \/ Midnight
  BY <1>4, WriterOrder, KilledOrder, RestartOrder, MidnightOrder
<1> QED BY <1>1, <1>2, <1>3, <1>4 DEF Next

LEMMA InvImpliesNoGaps == IInv /\ Unmixed => NoGaps
<1> SUFFICES ASSUME IInv, Unmixed, ~mixed
             PROVE  /\ IsSuffix(OnDisk, written)
                    /\ Len(written) > 0 => Len(OnDisk) > 0
                    /\ Cardinality(DOMAIN disk) <= MaxCount
  BY DEF NoGaps
<1>1. Slices BY DEF Unmixed
<1>2. written \in Seq(Msgs) /\ DOMAIN disk \in SUBSET Names BY QueueType
<1>3. PICK a \in Nat : a < Len(written) /\ OnDisk = SubSeq(written, a + 1, Len(written))
  BY <1>1, <1>2, Flattened DEF Slices
<1> DEFINE n == Len(written)
<1>4. n \in Nat BY <1>2
<1>5. SubSeq(written, 1, a) \o SubSeq(written, a + 1, n) = SubSeq(written, 1, n)
  <2>1. 1 \in 1..(n + 1) /\ a \in (1 - 1)..n /\ n \in a..n BY <1>3, <1>4
  <2> HIDE DEF n
  <2> QED BY <1>2, <2>1, ConcatAdjacentSubSeq DEF n
<1>6. SubSeq(written, 1, n) = written BY <1>2, SubSeqFull
<1>7. /\ SubSeq(written, 1, a) \in Seq(Msgs) /\ SubSeq(written, a + 1, n) \in Seq(Msgs)
      /\ Len(SubSeq(written, a + 1, n)) > 0
  <2>1. \A i \in 1..n : written[i] \in Msgs BY <1>2, ElementOfSeq
  <2>2. \A i \in 1..a : written[i] \in Msgs BY <1>3, <1>4, <2>1
  <2>3. \A i \in (a + 1)..n : written[i] \in Msgs BY <1>4, <2>1
  <2>4. SubSeq(written, 1, a) \in Seq(Msgs) BY <2>2, SubSeqProperties
  <2>5. a + 1 \in Int /\ n \in Int /\ a + 1 <= n /\ n - (a + 1) + 1 > 0 BY <1>3, <1>4
  <2>6. /\ SubSeq(written, a + 1, n) \in Seq(Msgs)
        /\ Len(SubSeq(written, a + 1, n)) = IF a + 1 <= n THEN n - (a + 1) + 1 ELSE 0
    BY <2>3, <2>5, SubSeqProperties
  <2> QED BY <2>4, <2>5, <2>6
<1>8. IsSuffix(OnDisk, written)
  <2>1. IsSuffix(SubSeq(written, a + 1, n), SubSeq(written, 1, a) \o SubSeq(written, a + 1, n))
    BY <1>7, SuffixOfConcat
  <2> QED BY <1>3, <1>5, <1>6, <2>1
<1> QED BY <1>1, <1>3, <1>7, <1>8 DEF Slices

\* The slices on disk, read by name, are the end of what was written: nothing
\* between two of them is missing, whatever day, size or restart began them,
\* and whatever FileChannel deleted (Logger.cpp).
THEOREM LoggerHasNoGaps == Spec => []NoGaps
<1>1. Init => IInv /\ Unmixed BY InitEstablishesIInv, InitUnmixed
<1>2. (IInv /\ Unmixed) /\ [Next]_vars => (IInv /\ Unmixed)'
  BY NextKeepsIInv, NextUnmixed
<1> QED BY <1>1, <1>2, InvImpliesNoGaps, PTL DEF Spec
===============================================================================
