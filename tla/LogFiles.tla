------------------------------- MODULE LogFiles -------------------------------
(***************************************************************************)
(* FileChannel: the log is kept in slices, files named after the day and   *)
(* an index.  A new day begins a new slice, and so does one that is full;  *)
(* slices that are too old or too many are deleted.  A process started     *)
(* again goes on in the latest slice of the day.                           *)
(***************************************************************************)
EXTENDS Naturals, Integers, Sequences, FiniteSets, SequencesExt, FiniteSetsExt

CONSTANTS
  MaxDay,     \* _log_max_day
  MaxSize,    \* the messages that exceed _log_max_size
  MaxCount,   \* _log_max_count
  LastDay     \* bound: the last day of the model

ASSUME LogFilesAssumption ==
  {MaxDay, MaxSize, MaxCount, LastDay} \subseteq Nat \ {0} /\ MaxDay > 1

VARIABLES
  today,      \* the day
  disk,       \* the files, <<day, index>>, and the messages in each
  path,       \* _path, the slice that is open
  day,        \* _last_day, -1 before the first message
  index       \* _index, that of the next slice

files == <<disk, path, day, index>>

\* The names sort like the numbers while a day has less than 100 slices ("%02d").
Before(f, g) == f[1] < g[1] \/ (f[1] = g[1] /\ f[2] < g[2])

NoPath == <<-1, -1>>

\* The constructor: _index is the largest of today's slices.
Scanned(d) == LET now == {f[2] : f \in {g \in DOMAIN d : g[1] = today}} IN
              IF now = {} THEN 0 ELSE Max(now)

\* Mutant of Open: the directory is not looked at.
Open_FromZero == /\ path' = NoPath /\ day' = -1 /\ index' = 0
                 /\ UNCHANGED disk

Open == /\ path' = NoPath /\ day' = -1 /\ index' = Scanned(disk)
        /\ UNCHANGED disk

\* A file of the day before, with a message, is there at first.
NoMsg == [n |-> 0, day |-> 0]
InitFiles == /\ today = 1 /\ disk = [f \in {<<0, 0>>} |-> <<NoMsg>>]
             /\ path = NoPath /\ day = -1 /\ index = 0

\* clean: first what expired, then the oldest while there are too many, but not
\* the file that is open nor what comes after it.
Kept(fs, open) ==
  LET fresh == {f \in fs : today < f[1] + MaxDay} IN
  {f \in fresh : \/ Cardinality({g \in fresh : ~Before(g, f)}) <= MaxCount
                 \/ open \in fresh /\ ~Before(f, open)}

\* changeFile, then the message goes to the file.
ChangeFile(d, i, m) ==
  LET f == <<d, i>>
      fs == Kept(DOMAIN disk \cup {f}, f)
      was == IF f \in DOMAIN disk THEN disk[f] ELSE <<>>
  IN /\ disk' = [g \in fs |-> IF g = f THEN Append(was, m) ELSE disk[g]]
     /\ path' = f /\ index' = i + 1

\* FileChannel::write: a message of another day than the last changes the file,
\* and so does a full slice, whose size is looked at once a minute.
Write(m) ==
  \/ /\ m.day # day
     /\ ChangeFile(m.day, IF day = -1 THEN index ELSE 0, m)
     /\ day' = m.day
  \/ /\ m.day = day /\ Len(disk[path]) >= MaxSize
     /\ ChangeFile(m.day, index, m)
     /\ UNCHANGED day
  \/ /\ m.day = day
     /\ disk' = [disk EXCEPT ![path] = Append(@, m)]
     /\ UNCHANGED <<path, day, index>>

\* What the directory holds, read in the order of the names.
OnDisk ==
  LET names == CHOOSE s \in [1..Cardinality(DOMAIN disk) -> DOMAIN disk] :
                 \A i, j \in DOMAIN s : i < j => Before(s[i], s[j])
  IN FlattenSeq([i \in DOMAIN names |-> disk[names[i]]])
===============================================================================
