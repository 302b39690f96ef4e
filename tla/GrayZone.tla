------------------------------- MODULE GrayZone -------------------------------
(***************************************************************************)
(* The gray zone of internal/actor: a circular buffer of uncertain events, *)
(* saved to a file by the autosave goroutine of the server and once more   *)
(* by Server.Shutdown, and read back by NewGrayZone.  SaveToFile copies    *)
(* the buffer under the lock and writes the file outside it, so the two    *)
(* savers interleave on the file; os.WriteFile truncates the file before   *)
(* it writes.                                                              *)
(*                                                                         *)
(* An event is its number, in the order of the Add calls, and its client.  *)
(***************************************************************************)
EXTENDS Naturals, Sequences

CONSTANTS
  IPs,        \* clients
  Sizes,      \* the configured sizes a start may find (GrayZoneSize)
  MaxEvents   \* bound: Add is called this often

GrayZoneAssumption ==
  /\ Sizes \subseteq Nat \ {0} /\ Sizes # {}
  /\ MaxEvents \in Nat

VARIABLES
  phase,     \* "up", "stopping" (s.shutdown is closed) or "down"
  size,      \* gz.size
  entries,   \* gz.entries
  head,      \* gz.head
  count,     \* gz.count
  added,     \* number of Add calls so far
  file,      \* the file at gz.filePath
  saver,     \* the goroutines that may be inside SaveToFile
  savesAlone \* history: no autosave ran beside the save of Shutdown so far

vars == <<phase, size, entries, head, count, added, file, saver, savesAlone>>

-----------------------------------------------------------------------------
Event == [id : 1..MaxEvents, ip : IPs]
Zero == [id |-> 0, ip |-> "none"]       \* the zero GrayZoneEntry

Savers == {"autosave", "shutdown"}

\* A file holds a JSON array of events, nothing at all, or bytes that do not
\* parse.  A missing file reads back like an empty array.
Array(s) == [state |-> "array", events |-> s]
Empty == [state |-> "empty", events |-> <<>>]
Garbled == [state |-> "garbled", events |-> <<>>]
Absent == Array(<<>>)

Quiet == [pc |-> "idle", snapshot |-> <<>>]

Blank(n) == [i \in 0..(n - 1) |-> Zero]

\* getAllLocked: oldest to newest.
GetAll ==
  LET start == IF count = size THEN head ELSE 0
  IN  [i \in 1..count |-> entries[(start + i - 1) % size]]

Least(m, n) == IF m < n THEN m ELSE n

\* Variant: the newest entry is taken to be at head.
GetRecentOffByOne(n) ==
  [i \in 1..Least(n, count) |-> entries[(head - (i - 1) + size) % size]]

\* GetRecent: the newest n entries, newest first.
GetRecent(n) ==
  [i \in 1..Least(n, count) |-> entries[((head + size) - i) % size]]

\* GetByIP and GetByScoreRange: the slot of the i-th entry they look at.
Slot(i) == IF count = size THEN (head + i) % size ELSE i
GetByIP(ip) == SelectSeq([i \in 1..count |-> entries[Slot(i - 1)]], LAMBDA e : e.ip = ip)

-----------------------------------------------------------------------------
Running == phase # "down"

\* Variant: the count is left alone when the buffer wraps around.
AddForgetsCount(ip) ==
  /\ Running /\ added < MaxEvents
  /\ added' = added + 1
  /\ entries' = [entries EXCEPT ![head] = [id |-> added + 1, ip |-> ip]]
  /\ head' = (head + 1) % size
  /\ count' = IF head + 1 < size THEN Least(size, count + 1) ELSE count
  /\ UNCHANGED <<phase, size, file, saver, savesAlone>>

\* A request the WAF scores between its two thresholds.
Add(ip) ==
  /\ Running /\ added < MaxEvents
  /\ added' = added + 1
  /\ entries' = [entries EXCEPT ![head] = [id |-> added + 1, ip |-> ip]]
  /\ head' = (head + 1) % size
  /\ count' = Least(size, count + 1)
  /\ UNCHANGED <<phase, size, file, saver, savesAlone>>

Clear ==
  /\ Running
  /\ entries' = Blank(size)
  /\ head' = 0
  /\ count' = 0
  /\ UNCHANGED <<phase, size, added, file, saver, savesAlone>>

-----------------------------------------------------------------------------
(* SaveToFile: a copy under the lock, then os.WriteFile outside it.        *)

\* The ticker of grayZoneAutoSave fires.  A closed s.shutdown does not keep
\* its select from taking a tick that is ready as well; a goroutine that has
\* seen s.shutdown is one that does not tick again.  Shutdown saves once.
Snapshot(p) ==
  /\ phase \in (IF p = "autosave" THEN {"up", "stopping"} ELSE {"stopping"})
  /\ saver[p].pc = "idle"
  /\ saver' = [saver EXCEPT ![p] = [pc |-> "open", snapshot |-> GetAll]]
  /\ savesAlone' = (IF p = "shutdown" THEN saver["autosave"].pc = "idle"
                    ELSE savesAlone /\ saver["shutdown"].pc = "idle")
  /\ UNCHANGED <<phase, size, entries, head, count, added, file>>

\* Variant: the error of os.WriteFile is dropped.
ReturnSaved(p, result) ==
  saver' = [saver EXCEPT ![p] =
              IF p = "autosave" THEN Quiet ELSE [@ EXCEPT !.pc = "saved"]]

\* os.WriteFile has returned: the ticker loop goes on, Shutdown goes on to the
\* HTTP servers.
Return(p, result) ==
  saver' = [saver EXCEPT ![p] =
              IF p = "autosave" THEN Quiet ELSE [@ EXCEPT !.pc = result]]

\* The file is opened and truncated, or cannot be opened.
Open(p) ==
  /\ Running
  /\ saver[p].pc = "open"
  /\ \/ file' = Empty /\ saver' = [saver EXCEPT ![p].pc = "write"]
     \/ UNCHANGED file /\ Return(p, "failed")
  /\ UNCHANGED <<phase, size, entries, head, count, added, savesAlone>>

\* The data is written from offset 0.  What the other saver wrote since the
\* truncation may reach beyond its end; a failed write leaves any part of it.
Write(p) ==
  /\ Running
  /\ saver[p].pc = "write"
  /\ LET data == Array(saver[p].snapshot)
     IN  \/ /\ file' = data \/ (file \notin {Empty, data} /\ file' = Garbled)
            /\ Return(p, "saved")
         \/ file' \in {file, Garbled} /\ Return(p, "failed")
  /\ UNCHANGED <<phase, size, entries, head, count, added, savesAlone>>

-----------------------------------------------------------------------------
(* The life of the process.                                                *)

\* Server.Shutdown closes s.shutdown; requests are still served.
Signal ==
  /\ phase = "up"
  /\ phase' = "stopping"
  /\ UNCHANGED <<size, entries, head, count, added, file, saver, savesAlone>>

Halt ==
  /\ phase' = "down"
  /\ entries' = Blank(size) /\ head' = 0 /\ count' = 0
  /\ saver' = [p \in Savers |-> IF saver[p].pc \in {"saved", "failed"} THEN saver[p] ELSE Quiet]
  /\ UNCHANGED <<size, added, file, savesAlone>>

\* main returns after Shutdown; nothing waits for the autosave goroutine.
Exit ==
  /\ phase = "stopping"
  /\ saver["shutdown"].pc \in {"saved", "failed"}
  /\ Halt

Crash ==
  /\ Running
  /\ Halt

\* NewGrayZone and loadFromFile: the first size events of a file that parses, or none
\* when the file is there but cannot be read; then the next save writes over it.
New(n) ==
  /\ phase = "down"
  /\ phase' = "up"
  /\ size' = n
  /\ \E events \in {file.events, <<>>} :
       LET loaded == Least(n, Len(events))
       IN  /\ entries' = [i \in 0..(n - 1) |-> IF i < loaded THEN events[i + 1] ELSE Zero]
           /\ head' = loaded % n
           /\ count' = loaded
  /\ saver' = [p \in Savers |-> Quiet]
  /\ savesAlone' = TRUE
  /\ UNCHANGED <<added, file>>

-----------------------------------------------------------------------------
Init ==
  /\ phase = "up"
  /\ size \in Sizes
  /\ entries = Blank(size)
  /\ head = 0 /\ count = 0
  /\ added = 0
  /\ file = Absent
  /\ saver = [p \in Savers |-> Quiet]
  /\ savesAlone = TRUE

Next ==
  \/ \E ip \in IPs : Add(ip)
  \/ Clear
  \/ \E p \in Savers : Snapshot(p) \/ Open(p) \/ Write(p)
  \/ Signal \/ Exit \/ Crash
  \/ \E n \in Sizes : New(n)

Spec == Init /\ [][Next]_vars

-----------------------------------------------------------------------------
\* Type invariant; head and count stay within the buffer.
TypeOK ==
  /\ phase \in {"up", "stopping", "down"}
  /\ size \in Sizes
  /\ entries \in [0..(size - 1) -> Event \cup {Zero}]
  /\ head \in 0..(size - 1)
  /\ count \in 0..size
  /\ added \in 0..MaxEvents
  /\ file \in [state : {"array", "empty", "garbled"}, events : Seq(Event)]
  /\ saver \in [Savers -> [pc : {"idle", "open", "write", "saved", "failed"},
                           snapshot : Seq(Event)]]
  /\ savesAlone \in BOOLEAN

\* GetRecent counts backwards from the newest entry exactly as getAllLocked
\* counts forwards from the oldest, and GetByIP misses and repeats none.
ReadersAgree ==
  /\ \A n \in 0..(size + 1), i \in 1..size :
       i <= n /\ i <= count => GetRecent(n)[i] = GetAll[count + 1 - i]
  /\ \A ip \in IPs : GetByIP(ip) = SelectSeq(GetAll, LAMBDA e : e.ip = ip)

\* The circular buffer implements the bounded list of the newest events, and the file
\* behind it is a copy that was taken of that list, or nothing (Add, getAllLocked,
\* SaveToFile, loadFromFile).
Recent == INSTANCE RecentEvents WITH
  Events <- Event,
  running <- Running,
  recent <- GetAll,
  taken <- {saver[p].snapshot : p \in Savers},
  kept <- file.events

BufferIsRecent == Recent!Spec

\* Once Shutdown has saved without an error, the file holds what the buffer held, as
\* TestShutdown_FlushesGrayZone says; but only if no autosave overlapped with that save,
\* which Shutdown does not see to.
ShutdownFlushes ==
  savesAlone /\ saver["shutdown"].pc = "saved" => file = Array(saver["shutdown"].snapshot)
=============================================================================
