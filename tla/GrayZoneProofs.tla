---------------------------- MODULE GrayZoneProofs ----------------------------
(***************************************************************************)
(* Theorems about GrayZone, for every set of clients and configured sizes  *)
(* that GrayZoneAssumption admits.                                         *)
(***************************************************************************)
EXTENDS GrayZone, SequenceTheorems, TLAPS

\* An index less than twice the size wraps around at most once.
LEMMA WrapsOnce ==
  ASSUME NEW n \in Nat \ {0}, NEW x \in Nat, x < n + n
  PROVE  x % n = IF x < n THEN x ELSE x - n
<1>1. CASE x < n
  BY <1>1
<1>2. CASE x >= n
  BY <1>2
<1> QED BY <1>1, <1>2

-----------------------------------------------------------------------------
(* The used slots: the first count ones, and head is the next one until the *)
(* buffer is full.                                                          *)

Filled ==
  /\ count < size => head = count
  /\ \A i \in 0..(size - 1) : i < count => entries[i] \in Event

BufferInv ==
  /\ Sizes \subseteq Nat \ {0} /\ MaxEvents \in Nat
  /\ TypeOK /\ Filled

\* The slot of the i-th oldest entry of a buffer, without the modulus.
Place(n, h, c, i) ==
  IF c = n THEN IF h + i - 1 < n THEN h + i - 1 ELSE h + i - 1 - n ELSE i - 1

LEMMA PlaceIs ==
  ASSUME NEW n \in Nat \ {0}, NEW h \in 0..(n - 1), NEW c \in 0..n, NEW i \in 1..c
  PROVE  /\ Place(n, h, c, i) \in 0..(n - 1)
         /\ ((IF c = n THEN h ELSE 0) + i - 1) % n = Place(n, h, c, i)
<1>0. \A x \in Nat : x < n + n => x % n = IF x < n THEN x ELSE x - n
  BY WrapsOnce
<1>1. CASE c = n
  <2> DEFINE x == h + i - 1
  <2>1. x \in Nat /\ x < n + n
    BY <1>1
  <2>2. (IF c = n THEN h ELSE 0) + i - 1 = x
    BY <1>1
  <2>3. Place(n, h, c, i) = IF x < n THEN x ELSE x - n
    BY <1>1 DEF Place
  <2> HIDE DEF x
  <2>4. x % n = IF x < n THEN x ELSE x - n
    BY <1>0, <2>1
  <2> QED BY <2>1, <2>2, <2>3, <2>4
<1>2. CASE c # n
  <2> DEFINE x == i - 1
  <2>1. x \in Nat /\ x < n /\ x < n + n
    BY <1>2
  <2>2. (IF c = n THEN h ELSE 0) + i - 1 = x
    BY <1>2
  <2>3. Place(n, h, c, i) = x
    BY <1>2 DEF Place
  <2> HIDE DEF x
  <2>4. x % n = x
    BY <1>0, <2>1
  <2> QED BY <2>1, <2>2, <2>3, <2>4
<1> QED BY <1>1, <1>2

LEMMA Typed ==
  ASSUME BufferInv
  PROVE  /\ size \in Nat \ {0} /\ head \in 0..(size - 1) /\ count \in 0..size
         /\ entries \in [0..(size - 1) -> Event \cup {Zero}]
         /\ \A i \in 0..(size - 1) : i < count => entries[i] \in Event
BY DEF BufferInv, TypeOK, Filled

\* What getAllLocked returns from a buffer e of size n with c used slots.
Read(n, h, c, e) ==
  LET start == IF c = n THEN h ELSE 0
  IN  [i \in 1..c |-> e[(start + i - 1) % n]]

LEMMA RingRead ==
  ASSUME NEW n \in Nat \ {0}, NEW h \in 0..(n - 1), NEW c \in 0..n,
         NEW e \in [0..(n - 1) -> Event \cup {Zero}],
         \A i \in 0..(n - 1) : i < c => e[i] \in Event
  PROVE  /\ Read(n, h, c, e) \in Seq(Event)
         /\ Len(Read(n, h, c, e)) = c
         /\ Read(n, h, c, e) = [i \in 1..c |-> e[Place(n, h, c, i)]]
<1> DEFINE read == [i \in 1..c |-> e[Place(n, h, c, i)]]
<1>1. Read(n, h, c, e) = read
  BY PlaceIs DEF Read
<1>2. \A i \in 1..c : e[Place(n, h, c, i)] \in Event
  <2>1. ASSUME NEW i \in 1..c PROVE e[Place(n, h, c, i)] \in Event
    <3>1. Place(n, h, c, i) \in 0..(n - 1)
      BY PlaceIs
    <3>2. Place(n, h, c, i) < c
      BY <3>1 DEF Place
    <3> QED BY <3>1, <3>2
  <2> QED BY <2>1
<1>3. read \in [1..c -> Event] /\ c \in Nat
  BY <1>2
<1> HIDE DEF read
<1>4. read \in Seq(Event) /\ Len(read) = c
  BY <1>3
<1> QED BY <1>1, <1>4 DEF read

LEMMA GetAllIs ==
  ASSUME BufferInv
  PROVE  /\ GetAll \in Seq(Event) /\ Len(GetAll) = count
         /\ GetAll = [i \in 1..count |-> entries[Place(size, head, count, i)]]
<1>1. GetAll = Read(size, head, count, entries)
  BY DEF GetAll, Read
<1> QED BY <1>1, Typed, RingRead

LEMMA GetAllIsNext ==
  ASSUME BufferInv'
  PROVE  /\ size' \in Nat \ {0} /\ count' \in 0..size'
         /\ GetAll' \in Seq(Event) /\ Len(GetAll') = count'
         /\ GetAll' = [i \in 1..count' |-> entries'[Place(size', head', count', i)]]
<1>1. /\ size' \in Nat \ {0} /\ head' \in 0..(size' - 1) /\ count' \in 0..size'
      /\ entries' \in [0..(size' - 1) -> Event \cup {Zero}]
      /\ \A i \in 0..(size' - 1) : i < count' => entries'[i] \in Event
  BY DEF BufferInv, TypeOK, Filled
<1>2. GetAll' = Read(size', head', count', entries')
  BY DEF GetAll, Read
<1>3. /\ Read(size', head', count', entries') \in Seq(Event)
      /\ Len(Read(size', head', count', entries')) = count'
      /\ Read(size', head', count', entries')
           = [i \in 1..count' |-> entries'[Place(size', head', count', i)]]
  <2> DEFINE n == size'
             h == head'
             c == count'
             e == entries'
  <2>1. /\ n \in Nat \ {0} /\ h \in 0..(n - 1) /\ c \in 0..n
        /\ e \in [0..(n - 1) -> Event \cup {Zero}]
        /\ \A i \in 0..(n - 1) : i < c => e[i] \in Event
    BY <1>1
  <2> HIDE DEF n, h, c, e
  <2>2. /\ Read(n, h, c, e) \in Seq(Event) /\ Len(Read(n, h, c, e)) = c
        /\ Read(n, h, c, e) = [i \in 1..c |-> e[Place(n, h, c, i)]]
    BY <2>1, RingRead
  <2> QED BY <2>2 DEF n, h, c, e
<1> QED BY <1>1, <1>2, <1>3

\* A sequence that extends s by e is Append(s, e).
LEMMA AppendIs ==
  ASSUME NEW S, NEW s \in Seq(S), NEW e \in S, NEW t \in Seq(S),
         Len(t) = Len(s) + 1, \A i \in 1..Len(s) : t[i] = s[i], t[Len(s) + 1] = e
  PROVE  t = Append(s, e)
<1>1. /\ Append(s, e) \in Seq(S) /\ Len(Append(s, e)) = Len(s) + 1
      /\ \A i \in 1..Len(s) : Append(s, e)[i] = s[i]
      /\ Append(s, e)[Len(s) + 1] = e
  BY AppendProperties
<1>2. \A i \in 1..Len(t) : t[i] = Append(s, e)[i]
  BY <1>1
<1> QED BY <1>1, <1>2, SeqEqual

LEMMA EmptyBuffer ==
  ASSUME NEW n \in Nat \ {0}
  PROVE  Blank(n) \in [0..(n - 1) -> Event \cup {Zero}]
BY DEF Blank

-----------------------------------------------------------------------------
(* Type correctness.                                                       *)

LEMMA BufferInit == ASSUME GrayZoneAssumption, Init PROVE BufferInv
BY EmptyBuffer
   DEF GrayZoneAssumption, Init, BufferInv, TypeOK, Filled, Blank, Absent, Array, Savers, Quiet

LEMMA AddKeeps ==
  ASSUME BufferInv, NEW ip \in IPs, Add(ip)
  PROVE  /\ BufferInv'
         /\ size' = size
         /\ head' = IF head + 1 < size THEN head + 1 ELSE 0
         /\ count' = IF count < size THEN count + 1 ELSE size
         /\ entries' = [entries EXCEPT ![head] = [id |-> added + 1, ip |-> ip]]
         /\ [id |-> added + 1, ip |-> ip] \in Event
<1>1. head' = IF head + 1 < size THEN head + 1 ELSE 0
  <2> DEFINE x == head + 1
  <2>1. /\ x \in Nat /\ x < size + size /\ size \in Nat \ {0}
        /\ x - size = IF x < size THEN x - size ELSE 0
    BY Typed
  <2>2. head' = x % size
    BY DEF Add
  <2> HIDE DEF x
  <2>3. x % size = IF x < size THEN x ELSE x - size
    BY <2>1, WrapsOnce
  <2> QED BY <2>1, <2>2, <2>3 DEF x
<1>2. count' = IF count < size THEN count + 1 ELSE size
  BY Typed DEF Add, Least
<1>3. [id |-> added + 1, ip |-> ip] \in Event
  BY DEF Add, Event, BufferInv, TypeOK
<1>4. /\ entries \in [0..(size - 1) -> Event \cup {Zero}]
      /\ entries' = [entries EXCEPT ![head] = [id |-> added + 1, ip |-> ip]]
      /\ size' = size
  BY DEF Add, BufferInv, TypeOK
<1>5. TypeOK'
  <2>1. entries' \in [0..(size - 1) -> Event \cup {Zero}]
    BY <1>3, <1>4
  <2>2. head' \in 0..(size - 1) /\ count' \in 0..size
    BY <1>1, <1>2, Typed
  <2>3. added' \in 0..MaxEvents
    BY DEF Add, BufferInv, TypeOK
  <2> QED BY <1>4, <2>1, <2>2, <2>3 DEF Add, BufferInv, TypeOK
<1>6. Filled'
  <2>1. count' < size' => head' = count'
    BY <1>1, <1>2, <1>4, Typed DEF BufferInv, Filled
  <2>2. \A i \in 0..(size - 1) : i < count' => entries'[i] \in Event
    BY <1>2, <1>3, <1>4, Typed DEF BufferInv, Filled
  <2> QED BY <1>4, <2>1, <2>2 DEF Filled
<1> QED BY <1>1, <1>2, <1>3, <1>4, <1>5, <1>6 DEF BufferInv

SaverStates ==
  [Savers -> [pc : {"idle", "open", "write", "saved", "failed"}, snapshot : Seq(Event)]]

LEMMA SaverMoves ==
  ASSUME BufferInv, NEW p \in Savers,
         \/ saver' = [saver EXCEPT ![p].pc = "write"]
         \/ Return(p, "saved") \/ Return(p, "failed")
  PROVE  saver' \in SaverStates
<1>1. saver \in SaverStates
  BY DEF BufferInv, TypeOK, SaverStates
<1>2. CASE saver' = [saver EXCEPT ![p].pc = "write"]
  BY <1>1, <1>2 DEF SaverStates
<1>3. ASSUME NEW result \in {"saved", "failed"}, Return(p, result) PROVE saver' \in SaverStates
  <2>1. Quiet \in [pc : {"idle", "open", "write", "saved", "failed"}, snapshot : Seq(Event)]
    BY DEF Quiet
  <2>2. [saver[p] EXCEPT !.pc = result]
          \in [pc : {"idle", "open", "write", "saved", "failed"}, snapshot : Seq(Event)]
    BY <1>1 DEF SaverStates
  <2> QED BY <1>1, <1>3, <2>1, <2>2 DEF Return, SaverStates
<1> QED BY <1>2, <1>3

LEMMA SameBufferInv ==
  ASSUME BufferInv, UNCHANGED <<phase, size, entries, head, count, added, savesAlone>>,
         file' \in [state : {"array", "empty", "garbled"}, events : Seq(Event)],
         saver' \in SaverStates
  PROVE  BufferInv'
BY DEF BufferInv, TypeOK, Filled, SaverStates

LEMMA BufferNext == BufferInv /\ [Next]_vars => BufferInv'
<1> SUFFICES ASSUME BufferInv, [Next]_vars PROVE BufferInv'
  OBVIOUS
<1>1. ASSUME NEW ip \in IPs, Add(ip) PROVE BufferInv'
  BY <1>1, AddKeeps
<1>2. CASE Clear
  BY <1>2, Typed, EmptyBuffer DEF Clear, BufferInv, TypeOK, Filled
<1>3. ASSUME NEW p \in Savers, Snapshot(p) PROVE BufferInv'
  BY <1>3, GetAllIs DEF Snapshot, BufferInv, TypeOK, Filled
<1>4. ASSUME NEW p \in Savers, Open(p) PROVE BufferInv'
  <2>1. file' \in [state : {"array", "empty", "garbled"}, events : Seq(Event)]
    <3>1. Empty \in [state : {"array", "empty", "garbled"}, events : Seq(Event)]
      BY DEF Empty
    <3> QED BY <1>4, <3>1 DEF Open, BufferInv, TypeOK
  <2>2. saver' = [saver EXCEPT ![p].pc = "write"] \/ Return(p, "failed")
    BY <1>4 DEF Open
  <2> QED BY <1>4, <2>1, <2>2, SaverMoves, SameBufferInv DEF Open
<1>5. ASSUME NEW p \in Savers, Write(p) PROVE BufferInv'
  <2>1. file' \in [state : {"array", "empty", "garbled"}, events : Seq(Event)]
    <3>1. Garbled \in [state : {"array", "empty", "garbled"}, events : Seq(Event)]
      BY DEF Garbled
    <3>2. saver[p].snapshot \in Seq(Event)
      BY DEF BufferInv, TypeOK
    <3>3. Array(saver[p].snapshot)
            \in [state : {"array", "empty", "garbled"}, events : Seq(Event)]
      BY <3>2 DEF Array
    <3> QED BY <1>5, <3>1, <3>3 DEF Write, BufferInv, TypeOK
  <2>2. Return(p, "saved") \/ Return(p, "failed")
    BY <1>5 DEF Write
  <2> QED BY <1>5, <2>1, <2>2, SaverMoves, SameBufferInv DEF Write
<1>6. CASE Signal
  BY <1>6 DEF Signal, BufferInv, TypeOK, Filled
<1>7. CASE Exit \/ Crash
  <2>1. Halt
    BY <1>7 DEF Exit, Crash
  <2>2. entries' \in [0..(size - 1) -> Event \cup {Zero}] /\ head' = 0 /\ count' = 0 /\ size' = size
    BY <2>1, Typed, EmptyBuffer DEF Halt
  <2>3. saver' \in SaverStates
    <3>1. Quiet \in [pc : {"idle", "open", "write", "saved", "failed"}, snapshot : Seq(Event)]
      BY DEF Quiet
    <3> QED BY <2>1, <3>1 DEF Halt, SaverStates, BufferInv, TypeOK
  <2> QED BY <2>1, <2>2, <2>3, Typed DEF Halt, BufferInv, TypeOK, Filled, SaverStates
<1>8. ASSUME NEW n \in Sizes, New(n) PROVE BufferInv'
  <2>0. PICK events \in {file.events, <<>>} :
          /\ entries' = [i \in 0..(n - 1) |-> IF i < Least(n, Len(events)) THEN events[i + 1] ELSE Zero]
          /\ head' = Least(n, Len(events)) % n
          /\ count' = Least(n, Len(events))
    BY <1>8 DEF New
  <2> DEFINE loaded == Least(n, Len(events))
  <2>1. n \in Nat \ {0} /\ events \in Seq(Event)
    <3>1. file.events \in Seq(Event)
      BY DEF BufferInv, TypeOK
    <3>2. <<>> \in Seq(Event)
      OBVIOUS
    <3> QED BY <3>1, <3>2 DEF BufferInv
  <2>2. loaded \in Nat /\ loaded <= n /\ loaded <= Len(events)
    BY <2>1 DEF Least
  <2>3. \A i \in 0..(n - 1) : i < loaded => events[i + 1] \in Event
    BY <2>1, <2>2
  <2>4. /\ size' = n /\ head' = loaded % n /\ count' = loaded
        /\ entries' = [i \in 0..(n - 1) |-> IF i < loaded THEN events[i + 1] ELSE Zero]
    BY <1>8, <2>0 DEF New
  <2> HIDE DEF loaded
  <2>5. loaded % n = IF loaded < n THEN loaded ELSE 0
    <3>1. loaded < n + n
      BY <2>1, <2>2
    <3>2. loaded % n = IF loaded < n THEN loaded ELSE loaded - n
      BY <2>1, <2>2, <3>1, WrapsOnce
    <3> QED BY <2>1, <2>2, <3>2
  <2>6. entries' \in [0..(size' - 1) -> Event \cup {Zero}] /\ head' \in 0..(size' - 1)
    BY <2>1, <2>2, <2>5, <2>3, <2>4
  <2>7. TypeOK'
    BY <1>8, <2>1, <2>2, <2>4, <2>6 DEF New, Savers, Quiet, BufferInv, TypeOK
  <2>8. Filled'
    BY <2>1, <2>2, <2>5, <2>3, <2>4 DEF Filled
  <2> QED BY <2>7, <2>8 DEF BufferInv
<1>9. CASE UNCHANGED vars
  BY <1>9 DEF vars, BufferInv, TypeOK, Filled
<1> QED BY <1>1, <1>2, <1>3, <1>4, <1>5, <1>6, <1>7, <1>8, <1>9 DEF Next

LEMMA BufferCorrect == ASSUME GrayZoneAssumption PROVE Spec => []BufferInv
BY BufferInit, BufferNext, PTL DEF Spec

\* Every variable keeps its type; head and count stay within the buffer.
THEOREM TypeCorrect == ASSUME GrayZoneAssumption PROVE Spec => []TypeOK
BY BufferCorrect, PTL DEF BufferInv

-----------------------------------------------------------------------------
(* The buffer implements RecentEvents.                                     *)

LEMMA AddIsAbstract ==
  ASSUME BufferInv, NEW ip \in IPs, Add(ip)
  PROVE  \E event \in Event : Recent!Add(event)
<1> DEFINE event == [id |-> added + 1, ip |-> ip]
<1>1. /\ BufferInv' /\ size' = size
      /\ head' = IF head + 1 < size THEN head + 1 ELSE 0
      /\ count' = IF count < size THEN count + 1 ELSE size
      /\ entries' = [entries EXCEPT ![head] = event]
      /\ event \in Event
  BY AddKeeps
<1> HIDE DEF event
<1>2. /\ GetAll \in Seq(Event) /\ Len(GetAll) = count
      /\ GetAll = [i \in 1..count |-> entries[Place(size, head, count, i)]]
  BY GetAllIs
<1>3. /\ GetAll' \in Seq(Event) /\ Len(GetAll') = count'
      /\ GetAll' = [i \in 1..count' |-> entries'[Place(size, head', count', i)]]
  BY <1>1, GetAllIsNext
<1>4. /\ size \in Nat \ {0} /\ head \in 0..(size - 1) /\ count \in 0..size
      /\ DOMAIN entries = 0..(size - 1)
      /\ count < size => head = count
  BY Typed DEF BufferInv, Filled
<1>5. /\ Running /\ Running' /\ added' = added + 1
      /\ {saver[p].snapshot : p \in Savers}' = {saver[p].snapshot : p \in Savers}
      /\ file' = file /\ size' = size
  BY DEF Add, Running
<1>6. CASE count < size
  <2>1. count' = count + 1
    BY <1>1, <1>6
  <2>2. \A i \in 1..count : Place(size, head', count', i) = i - 1
                            /\ Place(size, head, count, i) = i - 1
    BY <1>1, <1>4, <1>6 DEF Place
  <2>3. Place(size, head', count', count + 1) = head
    BY <1>1, <1>4, <1>6 DEF Place
  <2>4. \A i \in 1..count : GetAll'[i] = GetAll[i]
    <3>1. \A i \in 1..count : i \in 1..count' /\ i - 1 \in 0..(size - 1) /\ i - 1 # head
      BY <1>4, <1>6, <2>1
    <3>2. \A i \in 1..count : entries'[i - 1] = entries[i - 1]
      BY <1>1, <1>4, <3>1
    <3> QED BY <1>2, <1>3, <2>2, <3>1, <3>2
  <2>5. GetAll'[count + 1] = event
    <3>1. count + 1 \in 1..count'
      BY <1>4, <2>1
    <3> QED BY <1>1, <1>3, <1>4, <2>3, <3>1
  <2>6. GetAll' = Append(GetAll, event)
    <3> DEFINE s == GetAll
               t == GetAll'
    <3>1. /\ s \in Seq(Event) /\ t \in Seq(Event) /\ Len(s) = count /\ Len(t) = count + 1
          /\ \A i \in 1..count : t[i] = s[i]
          /\ t[count + 1] = event
      BY <1>2, <1>3, <2>1, <2>4, <2>5
    <3> HIDE DEF s, t
    <3>2. t = Append(s, event)
      BY <1>1, <3>1, AppendIs
    <3> QED BY <3>2 DEF s, t
  <2> QED BY <1>1, <1>2, <1>6, <1>5, <2>6 DEF Recent!Add
<1>7. CASE count = size
  <2>1. count' = size
    BY <1>1, <1>4, <1>7
  <2>2. \A i \in 1..(size - 1) :
          /\ Place(size, head', count', i) = Place(size, head, count, i + 1)
          /\ Place(size, head, count, i + 1) \in 0..(size - 1) \ {head}
    BY <1>1, <1>4, <1>7 DEF Place
  <2>3. Place(size, head', count', size) = head
    BY <1>1, <1>4, <1>7 DEF Place
  <2>4. \A i \in 1..(size - 1) : GetAll'[i] = GetAll[i + 1]
    <3>1. \A i \in 1..(size - 1) : i \in 1..count' /\ i + 1 \in 1..count
      BY <1>4, <1>7, <2>1
    <3>2. \A k \in 0..(size - 1) \ {head} : entries'[k] = entries[k]
      BY <1>1, <1>4
    <3> QED BY <1>2, <1>3, <2>2, <3>1, <3>2
  <2>5. GetAll'[size] = event
    <3>1. size \in 1..count'
      BY <1>4, <2>1
    <3> QED BY <1>1, <1>3, <1>4, <2>3, <3>1
  <2>6. /\ Tail(GetAll) \in Seq(Event) /\ Len(Tail(GetAll)) = size - 1
        /\ \A i \in 1..(size - 1) : Tail(GetAll)[i] = GetAll[i + 1]
    BY <1>2, <1>4, <1>7
  <2>7. GetAll' = Append(Tail(GetAll), event)
    <3> DEFINE s == Tail(GetAll)
               t == GetAll'
    <3>1. /\ s \in Seq(Event) /\ t \in Seq(Event)
          /\ Len(s) = size - 1 /\ Len(t) = size
          /\ \A i \in 1..(size - 1) : t[i] = s[i]
          /\ t[size] = event
      BY <1>3, <2>1, <2>4, <2>5, <2>6
    <3> HIDE DEF s, t
    <3>2. Len(t) = Len(s) + 1 /\ Len(s) + 1 = size
      BY <1>4, <3>1
    <3>3. t = Append(s, event)
      BY <1>1, <3>1, <3>2, AppendIs
    <3> QED BY <3>3 DEF s, t
  <2>8. ~(Len(GetAll) < size)
    BY <1>2, <1>4, <1>7
  <2>9. Recent!Add(event)
    BY <1>1, <1>5, <2>7, <2>8 DEF Recent!Add
  <2> QED BY <1>1, <2>9
<1> QED BY <1>4, <1>6, <1>7

Copies == {saver[p].snapshot : p \in Savers}

\* A step that leaves the buffer savesAlone leaves what it holds savesAlone.
LEMMA SameBuffer ==
  ASSUME UNCHANGED <<size, entries, head, count>>
  PROVE  UNCHANGED GetAll
BY DEF GetAll

LEMMA EmptyAfter ==
  ASSUME BufferInv', count' = 0
  PROVE  GetAll' = <<>>
BY GetAllIsNext

LEMMA SnapshotIsAbstract ==
  ASSUME BufferInv, NEW p \in Savers, Snapshot(p)
  PROVE  Recent!Copy
<1>1. /\ UNCHANGED <<phase, size, entries, head, count, added, file>>
      /\ saver' = [saver EXCEPT ![p] = [pc |-> "open", snapshot |-> GetAll]]
      /\ Running
  BY DEF Snapshot, Running
<1>2. UNCHANGED GetAll
  BY <1>1, SameBuffer
<1>3. ASSUME NEW q \in Savers PROVE saver'[q].snapshot \in Copies \cup {GetAll}
  BY <1>1 DEF Copies, BufferInv, TypeOK
<1>4. Copies' \subseteq Copies \cup {GetAll}
  BY <1>3 DEF Copies
<1> QED BY <1>1, <1>2, <1>4 DEF Recent!Copy, Copies, Running

\* What a saver's copy becomes by a step of its own: the same, or the empty one.
LEMMA CopiesShrink ==
  ASSUME BufferInv, NEW p \in Savers, NEW r,
         Return(p, r) \/ saver' = [saver EXCEPT ![p].pc = "write"]
  PROVE  Copies' \subseteq Copies \cup {<<>>}
<1>1. saver \in SaverStates
  BY DEF BufferInv, TypeOK, SaverStates
<1>2. saver[p] \in [pc : {"idle", "open", "write", "saved", "failed"}, snapshot : Seq(Event)]
  BY <1>1 DEF SaverStates
<1>3. ASSUME NEW pc PROVE [saver[p] EXCEPT !.pc = pc].snapshot = saver[p].snapshot
  BY <1>2
<1>4. \/ saver' = [saver EXCEPT ![p] = Quiet]
      \/ saver' = [saver EXCEPT ![p] = [saver[p] EXCEPT !.pc = r]]
      \/ saver' = [saver EXCEPT ![p] = [saver[p] EXCEPT !.pc = "write"]]
  BY DEF Return
<1>5. saver'[p].snapshot \in {saver[p].snapshot, <<>>}
  BY <1>1, <1>3, <1>4 DEF Quiet, SaverStates
<1>6. \A q \in Savers : q # p => saver'[q] = saver[q]
  BY <1>1, <1>4 DEF SaverStates
<1>7. ASSUME NEW q \in Savers PROVE saver'[q].snapshot \in Copies \cup {<<>>}
  BY <1>5, <1>6 DEF Copies
<1> QED BY <1>7 DEF Copies

LEMMA FileIsAbstract ==
  ASSUME BufferInv, NEW p \in Savers, Open(p) \/ Write(p)
  PROVE  Recent!Keep
<1>1. /\ UNCHANGED <<phase, size, entries, head, count, added>>
      /\ Running
  BY DEF Open, Write
<1>2. UNCHANGED GetAll
  BY <1>1, SameBuffer
<1>3. Copies' \subseteq Copies \cup {<<>>}
  BY CopiesShrink DEF Open, Write
<1>4. file'.events \in Copies \cup {<<>>, file.events}
  BY DEF Open, Write, Array, Empty, Garbled, Copies
<1> QED BY <1>1, <1>2, <1>3, <1>4 DEF Recent!Keep, Copies, Running

LEMMA HaltIsAbstract ==
  ASSUME BufferInv, BufferInv', Running, Halt
  PROVE  Recent!Stop
<1>1. GetAll' = <<>>
  BY EmptyAfter DEF Halt
<1>2. ASSUME NEW q \in Savers PROVE saver'[q].snapshot \in Copies \cup {<<>>}
  BY DEF Halt, Quiet, Copies
<1>3. Copies' \subseteq Copies \cup {<<>>}
  BY <1>2 DEF Copies
<1>4. ~Running'
  BY DEF Halt, Running
<1> QED BY <1>1, <1>3, <1>4 DEF Recent!Stop, Copies, Halt

LEMMA NewIsAbstract ==
  ASSUME BufferInv, BufferInv', NEW n \in Sizes, New(n)
  PROVE  Recent!Restart
<1>0. PICK events \in {file.events, <<>>} :
        /\ entries' = [i \in 0..(n - 1) |-> IF i < Least(n, Len(events)) THEN events[i + 1] ELSE Zero]
        /\ head' = Least(n, Len(events)) % n
        /\ count' = Least(n, Len(events))
  BY DEF New
<1> DEFINE loaded == Least(n, Len(events))
<1>1. n \in Nat \ {0} /\ events \in Seq(Event)
  <2>1. file.events \in Seq(Event)
    BY DEF BufferInv, TypeOK
  <2>2. <<>> \in Seq(Event)
    OBVIOUS
  <2> QED BY <2>1, <2>2 DEF BufferInv
<1>2. /\ size' = n /\ count' = loaded /\ head' = loaded % n
      /\ entries' = [i \in 0..(n - 1) |-> IF i < loaded THEN events[i + 1] ELSE Zero]
      /\ ~Running /\ Running' /\ UNCHANGED <<added, file>>
      /\ saver' = [p \in Savers |-> Quiet]
  BY <1>0 DEF New, Running
<1>3. loaded \in Nat /\ loaded <= n /\ loaded <= Len(events)
      /\ loaded = IF n < Len(events) THEN n ELSE Len(events)
  BY <1>1 DEF Least
<1> HIDE DEF loaded
<1>4. /\ GetAll' \in Seq(Event) /\ Len(GetAll') = loaded
      /\ GetAll' = [i \in 1..loaded |-> entries'[Place(n, head', loaded, i)]]
  BY <1>2, GetAllIsNext
<1>5. n \in Nat \ {0} /\ loaded \in Nat /\ loaded <= n
  BY <1>1, <1>3
<1>6. loaded % n = IF loaded < n THEN loaded ELSE 0
  <2>1. loaded < n + n
    BY <1>5
  <2>2. loaded % n = IF loaded < n THEN loaded ELSE loaded - n
    BY <1>5, <2>1, WrapsOnce
  <2> QED BY <1>5, <2>2
<1>7. ASSUME NEW i \in 1..loaded PROVE GetAll'[i] = events[i]
  <2>1. Place(n, head', loaded, i) = i - 1
    <3>1. head' = IF loaded < n THEN loaded ELSE 0
      BY <1>2, <1>6
    <3>2. i \in Nat /\ 1 <= i /\ i <= loaded
      BY <1>5
    <3> DEFINE h == head'
    <3> HIDE DEF h
    <3>3. loaded = n => h = 0
      BY <1>5, <3>1 DEF h
    <3>4. Place(n, h, loaded, i) = i - 1
      BY <1>5, <3>2, <3>3 DEF Place
    <3> QED BY <3>4 DEF h
  <2>2. i - 1 \in 0..(n - 1) /\ i - 1 < loaded /\ (i - 1) + 1 = i
    BY <1>1, <1>3
  <2> QED BY <1>2, <1>4, <2>1, <2>2
<1>8. /\ SubSeq(events, 1, loaded) \in Seq(Event) /\ Len(SubSeq(events, 1, loaded)) = loaded
      /\ \A i \in 1..loaded : SubSeq(events, 1, loaded)[i] = events[i]
  BY <1>1, <1>3
<1>9. GetAll' = SubSeq(events, 1, loaded)
  BY <1>4, <1>7, <1>8, SeqEqual
<1>10. Copies' = {<<>>}
  BY <1>2 DEF Copies, Quiet, Savers
<1>11. GetAll' \in {SubSeq(file.events, 1, IF size' < Len(file.events) THEN size' ELSE Len(file.events)), <<>>}
  <2>1. CASE events = file.events
    BY <1>2, <1>3, <1>9, <2>1
  <2>2. CASE events = <<>>
    <3>1. loaded = 0
      BY <1>1, <1>3, <2>2
    <3> QED BY <1>4, <3>1
  <2> QED BY <2>1, <2>2
<1> QED BY <1>2, <1>10, <1>11 DEF Recent!Restart, Copies

LEMMA AbstractNext == BufferInv /\ BufferInv' /\ [Next]_vars => [Recent!Next]_Recent!vars
<1> SUFFICES ASSUME BufferInv, BufferInv', [Next]_vars PROVE Recent!Next \/ UNCHANGED Recent!vars
  OBVIOUS
<1>1. ASSUME NEW ip \in IPs, Add(ip) PROVE Recent!Next
  BY <1>1, AddIsAbstract DEF Recent!Next
<1>2. CASE Clear
  <2>1. GetAll' = <<>>
    BY <1>2, EmptyAfter DEF Clear
  <2>2. Recent!Clear
    BY <1>2, <2>1 DEF Clear, Recent!Clear, Running
  <2> QED BY <2>2 DEF Recent!Next
<1>3. ASSUME NEW p \in Savers, Snapshot(p) PROVE Recent!Next
  BY <1>3, SnapshotIsAbstract DEF Recent!Next
<1>4. ASSUME NEW p \in Savers, Open(p) \/ Write(p) PROVE Recent!Next
  BY <1>4, FileIsAbstract DEF Recent!Next
<1>5. CASE Exit \/ Crash
  <2>1. Running /\ Halt
    BY <1>5 DEF Exit, Crash, Running
  <2> QED BY <2>1, HaltIsAbstract DEF Recent!Next
<1>6. CASE Signal \/ UNCHANGED vars
  <2>1. UNCHANGED GetAll
    BY <1>6, SameBuffer DEF Signal, vars
  <2> QED BY <1>6, <2>1 DEF Signal, vars, Recent!vars, Running
<1>7. ASSUME NEW n \in Sizes, New(n) PROVE Recent!Next
  BY <1>7, NewIsAbstract DEF Recent!Next
<1> QED BY <1>1, <1>2, <1>3, <1>4, <1>5, <1>6, <1>7 DEF Next

\* The circular buffer with its wrapping index is the bounded list of the
\* newest events, and the file a copy that was taken of it, across overlapping saves,
\* crashes and restarts with another size.
THEOREM BufferImplementsRecent == ASSUME GrayZoneAssumption PROVE Spec => BufferIsRecent
<1>1. Init => Recent!Init
  <2> SUFFICES ASSUME Init PROVE Recent!Init
    OBVIOUS
  <2>1. BufferInv /\ count = 0 /\ size \in Sizes
    BY BufferInit DEF Init
  <2>2. {saver[p].snapshot : p \in Savers} = {<<>>}
    BY DEF Init, Quiet, Savers
  <2>3. Running = TRUE
    BY DEF Init, Running
  <2>4. added = 0 /\ file.events = <<>>
    BY DEF Init, Absent, Array
  <2>5. GetAll = <<>>
    BY <2>1, GetAllIs
  <2> QED BY <2>1, <2>2, <2>3, <2>4, <2>5 DEF Recent!Init
<1> QED BY <1>1, BufferCorrect, AbstractNext, PTL DEF Spec, BufferIsRecent, Recent!Spec

-----------------------------------------------------------------------------
(* The readers of the buffer.                                              *)

\* Counted backwards from head, the i-th newest entry is where the (c + 1 - i)-th oldest
\* one is.
LEMMA NewestIs ==
  ASSUME NEW n \in Nat \ {0}, NEW h \in 0..(n - 1), NEW c \in 0..n, c < n => h = c,
         NEW i \in 1..c
  PROVE  ((h + n) - i) % n = Place(n, h, c, c + 1 - i)
<1> DEFINE x == (h + n) - i
<1>1. x \in Nat /\ x < n + n
  OBVIOUS
<1>2. Place(n, h, c, c + 1 - i) = IF x < n THEN x ELSE x - n
  BY DEF Place
<1> HIDE DEF x
<1>3. x % n = IF x < n THEN x ELSE x - n
  BY <1>1, WrapsOnce
<1> QED BY <1>2, <1>3 DEF x

\* The slots the two searches look at, in order, are those of GetAll.
LEMMA SlotIs ==
  ASSUME BufferInv, NEW i \in 1..count
  PROVE  Slot(i - 1) = Place(size, head, count, i)
<1>1. ((IF count = size THEN head ELSE 0) + i - 1) % size = Place(size, head, count, i)
  BY Typed, PlaceIs
<1>2. CASE count = size
  <2>1. head + (i - 1) = (IF count = size THEN head ELSE 0) + i - 1
    BY <1>2, Typed
  <2> QED BY <1>1, <1>2, <2>1 DEF Slot
<1>3. CASE count # size
  BY <1>3, Typed DEF Slot, Place
<1> QED BY <1>2, <1>3

LEMMA ScannedIsAll ==
  ASSUME BufferInv
  PROVE  [i \in 1..count |-> entries[Slot(i - 1)]] = GetAll
BY SlotIs, GetAllIs

\* What the readers of the buffer return of it agrees, at every fill and wherever the
\* index has wrapped (GetRecent, GetByIP, getAllLocked).
THEOREM ReadersAlwaysAgree == ASSUME GrayZoneAssumption PROVE Spec => []ReadersAgree
<1>1. BufferInv => ReadersAgree
  <2> SUFFICES ASSUME BufferInv PROVE ReadersAgree
    OBVIOUS
  <2>1. ASSUME NEW n \in 0..(size + 1), NEW i \in 1..size, i <= n, i <= count
        PROVE  GetRecent(n)[i] = GetAll[count + 1 - i]
    <3>1. /\ size \in Nat \ {0} /\ head \in 0..(size - 1) /\ count \in 0..size
          /\ count < size => head = count
          /\ i \in 1..count /\ count + 1 - i \in 1..count
      BY <2>1, Typed DEF BufferInv, Filled
    <3>2. i \in 1..Least(n, count)
      BY <2>1, <3>1 DEF Least
    <3>3. GetRecent(n)[i] = entries[((head + size) - i) % size]
      BY <3>2 DEF GetRecent
    <3>4. ((head + size) - i) % size = Place(size, head, count, count + 1 - i)
      BY <3>1, NewestIs
    <3>5. GetAll[count + 1 - i] = entries[Place(size, head, count, count + 1 - i)]
      BY <3>1, GetAllIs
    <3> QED BY <3>3, <3>4, <3>5
  <2>2. ASSUME NEW ip \in IPs PROVE GetByIP(ip) = SelectSeq(GetAll, LAMBDA e : e.ip = ip)
    BY ScannedIsAll DEF GetByIP
  <2> QED BY <2>1, <2>2 DEF ReadersAgree
<1> QED BY <1>1, BufferCorrect, PTL

-----------------------------------------------------------------------------
(* The save of Shutdown.                                                   *)

\* As long as no autosave runs beside it, the file is the one that it has left.
FlushInv ==
  /\ saver["autosave"].pc \notin {"saved", "failed"}
  /\ savesAlone /\ saver["shutdown"].pc # "idle" => saver["autosave"].pc = "idle"
  /\ savesAlone /\ saver["shutdown"].pc = "write" => file = Empty
  /\ ShutdownFlushes

LEMMA FlushInit == Init => FlushInv
BY DEF Init, FlushInv, ShutdownFlushes, Savers, Quiet

LEMMA FlushNext == BufferInv /\ FlushInv /\ [Next]_vars => FlushInv'
<1> SUFFICES ASSUME BufferInv, FlushInv, [Next]_vars PROVE FlushInv'
  OBVIOUS
<1>0. /\ saver \in SaverStates /\ "autosave" \in Savers /\ "shutdown" \in Savers
      /\ \A p \in Savers : p = "autosave" \/ p = "shutdown"
  BY DEF BufferInv, TypeOK, SaverStates, Savers
<1>1. CASE UNCHANGED <<file, saver, savesAlone>>
  BY <1>1 DEF FlushInv, ShutdownFlushes
<1>2. ASSUME NEW p \in Savers, Snapshot(p) PROVE FlushInv'
  <2>1. /\ saver[p].pc = "idle" /\ file' = file
        /\ saver' = [saver EXCEPT ![p] = [pc |-> "open", snapshot |-> GetAll]]
        /\ savesAlone' = (IF p = "shutdown" THEN saver["autosave"].pc = "idle"
                     ELSE savesAlone /\ saver["shutdown"].pc = "idle")
    BY <1>2 DEF Snapshot
  <2>2. saver'[p].pc = "open" /\ \A q \in Savers : q # p => saver'[q] = saver[q]
    BY <1>0, <2>1 DEF SaverStates
  <2> QED BY <1>0, <2>1, <2>2 DEF FlushInv, ShutdownFlushes
<1>3. ASSUME NEW p \in Savers, NEW result, Return(p, result)
      PROVE  /\ \A q \in Savers : q # p => saver'[q] = saver[q]
             /\ p = "autosave" => saver'[p].pc = "idle"
             /\ p = "shutdown" => saver'[p].pc = result /\ saver'[p].snapshot = saver[p].snapshot
  <2>1. saver[p] \in [pc : {"idle", "open", "write", "saved", "failed"}, snapshot : Seq(Event)]
    BY <1>0 DEF SaverStates
  <2>2. /\ [saver[p] EXCEPT !.pc = result].pc = result
        /\ [saver[p] EXCEPT !.pc = result].snapshot = saver[p].snapshot
    BY <2>1
  <2>3. saver' = [saver EXCEPT ![p] = IF p = "autosave" THEN Quiet ELSE [saver[p] EXCEPT !.pc = result]]
    BY <1>3 DEF Return
  <2>4. /\ saver'[p] = IF p = "autosave" THEN Quiet ELSE [saver[p] EXCEPT !.pc = result]
        /\ \A q \in Savers : q # p => saver'[q] = saver[q]
    BY <1>0, <2>3 DEF SaverStates
  <2> QED BY <2>2, <2>4 DEF Quiet
<1>4. ASSUME NEW p \in Savers, Open(p) PROVE FlushInv'
  <2>1. saver[p].pc = "open" /\ savesAlone' = savesAlone
    BY <1>4 DEF Open
  <2>2. CASE file' = Empty /\ saver' = [saver EXCEPT ![p].pc = "write"]
    <3>1. saver'[p].pc = "write" /\ \A q \in Savers : q # p => saver'[q] = saver[q]
      BY <1>0, <2>2 DEF SaverStates
    <3> QED BY <1>0, <2>1, <2>2, <3>1 DEF FlushInv, ShutdownFlushes
  <2>3. CASE UNCHANGED file /\ Return(p, "failed")
    BY <1>0, <1>3, <2>1, <2>3 DEF FlushInv, ShutdownFlushes
  <2> QED BY <1>4, <2>2, <2>3 DEF Open
<1>5. ASSUME NEW p \in Savers, Write(p) PROVE FlushInv'
  <2> DEFINE data == Array(saver[p].snapshot)
  <2>1. saver[p].pc = "write" /\ savesAlone' = savesAlone
    BY <1>5 DEF Write
  <2>2. CASE p = "autosave"
    <3>1. /\ saver'["autosave"].pc = "idle" /\ saver'["shutdown"] = saver["shutdown"]
          /\ savesAlone => saver["shutdown"].pc = "idle"
      BY <1>0, <1>3, <1>5, <2>1, <2>2 DEF Write, FlushInv
    <3> QED BY <2>1, <3>1 DEF FlushInv, ShutdownFlushes
  <2>3. CASE p = "shutdown"
    <3>1. saver'["autosave"] = saver["autosave"]
      BY <1>0, <1>3, <1>5, <2>3 DEF Write
    <3>2. savesAlone => file = Empty /\ saver["autosave"].pc = "idle"
      BY <2>1, <2>3 DEF FlushInv
    <3>3. CASE /\ file' = data \/ (file \notin {Empty, data} /\ file' = Garbled)
               /\ Return(p, "saved")
      <4>1. saver'["shutdown"].pc = "saved" /\ Array(saver'["shutdown"].snapshot) = data
        BY <1>3, <2>3, <3>3
      <4>2. savesAlone => file' = data
        BY <3>2, <3>3
      <4> QED BY <2>1, <3>1, <3>2, <4>1, <4>2 DEF FlushInv, ShutdownFlushes
    <3>4. CASE Return(p, "failed")
      <4>1. saver'["shutdown"].pc = "failed"
        BY <1>3, <2>3, <3>4
      <4> QED BY <2>1, <3>1, <3>2, <4>1 DEF FlushInv, ShutdownFlushes
    <3> QED BY <1>5, <3>3, <3>4 DEF Write
  <2> QED BY <1>0, <2>2, <2>3
<1>6. CASE Exit \/ Crash
  <2>1. /\ \A p \in Savers : saver'[p] = IF saver[p].pc \in {"saved", "failed"} THEN saver[p] ELSE Quiet
        /\ file' = file /\ savesAlone' = savesAlone
    BY <1>6 DEF Exit, Crash, Halt
  <2>2. saver'["autosave"] = Quiet /\ Quiet.pc = "idle"
    BY <1>0, <2>1 DEF FlushInv, Quiet
  <2> QED BY <1>0, <2>1, <2>2 DEF FlushInv, ShutdownFlushes
<1>7. ASSUME NEW n \in Sizes, New(n) PROVE FlushInv'
  <2>1. \A p \in Savers : saver'[p].pc = "idle"
    BY <1>7 DEF New, Quiet
  <2> QED BY <1>0, <2>1 DEF FlushInv, ShutdownFlushes
<1> QED BY <1>1, <1>2, <1>4, <1>5, <1>6, <1>7 DEF Next, vars, Add, Clear, Signal

\* A save of Shutdown that reports success, and that no autosave overlapped with, has put
\* into the file what the buffer held, and there it stays, over the exit or a crash, until
\* the next start (Shutdown, SaveToFile).
THEOREM ShutdownAlwaysFlushes == ASSUME GrayZoneAssumption PROVE Spec => []ShutdownFlushes
<1>1. FlushInv => ShutdownFlushes
  BY DEF FlushInv
<1> QED BY <1>1, BufferInit, BufferNext, FlushInit, FlushNext, PTL DEF Spec
=============================================================================
