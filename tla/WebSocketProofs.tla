--------------------------- MODULE WebSocketProofs ---------------------------
(***************************************************************************)
(* Theorems about WebSocketClient and the DeviceReport in it, for any      *)
(* number of devices, beacons and messages on the way.                     *)
(*                                                                         *)
(* The invariant has a part for each kind of state: the list of devices    *)
(* (ListInv), the report that is being built from it (ReportInv) and the   *)
(* connection to the remote service (LinkInv).  The epoll thread changes   *)
(* the list while the report is built, so that ReportInv has to say how    *)
(* what has been read of an entry relates to what is in the list now.      *)
(***************************************************************************)
EXTENDS WebSocketClient, TLAPS

-----------------------------------------------------------------------------
(***************************************************************************)
(* The list.                                                               *)
(***************************************************************************)
Entry == [dev : Nat, time : Nat, lock : Nat, door : Nat]
EpollAt == {"idle", "data", "copy", "length", "door", "time"}

ListTypes ==
    /\ devInfos \in Seq(Entry)
    /\ length \in Nat /\ allocated \in Nat /\ listIncrement \in Nat \ {0}
    /\ block \in Nat /\ data \in Nat
    /\ beacons \in 0 .. MaxBeacons
    /\ epoll \in [at : EpollAt, dev : Nat]

\* The entries are those that are counted and, in the middle of addToList, one
\* more; there is memory for them, and the arrayList points to it except in the
\* middle of realloc.
ListShape ==
    /\ Len(devInfos) = IF epoll.at = "length" THEN length + 1 ELSE length
    /\ length <= allocated /\ length <= MaxDevices
    /\ epoll.at \in {"copy", "length"} => length < allocated
    /\ epoll.at \in {"data", "copy", "length"} => length < MaxDevices
    /\ epoll.at \in {"data", "copy"} => epoll.dev = length + 1
    /\ epoll.at \in {"door", "time"} => epoll.dev \in 1 .. length
    /\ data <= block
    /\ epoll.at # "data" => data = block

\* In each entry the time is not newer than the door state and that not newer than
\* the lock state; the last two differ only between BeaconLock and BeaconDoor.
Fresh(e, k) ==
    /\ e.dev = k
    /\ e.time <= e.door
    /\ e.lock = IF epoll.at = "door" /\ epoll.dev = k THEN e.door + 1 ELSE e.door
EntriesFresh == \A k \in DOMAIN devInfos : Fresh(devInfos[k], k)

ListInv == ListTypes /\ ListShape /\ EntriesFresh

-----------------------------------------------------------------------------
(***************************************************************************)
(* The report.                                                             *)
(***************************************************************************)
ReadEntry == [dev : Nat, time : Nat, lock : Nat, door : Nat, junk : BOOLEAN]
ReportAt == {"idle", "loop", "time", "lock", "door", "devicesFound", "noDevices"}

ReportTypes ==
    /\ report \in [at : ReportAt, i : Nat, block : Nat,
                   entry : ReadEntry \cup {<<>>}, entries : Seq(ReadEntry)]
    /\ known \in Nat /\ moved \in BOOLEAN

\* The report is at the entry behind those it has read, which is in the list
\* while it is read, and reads freed memory only if the list has moved.
ReportPlace ==
    /\ report.at = "idle" => report = NoReport
    /\ report.at # "idle" =>
          /\ report.i = Len(report.entries) + 1
          /\ Len(report.entries) <= length
          /\ known <= length
          /\ data # block => moved
    /\ report.at \in {"time", "lock", "door"} =>
          /\ report.i <= length
          /\ report.block # block => moved

\* What has been read of the current entry: it is not newer than what is there.
ReportCurrent ==
    report.at \in {"lock", "door"} =>
        /\ report.entry \in ReadEntry
        /\ IF report.entry.junk THEN moved ELSE report.entry.dev = report.i
        /\ report.at = "lock" /\ ~report.entry.junk =>
              report.entry.time <= devInfos[report.i].lock
        /\ report.at = "door" /\ ~report.entry.junk =>
              /\ report.entry.time <= report.entry.lock
              /\ report.entry.lock <= devInfos[report.i].door + 1

ReportInv ==
    /\ ReportTypes
    /\ ReportPlace
    /\ ReportCurrent
    /\ ReportAges
    /\ ReportComplete

-----------------------------------------------------------------------------
(***************************************************************************)
(* The connection.                                                         *)
(***************************************************************************)
Message == [state : {"0", "1", "other", "missing"},
            action : {"none", "deviceCommand", "getDeviceInfo"}]

LinkTypes ==
    /\ web_socket \in {"NULL", "connecting", "open"}
    /\ connectionAuthenticated \in 0 .. 2
    /\ writable \in BOOLEAN /\ remoteAuth \in BOOLEAN /\ owed \in BOOLEAN
    /\ toRemote \in Seq({"credentials", "report"})
    /\ toClient \in Seq(Message)

\* Without a connection nothing is on the way and nothing is agreed.
NotOpen ==
    web_socket # "open" =>
        /\ toRemote = <<>>
        /\ connectionAuthenticated = 0

\* A connection that does not count as authenticated has nothing to receive;
\* while authentication is in progress either the credentials are on the way or
\* the answer is the first message to be received.
AuthStates ==
    /\ connectionAuthenticated = 0 => toClient = <<>> /\ ~remoteAuth
    /\ connectionAuthenticated = 2 =>
          \/ Credentials # {} /\ toClient = <<>>
          \/ /\ Credentials = {} /\ toClient # <<>>
             /\ toClient[1].state \in {"0", "1"}

\* A withdrawal is the last message the remote service sends, and is there as
\* long as the server has not got it.
Withdrawal ==
    /\ \A k \in DOMAIN toClient : toClient[k].state = "0" => k = Len(toClient) /\ ~remoteAuth
    /\ ~remoteAuth /\ connectionAuthenticated # 0 /\ Credentials = {} =>
          toClient # <<>> /\ toClient[Len(toClient)].state = "0"

\* WRITEABLE is asked for in order to authenticate or for a report that is owed.
Owing ==
    /\ connectionAuthenticated # 0 /\ writable => owed
    /\ owed => connectionAuthenticated # 0
    /\ report.at # "idle" => ~writable

LinkInv ==
    /\ LinkTypes
    /\ NotOpen
    /\ CredentialsOnce
    /\ AuthStates
    /\ Withdrawal
    /\ Owing
    /\ ReportsOnRequest

WebSocketInv == ListInv /\ ReportInv /\ LinkInv

-----------------------------------------------------------------------------
(***************************************************************************)
(* Sequences.                                                              *)
(***************************************************************************)

\* The elements of a sequence when one is replaced.
LEMMA ExceptElements ==
    ASSUME NEW S, NEW q \in Seq(S), NEW i \in DOMAIN q, NEW e \in S
    PROVE  /\ [q EXCEPT ![i] = e] \in Seq(S)
           /\ Len([q EXCEPT ![i] = e]) = Len(q)
           /\ DOMAIN [q EXCEPT ![i] = e] = DOMAIN q
           /\ [q EXCEPT ![i] = e][i] = e
           /\ \A k \in DOMAIN q : k # i => [q EXCEPT ![i] = e][k] = q[k]
  OBVIOUS

\* The elements of a sequence when one is appended.
LEMMA AppendElements ==
    ASSUME NEW S, NEW q \in Seq(S), NEW e \in S
    PROVE  /\ Append(q, e) \in Seq(S) /\ Len(Append(q, e)) = Len(q) + 1 /\ Len(q) \in Nat
           /\ DOMAIN q = 1 .. Len(q) /\ DOMAIN Append(q, e) = 1 .. (Len(q) + 1)
           /\ Append(q, e)[Len(q) + 1] = e
           /\ \A k \in DOMAIN q : Append(q, e)[k] = q[k]
  OBVIOUS

\* The elements behind the head of a sequence.
LEMMA TailElements ==
    ASSUME NEW S, NEW q \in Seq(S), q # <<>>
    PROVE  /\ Tail(q) \in Seq(S) /\ Len(Tail(q)) = Len(q) - 1 /\ Len(q) \in Nat \ {0}
           /\ DOMAIN q = 1 .. Len(q) /\ DOMAIN Tail(q) = 1 .. (Len(q) - 1)
           /\ Head(q) = q[1] /\ Head(q) \in S
           /\ \A k \in DOMAIN Tail(q) : k + 1 \in DOMAIN q /\ Tail(q)[k] = q[k + 1]
  OBVIOUS

-----------------------------------------------------------------------------
(***************************************************************************)
(* The epoll thread and the list.                                          *)
(***************************************************************************)

\* What an entry holds.
LEMMA EntryTypes ==
    ASSUME ListTypes, NEW k \in DOMAIN devInfos
    PROVE  /\ devInfos[k] \in Entry
           /\ devInfos[k].time \in Nat /\ devInfos[k].lock \in Nat /\ devInfos[k].door \in Nat
<1>1. devInfos[k] \in Entry
  BY DEF ListTypes
<1> QED
  BY <1>1 DEF Entry

\* Initially the list is empty.
LEMMA ListInit ==
    ASSUME ReportInit
    PROVE  ListInv
<1>1. devInfos = <<>> /\ devInfos \in Seq(Entry) /\ Len(devInfos) = 0 /\ DOMAIN devInfos = {}
  BY DEF ReportInit
<1>2. ListTypes
  BY <1>1, IncrementAssumption, MaxBeaconsAssumption DEF ReportInit, ListTypes, EpollAt
<1>3. ListShape
  BY <1>1, IncrementAssumption, MaxDevicesAssumption DEF ReportInit, ListShape
<1> QED
  BY <1>1, <1>2, <1>3 DEF ListInv, EntriesFresh

\* What a step of the epoll thread may do to the report: the list only grows,
\* what is in it only gets newer, and memory is freed only if moved says so.
Grows ==
    /\ report' = report /\ known' = known
    /\ moved' \in BOOLEAN /\ (moved => moved')
    /\ length <= length'
    /\ \A k \in DOMAIN devInfos :
          /\ k \in DOMAIN devInfos'
          /\ devInfos[k].lock <= devInfos'[k].lock
          /\ devInfos[k].door <= devInfos'[k].door
    /\ report.at # "idle" => /\ block' # block => moved'
                             /\ data' # block' => data # block \/ moved'

\* realloc.
LEMMA ReallocList ==
    ASSUME ListInv, ReportInv, Realloc
    PROVE  ListInv' /\ Grows
<1>1. ListTypes /\ ListShape /\ EntriesFresh /\ moved \in BOOLEAN
  BY DEF ListInv, ReportInv, ReportTypes
<1>2. /\ epoll.at = "idle" /\ length < MaxDevices
      /\ listIncrement' = 2 * listIncrement /\ block' \in {block, block + 1}
      /\ moved' = (moved \/ (report.at # "idle" /\ block' # block))
      /\ epoll'.at = "data" /\ epoll'.dev = length + 1
      /\ epoll' \in [at : EpollAt, dev : Nat]
      /\ UNCHANGED <<devInfos, length, allocated, data, beacons, report, known>>
  BY <1>1 DEF Realloc, ListTypes, EpollAt
<1>3. ListTypes'
  BY <1>1, <1>2 DEF ListTypes
<1>4. ListShape'
  BY <1>1, <1>2 DEF ListShape, ListTypes
<1>5. EntriesFresh'
  BY <1>1, <1>2 DEF EntriesFresh, Fresh
<1>6. Grows
  <2>1. \A k \in DOMAIN devInfos : devInfos[k].lock \in Nat /\ devInfos[k].door \in Nat
    BY <1>1, EntryTypes
  <2>2. data = block
    BY <1>1, <1>2 DEF ListShape
  <2>3. moved' \in BOOLEAN /\ (moved => moved')
    BY <1>1, <1>2
  <2>4. report.at # "idle" /\ block' # block => moved'
    BY <1>2
  <2>5. \A k \in DOMAIN devInfos :
          /\ k \in DOMAIN devInfos'
          /\ devInfos[k].lock <= devInfos'[k].lock
          /\ devInfos[k].door <= devInfos'[k].door
    BY <1>2, <2>1
  <2>6. length <= length' /\ report' = report /\ known' = known
    BY <1>1, <1>2 DEF ListTypes
  <2> QED
    BY <1>2, <2>2, <2>3, <2>4, <2>5, <2>6 DEF Grows
<1> QED
  BY <1>3, <1>4, <1>5, <1>6 DEF ListInv

\* A step that leaves the entries alone.
LEMMA SameEntriesGrow ==
    ASSUME ListInv, ReportInv, ListInv', length <= length',
           UNCHANGED <<devInfos, block, reportVars>>,
           data' = data \/ data' = block
    PROVE  Grows
<1>1. \A k \in DOMAIN devInfos : devInfos[k].lock \in Nat /\ devInfos[k].door \in Nat
  BY EntryTypes DEF ListInv
<1> QED
  BY <1>1 DEF Grows, ReportInv, ReportTypes, reportVars

\* The arrayList gets its new memory.
LEMMA AssignDataList ==
    ASSUME ListInv, ReportInv, AssignData
    PROVE  ListInv' /\ Grows
<1>1. ListTypes /\ ListShape /\ EntriesFresh
  BY DEF ListInv
<1>2. /\ epoll.at = "data" /\ data' = block /\ allocated' = allocated + listIncrement
      /\ epoll'.at = "copy" /\ epoll'.dev = epoll.dev
      /\ epoll' \in [at : EpollAt, dev : Nat]
      /\ UNCHANGED <<devInfos, length, listIncrement, block, beacons, reportVars>>
  BY <1>1 DEF AssignData, ListTypes, EpollAt
<1>3. ListTypes'
  BY <1>1, <1>2 DEF ListTypes
<1>4. ListShape'
  BY <1>1, <1>2 DEF ListShape, ListTypes
<1>5. EntriesFresh'
  BY <1>1, <1>2 DEF EntriesFresh, Fresh
<1>6. ListInv'
  BY <1>3, <1>4, <1>5 DEF ListInv
<1>7. length <= length'
  BY <1>1, <1>2 DEF ListTypes
<1> QED
  BY <1>2, <1>6, <1>7, SameEntriesGrow

\* There is memory for one more entry.
LEMMA EnoughMemoryList ==
    ASSUME ListInv, ReportInv, EnoughMemory
    PROVE  ListInv' /\ Grows
<1>1. ListTypes /\ ListShape /\ EntriesFresh
  BY DEF ListInv
<1>2. /\ epoll.at = "idle" /\ length < MaxDevices /\ allocated > length
      /\ epoll'.at = "copy" /\ epoll'.dev = length + 1
      /\ epoll' \in [at : EpollAt, dev : Nat]
      /\ UNCHANGED <<devInfos, length, allocated, listIncrement, block, data, beacons,
                     reportVars>>
  BY <1>1 DEF EnoughMemory, ListTypes, EpollAt
<1>3. ListTypes'
  BY <1>1, <1>2 DEF ListTypes
<1>4. ListShape'
  BY <1>1, <1>2 DEF ListShape, ListTypes
<1>5. EntriesFresh'
  BY <1>1, <1>2 DEF EntriesFresh, Fresh
<1>6. ListInv'
  BY <1>3, <1>4, <1>5 DEF ListInv
<1>7. length <= length'
  BY <1>1, <1>2 DEF ListTypes
<1> QED
  BY <1>2, <1>6, <1>7, SameEntriesGrow

\* The entry is counted.
LEMMA CountEntryList ==
    ASSUME ListInv, ReportInv, CountEntry
    PROVE  ListInv' /\ Grows
<1>1. ListTypes /\ ListShape /\ EntriesFresh
  BY DEF ListInv
<1>2. /\ epoll.at = "length" /\ length' = length + 1
      /\ epoll'.at = "idle"
      /\ epoll' \in [at : EpollAt, dev : Nat]
      /\ UNCHANGED <<devInfos, allocated, listIncrement, block, data, beacons, reportVars>>
  BY <1>1 DEF CountEntry, ListTypes, EpollAt
<1>3. ListTypes'
  BY <1>1, <1>2 DEF ListTypes
<1>4. ListShape'
  BY <1>1, <1>2, MaxDevicesAssumption DEF ListShape, ListTypes
<1>5. EntriesFresh'
  BY <1>1, <1>2 DEF EntriesFresh, Fresh
<1>6. ListInv'
  BY <1>3, <1>4, <1>5 DEF ListInv
<1>7. length <= length'
  BY <1>1, <1>2 DEF ListTypes
<1> QED
  BY <1>2, <1>6, <1>7, SameEntriesGrow

\* An entry for the new device: no beacon has come for it.
LEMMA CopyEntryList ==
    ASSUME ListInv, ReportInv, CopyEntry
    PROVE  ListInv' /\ Grows
<1> DEFINE e == [dev |-> epoll.dev, time |-> 0, lock |-> 0, door |-> 0]
<1>1. ListTypes /\ ListShape /\ EntriesFresh /\ moved \in BOOLEAN
  BY DEF ListInv, ReportInv, ReportTypes
<1>2. /\ epoll.at = "copy" /\ devInfos' = Append(devInfos, e)
      /\ epoll'.at = "length" /\ epoll'.dev = epoll.dev
      /\ epoll' \in [at : EpollAt, dev : Nat]
      /\ UNCHANGED <<length, allocated, listIncrement, block, data, beacons, report, known,
                     moved>>
  BY <1>1 DEF CopyEntry, ListTypes, EpollAt, reportVars
<1>3. e \in Entry /\ e.dev = length + 1 /\ e.time = 0 /\ e.lock = 0 /\ e.door = 0
  BY <1>1, <1>2 DEF ListTypes, ListShape, Entry
<1> HIDE DEF e
<1>4. /\ devInfos' \in Seq(Entry) /\ Len(devInfos') = length + 1
      /\ DOMAIN devInfos = 1 .. length /\ DOMAIN devInfos' = 1 .. (length + 1)
      /\ devInfos'[length + 1] = e
      /\ \A k \in DOMAIN devInfos : devInfos'[k] = devInfos[k]
  <2>1. Len(devInfos) = length
    BY <1>1, <1>2 DEF ListShape
  <2> QED
    BY <1>1, <1>2, <1>3, <2>1, AppendElements DEF ListTypes
<1>5. ListTypes'
  BY <1>1, <1>2, <1>4 DEF ListTypes
<1>6. ListShape'
  BY <1>1, <1>2, <1>4 DEF ListShape, ListTypes
<1>7. EntriesFresh'
  <2> SUFFICES ASSUME NEW k \in DOMAIN devInfos' PROVE Fresh(devInfos[k], k)'
    BY DEF EntriesFresh
  <2>1. CASE k = length + 1
    BY <1>2, <1>3, <1>4, <2>1 DEF Fresh
  <2>2. CASE k # length + 1
    <3>1. k \in DOMAIN devInfos
      BY <1>1, <1>4, <2>2 DEF ListTypes
    <3>2. Fresh(devInfos[k], k)
      BY <1>1, <3>1 DEF EntriesFresh
    <3> QED
      BY <1>2, <1>4, <3>1, <3>2 DEF Fresh
  <2> QED
    BY <2>1, <2>2
<1>8. Grows
  <2>1. \A k \in DOMAIN devInfos :
          /\ k \in DOMAIN devInfos'
          /\ devInfos[k].lock <= devInfos'[k].lock
          /\ devInfos[k].door <= devInfos'[k].door
    BY <1>1, <1>4, EntryTypes DEF ListTypes
  <2>2. length <= length'
    BY <1>1, <1>2 DEF ListTypes
  <2> QED
    BY <1>1, <1>2, <2>1, <2>2 DEF Grows
<1> QED
  BY <1>5, <1>6, <1>7, <1>8 DEF ListInv

\* A step of a beacon: one entry is changed, and gets newer.
LEMMA BeaconStep ==
    ASSUME ListInv, ReportInv, NEW i \in DOMAIN devInfos, NEW e \in Entry,
           devInfos' = [devInfos EXCEPT ![i] = e],
           epoll.at \in {"idle", "door", "time"}, i \in 1 .. length,
           epoll.at # "idle" => epoll.dev = i,
           epoll' \in [at : EpollAt, dev : Nat],
           epoll'.at \in {"idle", "door", "time"},
           epoll'.at # "idle" => epoll'.dev = i,
           beacons' \in 0 .. MaxBeacons,
           UNCHANGED <<length, allocated, listIncrement, block, data, reportVars>>,
           e.dev = i, e.time <= e.door,
           e.lock = IF epoll'.at = "door" /\ epoll'.dev = i THEN e.door + 1 ELSE e.door,
           devInfos[i].lock <= e.lock, devInfos[i].door <= e.door
    PROVE  ListInv' /\ Grows
<1>1. ListTypes /\ ListShape /\ EntriesFresh /\ moved \in BOOLEAN
  BY DEF ListInv, ReportInv, ReportTypes
<1>2. /\ devInfos' \in Seq(Entry) /\ Len(devInfos') = Len(devInfos)
      /\ DOMAIN devInfos' = DOMAIN devInfos
      /\ devInfos'[i] = e
      /\ \A k \in DOMAIN devInfos : k # i => devInfos'[k] = devInfos[k]
  BY <1>1, ExceptElements DEF ListTypes
<1>3. ListTypes'
  BY <1>1, <1>2 DEF ListTypes
<1>4. ListShape'
  BY <1>1, <1>2 DEF ListShape, ListTypes
<1>5. EntriesFresh'
  <2> SUFFICES ASSUME NEW k \in DOMAIN devInfos PROVE Fresh(devInfos[k], k)'
    BY <1>2 DEF EntriesFresh
  <2>1. CASE k = i
    BY <1>2, <2>1 DEF Fresh
  <2>2. CASE k # i
    <3>1. Fresh(devInfos[k], k)
      BY <1>1 DEF EntriesFresh
    <3> QED
      BY <1>2, <2>2, <3>1 DEF Fresh
  <2> QED
    BY <2>1, <2>2
<1>6. Grows
  <2>1. ASSUME NEW k \in DOMAIN devInfos
        PROVE  /\ k \in DOMAIN devInfos'
               /\ devInfos[k].lock <= devInfos'[k].lock
               /\ devInfos[k].door <= devInfos'[k].door
    <3>1. devInfos[k].lock \in Nat /\ devInfos[k].door \in Nat
      BY <1>1, EntryTypes
    <3> QED
      BY <1>2, <3>1
  <2>2. length <= length'
    BY <1>1 DEF ListTypes
  <2> QED
    BY <1>1, <2>1, <2>2 DEF Grows, reportVars
<1> QED
  BY <1>3, <1>4, <1>5, <1>6 DEF ListInv

\* nodeToServerBeacon writes the lock state.
LEMMA BeaconLockList ==
    ASSUME ListInv, ReportInv, NEW i \in DOMAIN devInfos, BeaconLock(i)
    PROVE  ListInv' /\ Grows
<1> DEFINE e == [devInfos[i] EXCEPT !.lock = devInfos[i].lock + 1]
<1>1. ListTypes /\ ListShape /\ EntriesFresh
  BY DEF ListInv
<1>2. /\ epoll.at = "idle" /\ i \in 1 .. length /\ beacons' \in 0 .. MaxBeacons
      /\ devInfos' = [devInfos EXCEPT ![i] = e]
      /\ epoll'.at = "door" /\ epoll'.dev = i /\ epoll' \in [at : EpollAt, dev : Nat]
      /\ UNCHANGED <<length, allocated, listIncrement, block, data, reportVars>>
  BY <1>1, MaxBeaconsAssumption DEF BeaconLock, ListTypes, EpollAt
<1>3. /\ devInfos[i] \in Entry /\ devInfos[i].time \in Nat
      /\ devInfos[i].lock \in Nat /\ devInfos[i].door \in Nat
  BY <1>1, EntryTypes
<1>4. /\ e \in Entry /\ e.dev = devInfos[i].dev /\ e.time = devInfos[i].time
      /\ e.lock = devInfos[i].lock + 1 /\ e.door = devInfos[i].door
  BY <1>3 DEF Entry
<1> HIDE DEF e
<1>5. Fresh(devInfos[i], i)
  BY <1>1 DEF EntriesFresh
<1>6. /\ e.dev = i /\ e.time <= e.door
      /\ e.lock = IF epoll'.at = "door" /\ epoll'.dev = i THEN e.door + 1 ELSE e.door
  BY <1>2, <1>3, <1>4, <1>5 DEF Fresh
<1>7. devInfos[i].lock <= e.lock /\ devInfos[i].door <= e.door
  BY <1>3, <1>4
<1> QED
  BY <1>2, <1>4, <1>6, <1>7, BeaconStep

\* nodeToServerBeacon writes the door state.
LEMMA BeaconDoorList ==
    ASSUME ListInv, ReportInv, BeaconDoor
    PROVE  ListInv' /\ Grows
<1> DEFINE i == epoll.dev
           e == [devInfos[i] EXCEPT !.door = devInfos[i].lock]
<1>1. ListTypes /\ ListShape /\ EntriesFresh
  BY DEF ListInv
<1>2. /\ epoll.at = "door" /\ beacons' \in 0 .. MaxBeacons
      /\ devInfos' = [devInfos EXCEPT ![i] = e]
      /\ epoll'.at = "time" /\ epoll'.dev = i /\ epoll' \in [at : EpollAt, dev : Nat]
      /\ UNCHANGED <<length, allocated, listIncrement, block, data, reportVars>>
  BY <1>1 DEF BeaconDoor, ListTypes, EpollAt
<1>3. i \in 1 .. length /\ i \in DOMAIN devInfos
  BY <1>1, <1>2 DEF ListShape, ListTypes
<1>4. /\ devInfos[i] \in Entry /\ devInfos[i].time \in Nat
      /\ devInfos[i].lock \in Nat /\ devInfos[i].door \in Nat
  BY <1>1, <1>3, EntryTypes
<1>5. /\ e \in Entry /\ e.dev = devInfos[i].dev /\ e.time = devInfos[i].time
      /\ e.lock = devInfos[i].lock /\ e.door = devInfos[i].lock
  BY <1>4 DEF Entry
<1>6. Fresh(devInfos[i], i)
  BY <1>1, <1>3 DEF EntriesFresh
<1> HIDE DEF e
<1>7. /\ e.dev = i /\ e.time <= e.door
      /\ e.lock = IF epoll'.at = "door" /\ epoll'.dev = i THEN e.door + 1 ELSE e.door
  BY <1>2, <1>4, <1>5, <1>6 DEF Fresh
<1>8. devInfos[i].lock <= e.lock /\ devInfos[i].door <= e.door
  BY <1>2, <1>4, <1>5, <1>6 DEF Fresh
<1>9. epoll.dev = i
  OBVIOUS
<1> HIDE DEF i
<1> QED
  BY <1>2, <1>3, <1>5, <1>7, <1>8, <1>9, BeaconStep

\* updateDeviceStatus writes the time.
LEMMA UpdateDeviceStatusList ==
    ASSUME ListInv, ReportInv, UpdateDeviceStatus
    PROVE  ListInv' /\ Grows
<1> DEFINE i == epoll.dev
           e == [devInfos[i] EXCEPT !.time = devInfos[i].lock]
<1>1. ListTypes /\ ListShape /\ EntriesFresh
  BY DEF ListInv
<1>2. /\ epoll.at = "time" /\ beacons' \in 0 .. MaxBeacons
      /\ devInfos' = [devInfos EXCEPT ![i] = e]
      /\ epoll'.at = "idle" /\ epoll' \in [at : EpollAt, dev : Nat]
      /\ UNCHANGED <<length, allocated, listIncrement, block, data, reportVars>>
  BY <1>1 DEF UpdateDeviceStatus, ListTypes, EpollAt
<1>3. i \in 1 .. length /\ i \in DOMAIN devInfos
  BY <1>1, <1>2 DEF ListShape, ListTypes
<1>4. /\ devInfos[i] \in Entry /\ devInfos[i].time \in Nat
      /\ devInfos[i].lock \in Nat /\ devInfos[i].door \in Nat
  BY <1>1, <1>3, EntryTypes
<1>5. /\ e \in Entry /\ e.dev = devInfos[i].dev /\ e.time = devInfos[i].lock
      /\ e.lock = devInfos[i].lock /\ e.door = devInfos[i].door
  BY <1>4 DEF Entry
<1>6. Fresh(devInfos[i], i)
  BY <1>1, <1>3 DEF EntriesFresh
<1> HIDE DEF e
<1>7. /\ e.dev = i /\ e.time <= e.door
      /\ e.lock = IF epoll'.at = "door" /\ epoll'.dev = i THEN e.door + 1 ELSE e.door
  BY <1>2, <1>4, <1>5, <1>6 DEF Fresh
<1>8. devInfos[i].lock <= e.lock /\ devInfos[i].door <= e.door
  BY <1>4, <1>5
<1>9. epoll.dev = i
  OBVIOUS
<1> HIDE DEF i
<1> QED
  BY <1>2, <1>3, <1>5, <1>7, <1>8, <1>9, BeaconStep

\* Every step of the epoll thread keeps the list in order and lets it grow.
LEMMA EpollThreadList ==
    ASSUME ListInv, ReportInv, EpollThread
    PROVE  ListInv' /\ Grows
  BY ReallocList, AssignDataList, EnoughMemoryList, CopyEntryList, CountEntryList,
     BeaconLockList, BeaconDoorList, UpdateDeviceStatusList DEF EpollThread

-----------------------------------------------------------------------------
(***************************************************************************)
(* The report.                                                             *)
(***************************************************************************)

\* What the types say about the parts of the report.
LEMMA ReportParts ==
    ASSUME ReportTypes
    PROVE  /\ report.at \in ReportAt /\ report.i \in Nat /\ report.block \in Nat
           /\ report.entry \in ReadEntry \cup {<<>>} /\ report.entries \in Seq(ReadEntry)
           /\ Len(report.entries) \in Nat
           /\ DOMAIN report.entries = 1 .. Len(report.entries)
<1>1. /\ report.at \in ReportAt /\ report.i \in Nat /\ report.block \in Nat
      /\ report.entry \in ReadEntry \cup {<<>>} /\ report.entries \in Seq(ReadEntry)
  BY DEF ReportTypes
<1> QED
  BY <1>1

\* The entry that the report reads from is one that has been written; what it
\* finds there is that entry, unless the list has moved.
LEMMA ReadFrom ==
    ASSUME ListInv, ReportInv, report.at \in {"time", "lock", "door"}
    PROVE  /\ report.i \in DOMAIN devInfos
           /\ Pointed \in Entry
           /\ Readable \in BOOLEAN
           /\ ~Readable => moved
           /\ Readable => Pointed = devInfos[report.i] /\ Pointed.dev = report.i
           /\ devInfos[report.i].time <= devInfos[report.i].lock
           /\ devInfos[report.i].lock <= devInfos[report.i].door + 1
<1>1. ListTypes /\ ListShape /\ EntriesFresh /\ ReportTypes /\ ReportPlace
  BY DEF ListInv, ReportInv
<1>2. report.i \in 1 .. length
  BY <1>1, ReportParts DEF ReportPlace
<1>3. report.i \in DOMAIN devInfos
  BY <1>1, <1>2 DEF ListTypes, ListShape
<1>4. Fresh(devInfos[report.i], report.i) /\ devInfos[report.i] \in Entry
  BY <1>1, <1>3, EntryTypes DEF EntriesFresh
<1>5. Pointed \in Entry
  BY <1>4 DEF Pointed, Entry
<1>6. ~Readable => moved
  BY <1>1, <1>3 DEF ReportPlace, Readable
<1>7. Readable => Pointed = devInfos[report.i] /\ Pointed.dev = report.i
  BY <1>4 DEF Pointed, Fresh
<1>8. Readable \in BOOLEAN
  BY DEF Readable
<1>9. /\ devInfos[report.i].time <= devInfos[report.i].lock
      /\ devInfos[report.i].lock <= devInfos[report.i].door + 1
  <2>1. /\ devInfos[report.i].time \in Nat /\ devInfos[report.i].lock \in Nat
        /\ devInfos[report.i].door \in Nat
    BY <1>1, <1>3, EntryTypes
  <2> QED
    BY <1>4, <2>1 DEF Fresh
<1> QED
  BY <1>3, <1>5, <1>6, <1>7, <1>8, <1>9

\* Initially there is no report.
LEMMA ReportInvInit ==
    ASSUME ReportInit
    PROVE  ReportInv
<1>1. /\ report = NoReport /\ report.at = "idle" /\ report.i = 0 /\ report.block = 0
      /\ report.entry = <<>> /\ report.entries = <<>>
      /\ known = 0 /\ moved = FALSE
  BY DEF ReportInit, NoReport
<1>2. report.entries \in Seq(ReadEntry) /\ DOMAIN report.entries = {}
  BY <1>1
<1>3. ReportTypes
  BY <1>1, <1>2 DEF ReportTypes, NoReport, ReportAt
<1>4. ReportPlace /\ ReportCurrent
  BY <1>1 DEF ReportPlace, ReportCurrent
<1>5. ReportAges /\ ReportComplete
  BY <1>1, <1>2 DEF ReportAges, ReportComplete
<1> QED
  BY <1>3, <1>4, <1>5 DEF ReportInv

\* A step of the epoll thread leaves what has been read valid.
LEMMA ReportGrows ==
    ASSUME ListInv, ReportInv, ListInv', Grows
    PROVE  ReportInv'
<1>1. /\ ListTypes /\ ListShape /\ ListTypes' /\ ListShape'
      /\ ReportTypes /\ ReportPlace /\ ReportCurrent /\ ReportAges /\ ReportComplete
  BY DEF ListInv, ReportInv
<1>2. /\ report' = report /\ known' = known
      /\ moved' \in BOOLEAN /\ (moved => moved')
      /\ length <= length' /\ length \in Nat /\ length' \in Nat
      /\ report.at # "idle" => /\ block' # block => moved'
                               /\ data' # block' => data # block \/ moved'
  BY <1>1 DEF Grows, ListTypes
<1>3. ReportTypes'
  BY <1>1, <1>2 DEF ReportTypes
<1>4. ReportPlace'
  <2>1. /\ report.i \in Nat /\ Len(report.entries) \in Nat /\ known \in Nat
    BY <1>1, ReportParts DEF ReportTypes
  <2>2. report.at = "idle" => report = NoReport
    BY <1>1 DEF ReportPlace
  <2>3. report.at # "idle" =>
          /\ report.i = Len(report.entries) + 1
          /\ Len(report.entries) <= length'
          /\ known <= length'
          /\ data' # block' => moved'
    BY <1>1, <1>2, <2>1 DEF ReportPlace
  <2>4. report.at \in {"time", "lock", "door"} =>
          /\ report.i <= length'
          /\ report.block # block' => moved'
    BY <1>1, <1>2, <2>1 DEF ReportPlace
  <2> QED
    BY <1>2, <2>2, <2>3, <2>4 DEF ReportPlace, NoReport
<1>5. ReportCurrent'
  <2> SUFFICES ASSUME report.at \in {"lock", "door"}
               PROVE  ReportCurrent'
    BY <1>2 DEF ReportCurrent
  <2>1. report.i \in DOMAIN devInfos
    BY ReadFrom
  <2>2. /\ report.i \in DOMAIN devInfos'
        /\ devInfos[report.i].lock <= devInfos'[report.i].lock
        /\ devInfos[report.i].door <= devInfos'[report.i].door
    BY <2>1 DEF Grows
  <2>3. /\ devInfos[report.i].lock \in Nat /\ devInfos[report.i].door \in Nat
        /\ devInfos'[report.i].lock \in Nat /\ devInfos'[report.i].door \in Nat
    <3>1. devInfos[report.i] \in Entry /\ devInfos'[report.i] \in Entry
      BY <1>1, <2>1, <2>2 DEF ListTypes
    <3> QED
      BY <3>1 DEF Entry
  <2>4. /\ report.entry \in ReadEntry
        /\ IF report.entry.junk THEN moved ELSE report.entry.dev = report.i
        /\ report.at = "lock" /\ ~report.entry.junk =>
              report.entry.time <= devInfos[report.i].lock
        /\ report.at = "door" /\ ~report.entry.junk =>
              /\ report.entry.time <= report.entry.lock
              /\ report.entry.lock <= devInfos[report.i].door + 1
    BY <1>1 DEF ReportCurrent
  <2>5. report.entry.time \in Nat /\ report.entry.lock \in Nat
    BY <2>4 DEF ReadEntry
  <2>6. /\ report.at = "lock" /\ ~report.entry.junk =>
              report.entry.time <= devInfos'[report.i].lock
        /\ report.at = "door" /\ ~report.entry.junk =>
              /\ report.entry.time <= report.entry.lock
              /\ report.entry.lock <= devInfos'[report.i].door + 1
    BY <2>2, <2>3, <2>4, <2>5
  <2>7. IF report.entry.junk THEN moved' ELSE report.entry.dev = report.i
    BY <1>2, <2>4
  <2> QED
    BY <1>2, <2>4, <2>6, <2>7 DEF ReportCurrent
<1>6. ReportAges' /\ ReportComplete'
  BY <1>1, <1>2 DEF ReportAges, ReportComplete
<1> QED
  BY <1>3, <1>4, <1>5, <1>6 DEF ReportInv

\* ListInv is about the list alone.
LEMMA ListSame ==
    ASSUME ListInv, UNCHANGED listVars
    PROVE  ListInv'
<1>1. UNCHANGED <<devInfos, length, allocated, listIncrement, block, data, epoll, beacons>>
  BY DEF listVars
<1> QED
  BY <1>1 DEF ListInv, ListTypes, ListShape, EntriesFresh, Fresh

\* A report is begun.
LEMMA StartReportInv ==
    ASSUME ListInv, ReportInv, StartReport
    PROVE  ReportInv'
<1>1. /\ report'.at = "loop" /\ report'.i = 1 /\ report'.block = 0
      /\ report'.entry = <<>> /\ report'.entries = <<>>
      /\ known' = length /\ moved' = (data # block)
      /\ report' = [at |-> "loop", i |-> 1, block |-> 0, entry |-> <<>>, entries |-> <<>>]
      /\ UNCHANGED <<length, block, data, devInfos>>
      /\ length \in Nat
  BY DEF StartReport, NoReport, listVars, ListInv, ListTypes
<1>2. /\ report'.entries \in Seq(ReadEntry) /\ DOMAIN report'.entries = {}
      /\ Len(report'.entries) = 0
  BY <1>1
<1>3. ReportTypes'
  BY <1>1, <1>2 DEF ReportTypes, ReportAt
<1>4. ReportPlace'
  <2>1. data' # block' => moved'
    BY <1>1
  <2>2. /\ report'.i = Len(report'.entries) + 1
        /\ Len(report'.entries) <= length' /\ known' <= length'
    BY <1>1, <1>2
  <2> QED
    BY <1>1, <2>1, <2>2 DEF ReportPlace
<1>5. ReportCurrent' /\ ReportAges' /\ ReportComplete'
  BY <1>1, <1>2 DEF ReportCurrent, ReportAges, ReportComplete
<1> QED
  BY <1>3, <1>4, <1>5 DEF ReportInv

\* The report has been sent.
LEMMA FinishReportInv ==
    ASSUME ListInv, ReportInv, FinishReport
    PROVE  ReportInv'
<1>1. /\ report' = NoReport /\ report'.at = "idle" /\ report'.i = 0 /\ report'.block = 0
      /\ report'.entry = <<>> /\ report'.entries = <<>>
      /\ known' = 0 /\ moved' = FALSE
  BY DEF FinishReport, NoReport
<1>2. report'.entries \in Seq(ReadEntry) /\ DOMAIN report'.entries = {}
  BY <1>1
<1>3. ReportTypes'
  BY <1>1, <1>2 DEF ReportTypes, NoReport, ReportAt
<1>4. ReportPlace' /\ ReportCurrent'
  BY <1>1 DEF ReportPlace, ReportCurrent, NoReport
<1>5. ReportAges' /\ ReportComplete'
  BY <1>1, <1>2 DEF ReportAges, ReportComplete
<1> QED
  BY <1>3, <1>4, <1>5 DEF ReportInv

\* getFromList.
LEMMA GetFromListInv ==
    ASSUME ListInv, ReportInv, GetFromList
    PROVE  ReportInv'
<1>1. /\ ReportTypes /\ ReportPlace /\ ReportAges /\ ReportComplete /\ data \in Nat
      /\ length \in Nat
  BY DEF ReportInv, ListInv, ListTypes
<1>2. /\ report.at = "loop" /\ report.i <= length
      /\ report' = [report EXCEPT !.at = "time", !.block = data]
      /\ UNCHANGED <<known, moved, devInfos, length, block, data>>
  BY DEF GetFromList, InLoop, listVars
<1>3. /\ report'.at = "time" /\ report'.i = report.i /\ report'.block = data
      /\ report'.entry = report.entry /\ report'.entries = report.entries
      /\ ReportTypes'
  BY <1>1, <1>2 DEF ReportTypes, ReportAt
<1>4. ReportPlace'
  BY <1>1, <1>2, <1>3 DEF ReportPlace
<1>5. ReportCurrent' /\ ReportAges' /\ ReportComplete'
  BY <1>1, <1>2, <1>3 DEF ReportCurrent, ReportAges, ReportComplete
<1> QED
  BY <1>3, <1>4, <1>5 DEF ReportInv

\* The end of the loop.
LEMMA EndLoopInv ==
    ASSUME ListInv, ReportInv, EndLoop
    PROVE  ReportInv'
<1>1. /\ ReportTypes /\ ReportPlace /\ ReportAges /\ ReportComplete
      /\ length \in Nat
  BY DEF ReportInv, ListInv, ListTypes
<1>2. /\ report.at = "loop" /\ ~(report.i <= length)
      /\ report' = [report EXCEPT !.at = IF length > 0 THEN "devicesFound" ELSE "noDevices"]
      /\ UNCHANGED <<known, moved, devInfos, length, block, data>>
  BY DEF EndLoop, InLoop, listVars
<1>3. /\ report'.at = (IF length > 0 THEN "devicesFound" ELSE "noDevices")
      /\ report'.i = report.i /\ report'.block = report.block
      /\ report'.entry = report.entry /\ report'.entries = report.entries
      /\ ReportTypes'
  BY <1>1, <1>2 DEF ReportTypes, ReportAt
<1>4. /\ report.i \in Nat /\ Len(report.entries) \in Nat /\ known \in Nat
      /\ report.entries \in Seq(ReadEntry)
      /\ report.i = Len(report.entries) + 1
      /\ Len(report.entries) <= length /\ known <= length
      /\ data # block => moved
  BY <1>1, <1>2, ReportParts DEF ReportPlace, ReportTypes
<1>5. ReportPlace'
  BY <1>2, <1>3, <1>4 DEF ReportPlace
<1>6. ReportCurrent' /\ ReportAges'
  BY <1>1, <1>2, <1>3 DEF ReportCurrent, ReportAges
<1>7. ReportComplete'
  <2>1. Len(report.entries) >= known
    BY <1>1, <1>2, <1>4
  <2>2. length = 0 => known = 0 /\ report.entries = <<>>
    BY <1>4
  <2> QED
    BY <1>1, <1>2, <1>3, <2>1, <2>2 DEF ReportComplete
<1> QED
  BY <1>3, <1>5, <1>6, <1>7 DEF ReportInv

\* Identifier and time are read.
LEMMA ReadTimeInv ==
    ASSUME ListInv, ReportInv, ReadTime
    PROVE  ReportInv'
<1> DEFINE e == [dev |-> Pointed.dev, time |-> Pointed.time, lock |-> 0, door |-> 0,
                 junk |-> ~Readable]
<1>1. /\ ReportTypes /\ ReportPlace /\ ReportAges /\ ReportComplete /\ ListTypes
  BY DEF ReportInv, ListInv
<1>2. /\ report.at = "time"
      /\ report' = [report EXCEPT !.at = "lock", !.entry = e]
      /\ UNCHANGED <<known, moved, devInfos, length, block, data>>
  BY DEF ReadTime, listVars
<1>3. /\ report.i \in DOMAIN devInfos
      /\ Pointed \in Entry
      /\ Readable \in BOOLEAN
      /\ ~Readable => moved
      /\ Readable => Pointed = devInfos[report.i] /\ Pointed.dev = report.i
      /\ devInfos[report.i].time <= devInfos[report.i].lock
      /\ devInfos[report.i].lock <= devInfos[report.i].door + 1
  BY <1>2, ReadFrom
<1>4. /\ e \in ReadEntry /\ e.dev = Pointed.dev /\ e.time = Pointed.time
      /\ e.junk = ~Readable
  BY <1>3 DEF ReadEntry, Entry
<1> HIDE DEF e
<1>5. /\ report'.at = "lock" /\ report'.i = report.i /\ report'.block = report.block
      /\ report'.entry = e /\ report'.entries = report.entries
      /\ ReportTypes'
  BY <1>1, <1>2, <1>4 DEF ReportTypes, ReportAt
<1>6. ReportPlace'
  BY <1>1, <1>2, <1>5 DEF ReportPlace
<1>7. ~e.junk => e.dev = report.i /\ e.time <= devInfos[report.i].lock
  <2> SUFFICES ASSUME ~e.junk PROVE e.dev = report.i /\ e.time <= devInfos[report.i].lock
    OBVIOUS
  <2>1. Readable
    BY <1>3, <1>4
  <2> QED
    BY <1>3, <1>4, <2>1
<1>8. e.junk => moved
  BY <1>3, <1>4
<1>9. ReportCurrent'
  BY <1>2, <1>4, <1>5, <1>7, <1>8 DEF ReportCurrent
<1>10. ReportAges' /\ ReportComplete'
  BY <1>1, <1>2, <1>5 DEF ReportAges, ReportComplete
<1> QED
  BY <1>5, <1>6, <1>9, <1>10 DEF ReportInv

\* The lock state is read.
LEMMA ReadLockInv ==
    ASSUME ListInv, ReportInv, ReadLock
    PROVE  ReportInv'
<1> DEFINE r == report.entry
           e == [r EXCEPT !.lock = Pointed.lock, !.junk = r.junk \/ ~Readable]
<1>1. /\ ReportTypes /\ ReportPlace /\ ReportCurrent /\ ReportAges /\ ReportComplete
      /\ ListTypes
  BY DEF ReportInv, ListInv
<1>2. /\ report.at = "lock"
      /\ UNCHANGED <<known, moved, devInfos, length, block, data>>
  BY DEF ReadLock, listVars
<1>3. /\ report.i \in DOMAIN devInfos
      /\ Pointed \in Entry
      /\ Readable \in BOOLEAN
      /\ ~Readable => moved
      /\ Readable => Pointed = devInfos[report.i] /\ Pointed.dev = report.i
      /\ devInfos[report.i].time <= devInfos[report.i].lock
      /\ devInfos[report.i].lock <= devInfos[report.i].door + 1
  BY <1>2, ReadFrom
<1>4. /\ r \in ReadEntry
      /\ IF r.junk THEN moved ELSE r.dev = report.i
      /\ ~r.junk => r.time <= devInfos[report.i].lock
  BY <1>1, <1>2 DEF ReportCurrent
<1>5. /\ e \in ReadEntry /\ e.dev = r.dev /\ e.time = r.time /\ e.lock = Pointed.lock
      /\ e.junk = (r.junk \/ ~Readable)
  BY <1>3, <1>4 DEF ReadEntry, Entry
<1>6. report' = [report EXCEPT !.at = "door", !.entry = e]
  BY <1>1, <1>2 DEF ReadLock, ReportTypes
<1> HIDE DEF e
<1>7. /\ report'.at = "door" /\ report'.i = report.i /\ report'.block = report.block
      /\ report'.entry = e /\ report'.entries = report.entries
      /\ ReportTypes'
  BY <1>1, <1>2, <1>5, <1>6 DEF ReportTypes, ReportAt
<1>8. ReportPlace'
  BY <1>1, <1>2, <1>7 DEF ReportPlace
<1>9. ~e.junk => /\ e.dev = report.i /\ e.time <= e.lock
                 /\ e.lock <= devInfos[report.i].door + 1
  <2> SUFFICES ASSUME ~e.junk
               PROVE  /\ e.dev = report.i /\ e.time <= e.lock
                      /\ e.lock <= devInfos[report.i].door + 1
    OBVIOUS
  <2>1. Readable /\ ~r.junk
    BY <1>3, <1>4, <1>5
  <2> QED
    BY <1>3, <1>4, <1>5, <2>1
<1>10. e.junk => moved
  BY <1>3, <1>4, <1>5
<1>11. ReportCurrent'
  BY <1>2, <1>5, <1>7, <1>9, <1>10 DEF ReportCurrent
<1>12. ReportAges' /\ ReportComplete'
  BY <1>1, <1>2, <1>7 DEF ReportAges, ReportComplete
<1> QED
  BY <1>7, <1>8, <1>11, <1>12 DEF ReportInv

\* The door state is read and the entry is complete.
LEMMA ReadDoorInv ==
    ASSUME ListInv, ReportInv, ReadDoor
    PROVE  ReportInv'
<1> DEFINE r == report.entry
           e == [r EXCEPT !.door = Pointed.door, !.junk = r.junk \/ ~Readable]
<1>1. /\ ReportTypes /\ ReportPlace /\ ReportCurrent /\ ReportAges /\ ReportComplete
      /\ ListTypes
  BY DEF ReportInv, ListInv
<1>2. /\ report.at = "door"
      /\ report' = [report EXCEPT !.at = "loop", !.i = report.i + 1, !.entry = <<>>,
                       !.entries = Append(report.entries, e)]
      /\ UNCHANGED <<known, moved, devInfos, length, block, data>>
  BY DEF ReadDoor, listVars
<1>3. /\ report.i \in DOMAIN devInfos
      /\ Pointed \in Entry
      /\ Readable \in BOOLEAN
      /\ ~Readable => moved
      /\ Readable => Pointed = devInfos[report.i] /\ Pointed.dev = report.i
      /\ devInfos[report.i].time <= devInfos[report.i].lock
      /\ devInfos[report.i].lock <= devInfos[report.i].door + 1
  BY <1>2, ReadFrom
<1>4. /\ r \in ReadEntry
      /\ IF r.junk THEN moved ELSE r.dev = report.i
      /\ ~r.junk => r.time <= r.lock /\ r.lock <= devInfos[report.i].door + 1
  BY <1>1, <1>2 DEF ReportCurrent
<1>5. /\ e \in ReadEntry /\ e.dev = r.dev /\ e.time = r.time /\ e.lock = r.lock
      /\ e.door = Pointed.door /\ e.junk = (r.junk \/ ~Readable)
  BY <1>3, <1>4 DEF ReadEntry, Entry
<1> HIDE DEF e
<1>6. /\ report.i \in Nat /\ report.i = Len(report.entries) + 1 /\ report.i <= length
      /\ report.entries \in Seq(ReadEntry) /\ Len(report.entries) \in Nat
      /\ known <= length /\ (data # block => moved) /\ length \in Nat
  BY <1>1, <1>2, ReportParts DEF ReportPlace, ListTypes
<1>7. /\ Append(report.entries, e) \in Seq(ReadEntry)
      /\ Len(Append(report.entries, e)) = report.i
      /\ DOMAIN report.entries = 1 .. (report.i - 1)
      /\ DOMAIN Append(report.entries, e) = 1 .. report.i
      /\ Append(report.entries, e)[report.i] = e
      /\ \A k \in DOMAIN report.entries : Append(report.entries, e)[k] = report.entries[k]
  BY <1>5, <1>6, AppendElements
<1>8. /\ report'.at = "loop" /\ report'.i = report.i + 1 /\ report'.block = report.block
      /\ report'.entry = <<>> /\ report'.entries = Append(report.entries, e)
      /\ ReportTypes'
  <2> DEFINE s == Append(report.entries, e)
  <2>1. s \in Seq(ReadEntry) /\ report.i + 1 \in Nat
    BY <1>6, <1>7
  <2>2. report' = [report EXCEPT !.at = "loop", !.i = report.i + 1, !.entry = <<>>, !.entries = s]
    BY <1>2
  <2> HIDE DEF s
  <2>3. /\ report'.at = "loop" /\ report'.i = report.i + 1 /\ report'.block = report.block
        /\ report'.entry = <<>> /\ report'.entries = s
    BY <1>1, <2>2 DEF ReportTypes
  <2>4. ReportTypes'
    BY <1>1, <1>2, <2>1, <2>2 DEF ReportTypes, ReportAt
  <2> QED
    BY <2>3, <2>4 DEF s
<1>9. ReportPlace'
  BY <1>2, <1>6, <1>7, <1>8 DEF ReportPlace
<1>10. ReportCurrent'
  BY <1>8 DEF ReportCurrent
<1>11. ~e.junk => e.dev = report.i /\ e.time <= e.lock /\ e.lock <= e.door + 1
  BY <1>3, <1>4, <1>5
<1>12. e.junk => moved
  BY <1>3, <1>4, <1>5
<1>13. \A k \in DOMAIN report'.entries :
         \/ k \in DOMAIN report.entries /\ report'.entries[k] = report.entries[k]
         \/ k = report.i /\ report'.entries[k] = e
  BY <1>6, <1>7, <1>8
<1>14. ReportAges'
  BY <1>1, <1>11, <1>13 DEF ReportAges
<1>15. ReportComplete'
  BY <1>1, <1>2, <1>8, <1>11, <1>12, <1>13 DEF ReportComplete
<1> QED
  BY <1>8, <1>9, <1>10, <1>14, <1>15 DEF ReportInv

\* Every step of building the report preserves what is said of it.
LEMMA ReportStep ==
    ASSUME ListInv, ReportInv, Report
    PROVE  ListInv' /\ ReportInv'
<1>1. UNCHANGED listVars
  BY DEF Report, GetFromList, ReadTime, ReadLock, ReadDoor, EndLoop
<1> QED
  BY <1>1, ListSame, GetFromListInv, ReadTimeInv, ReadLockInv, ReadDoorInv, EndLoopInv DEF Report

-----------------------------------------------------------------------------
(***************************************************************************)
(* The connection.                                                         *)
(***************************************************************************)

\* Credentials on the way when a message is sent: they are those that were
\* there, and the message if it is credentials.
LEMMA CredentialsSent ==
    ASSUME LinkInv, NEW m \in {"credentials", "report"}, toRemote' = Append(toRemote, m)
    PROVE  /\ toRemote' \in Seq({"credentials", "report"})
           /\ m = "report" => Credentials' = Credentials
           /\ m = "credentials" /\ Credentials = {} =>
                 Credentials' # {} /\ \A j, k \in Credentials' : j = k
<1>1. toRemote \in Seq({"credentials", "report"})
  BY DEF LinkInv, LinkTypes
<1>2. /\ toRemote' \in Seq({"credentials", "report"})
      /\ DOMAIN toRemote = 1 .. Len(toRemote) /\ DOMAIN toRemote' = 1 .. (Len(toRemote) + 1)
      /\ Len(toRemote) \in Nat
      /\ toRemote'[Len(toRemote) + 1] = m
      /\ \A k \in DOMAIN toRemote : toRemote'[k] = toRemote[k]
  BY <1>1, AppendElements
<1>3. /\ \A k \in DOMAIN toRemote' : k \in DOMAIN toRemote \/ k = Len(toRemote) + 1
      /\ \A k \in DOMAIN toRemote : k \in DOMAIN toRemote'
      /\ Len(toRemote) + 1 \in DOMAIN toRemote'
  BY <1>2
<1>4. ASSUME m = "report" PROVE Credentials' = Credentials
  BY <1>2, <1>3, <1>4 DEF Credentials
<1>5. ASSUME m = "credentials", Credentials = {}
      PROVE  Credentials' # {} /\ \A j, k \in Credentials' : j = k
  <2>1. Credentials' = {Len(toRemote) + 1}
    BY <1>2, <1>3, <1>5 DEF Credentials
  <2> QED
    BY <2>1
<1> QED
  BY <1>2, <1>4, <1>5

\* Credentials on the way when the remote service takes a message.
LEMMA CredentialsTaken ==
    ASSUME LinkInv, toRemote # <<>>, toRemote' = Tail(toRemote)
    PROVE  /\ toRemote' \in Seq({"credentials", "report"})
           /\ \A j, k \in Credentials' : j = k
           /\ Head(toRemote) = "credentials" => Credentials # {} /\ Credentials' = {}
           /\ Head(toRemote) = "report" => (Credentials' = {} <=> Credentials = {})
<1>1. toRemote \in Seq({"credentials", "report"}) /\ \A j, k \in Credentials : j = k
  BY DEF LinkInv, LinkTypes, CredentialsOnce
<1>2. /\ toRemote' \in Seq({"credentials", "report"})
      /\ Len(toRemote) \in Nat \ {0}
      /\ DOMAIN toRemote = 1 .. Len(toRemote) /\ DOMAIN toRemote' = 1 .. (Len(toRemote) - 1)
      /\ Head(toRemote) = toRemote[1]
      /\ \A k \in DOMAIN toRemote' : k + 1 \in DOMAIN toRemote /\ toRemote'[k] = toRemote[k + 1]
  BY <1>1, TailElements
<1>3. \A k \in Credentials' : k \in Nat \ {0} /\ k + 1 \in Credentials
  BY <1>2 DEF Credentials
<1>4. ASSUME NEW j \in Credentials', NEW k \in Credentials' PROVE j = k
  <2>1. j + 1 = k + 1
    BY <1>1, <1>3
  <2> QED
    BY <1>3, <2>1
<1>5. ASSUME Head(toRemote) = "credentials" PROVE Credentials # {} /\ Credentials' = {}
  <2>1. 1 \in Credentials
    BY <1>2, <1>5 DEF Credentials
  <2>2. ASSUME NEW k \in Credentials' PROVE FALSE
    <3>1. k + 1 = 1
      BY <1>1, <1>3, <2>1
    <3> QED
      BY <1>3, <3>1
  <2> QED
    BY <2>1, <2>2
<1>6. ASSUME Head(toRemote) = "report" PROVE Credentials' = {} <=> Credentials = {}
  <2>1. ASSUME NEW k \in Credentials PROVE k - 1 \in Credentials'
    <3>1. k \in 1 .. Len(toRemote) /\ k # 1 /\ toRemote[k] = "credentials"
      BY <1>2, <1>6 DEF Credentials
    <3>2. k - 1 \in DOMAIN toRemote' /\ (k - 1) + 1 = k
      BY <1>2, <3>1
    <3>3. toRemote'[k - 1] = "credentials"
      BY <1>2, <3>1, <3>2
    <3> QED
      BY <3>2, <3>3 DEF Credentials
  <2> QED
    BY <1>3, <2>1
<1> QED
  BY <1>2, <1>4, <1>5, <1>6

\* Initially there is no connection.
LEMMA LinkInit ==
    ASSUME Init
    PROVE  LinkInv
<1>1. /\ web_socket = "NULL" /\ connectionAuthenticated = 0 /\ writable = FALSE
      /\ toRemote = <<>> /\ toClient = <<>> /\ remoteAuth = FALSE /\ owed = FALSE
      /\ report.at = "idle"
  BY DEF Init, ReportInit, NoReport
<1>2. DOMAIN toRemote = {} /\ DOMAIN toClient = {} /\ Credentials = {}
  BY <1>1 DEF Credentials
<1>3. LinkTypes
  <2>1. writable \in BOOLEAN /\ remoteAuth \in BOOLEAN /\ owed \in BOOLEAN
    BY <1>1, Zenon
  <2>2. toRemote \in Seq({"credentials", "report"}) /\ toClient \in Seq(Message)
    BY <1>1
  <2>3. connectionAuthenticated \in 0 .. 2
    BY <1>1
  <2> QED
    BY <1>1, <2>1, <2>2, <2>3 DEF LinkTypes
<1>4. NotOpen /\ CredentialsOnce /\ AuthStates /\ Withdrawal
  BY <1>1, <1>2 DEF NotOpen, CredentialsOnce, AuthStates, Withdrawal
<1>5. Owing /\ ReportsOnRequest
  BY <1>1 DEF Owing, ReportsOnRequest
<1> QED
  BY <1>3, <1>4, <1>5 DEF LinkInv

\* LinkInv is about the connection and about whether a report is being built.
LEMMA LinkSame ==
    ASSUME LinkInv, UNCHANGED linkVars, report'.at = "idle" <=> report.at = "idle"
    PROVE  LinkInv'
<1>1. UNCHANGED <<web_socket, connectionAuthenticated, writable, toRemote, toClient,
                  remoteAuth, owed>>
  BY DEF linkVars
<1>2. Credentials' = Credentials
  BY <1>1 DEF Credentials
<1>3. LinkTypes' /\ NotOpen' /\ CredentialsOnce' /\ AuthStates' /\ Withdrawal'
  BY <1>1, <1>2 DEF LinkInv, LinkTypes, NotOpen, CredentialsOnce, AuthStates, Withdrawal
<1>4. Owing' /\ ReportsOnRequest'
  BY <1>1 DEF LinkInv, Owing, ReportsOnRequest
<1> QED
  BY <1>3, <1>4 DEF LinkInv

\* A round of the loop asks for WRITEABLE only to authenticate.
LEMMA LoopInv ==
    ASSUME LinkInv, Loop
    PROVE  LinkInv'
<1>1. /\ report.at = "idle" /\ report' = report
      /\ web_socket' = web_socket \/ (web_socket = "NULL" /\ web_socket' = "connecting")
      /\ writable' = (writable \/ connectionAuthenticated = 0)
      /\ UNCHANGED <<connectionAuthenticated, toRemote, toClient, remoteAuth, owed>>
      /\ LinkTypes /\ NotOpen /\ CredentialsOnce /\ AuthStates /\ Withdrawal
      /\ Owing /\ ReportsOnRequest
  BY DEF Loop, reportVars, LinkInv
<1>2. Credentials' = Credentials
  BY <1>1 DEF Credentials
<1>3. LinkTypes'
  BY <1>1 DEF LinkTypes
<1>4. NotOpen'
  BY <1>1 DEF NotOpen
<1>5. CredentialsOnce' /\ AuthStates' /\ Withdrawal'
  BY <1>1, <1>2 DEF CredentialsOnce, AuthStates, Withdrawal
<1>6. Owing' /\ ReportsOnRequest'
  BY <1>1 DEF Owing, ReportsOnRequest
<1> QED
  BY <1>3, <1>4, <1>5, <1>6 DEF LinkInv

\* The connection is there.
LEMMA EstablishedInv ==
    ASSUME LinkInv, Established
    PROVE  LinkInv'
<1>1. /\ report' = report /\ web_socket' = "open"
      /\ UNCHANGED <<connectionAuthenticated, writable, toRemote, toClient, remoteAuth, owed>>
      /\ LinkTypes /\ NotOpen /\ CredentialsOnce /\ AuthStates /\ Withdrawal
      /\ Owing /\ ReportsOnRequest
  BY DEF Established, reportVars, LinkInv
<1>2. Credentials' = Credentials
  BY <1>1 DEF Credentials
<1>3. LinkTypes' /\ NotOpen'
  BY <1>1 DEF LinkTypes, NotOpen
<1>4. CredentialsOnce' /\ AuthStates' /\ Withdrawal'
  BY <1>1, <1>2 DEF CredentialsOnce, AuthStates, Withdrawal
<1>5. Owing' /\ ReportsOnRequest'
  BY <1>1 DEF Owing, ReportsOnRequest
<1> QED
  BY <1>3, <1>4, <1>5 DEF LinkInv

\* The connection is closed: everything starts anew.
LEMMA ClosedInv ==
    ASSUME LinkInv, Closed
    PROVE  LinkInv'
<1>1. /\ web_socket' = "NULL" /\ connectionAuthenticated' = 0 /\ writable' = FALSE
      /\ toRemote' = <<>> /\ toClient' = <<>> /\ remoteAuth' = FALSE /\ owed' = FALSE
      /\ report'.at = "idle"
  BY DEF Closed, reportVars
<1>2. DOMAIN toRemote' = {} /\ DOMAIN toClient' = {} /\ Credentials' = {}
  BY <1>1 DEF Credentials
<1>3. LinkTypes'
  <2>1. writable' \in BOOLEAN /\ remoteAuth' \in BOOLEAN /\ owed' \in BOOLEAN
    BY <1>1, Zenon
  <2>2. toRemote' \in Seq({"credentials", "report"}) /\ toClient' \in Seq(Message)
    BY <1>1
  <2>3. connectionAuthenticated' \in 0 .. 2
    BY <1>1
  <2> QED
    BY <1>1, <2>1, <2>2, <2>3 DEF LinkTypes
<1>4. NotOpen' /\ CredentialsOnce' /\ AuthStates' /\ Withdrawal'
  BY <1>1, <1>2 DEF NotOpen, CredentialsOnce, AuthStates, Withdrawal
<1>5. Owing' /\ ReportsOnRequest'
  BY <1>1 DEF Owing, ReportsOnRequest
<1> QED
  BY <1>3, <1>4, <1>5 DEF LinkInv

\* WRITEABLE sends credentials on a connection that does not count as
\* authenticated, on which nothing is on the way; else it begins a report, which
\* is owed.
LEMMA WriteableInv ==
    ASSUME LinkInv, Writeable
    PROVE  LinkInv'
<1>1. /\ report.at = "idle" /\ web_socket = "open" /\ writable /\ writable' = FALSE
      /\ UNCHANGED <<web_socket, toClient, remoteAuth, owed>>
      /\ LinkTypes /\ NotOpen /\ CredentialsOnce /\ AuthStates /\ Withdrawal
      /\ Owing /\ ReportsOnRequest
  BY DEF Writeable, LinkInv
<1>2. CASE connectionAuthenticated = 0
  <2>1. /\ connectionAuthenticated' = 2 /\ toRemote' = Append(toRemote, "credentials")
        /\ report' = report
    BY <1>2 DEF Writeable, reportVars
  <2>2. Credentials = {} /\ toClient = <<>> /\ ~remoteAuth /\ ~owed
    BY <1>1, <1>2 DEF CredentialsOnce, AuthStates, Owing
  <2>3. /\ toRemote' \in Seq({"credentials", "report"})
        /\ Credentials' # {} /\ \A j, k \in Credentials' : j = k
    BY <2>1, <2>2, CredentialsSent
  <2>4. LinkTypes' /\ NotOpen'
    <3>1. writable' \in BOOLEAN /\ remoteAuth' \in BOOLEAN /\ owed' \in BOOLEAN
      BY <1>1, Zenon DEF LinkTypes
    <3>2. connectionAuthenticated' \in 0 .. 2
      BY <2>1
    <3> QED
      BY <1>1, <2>3, <3>1, <3>2 DEF LinkTypes, NotOpen
  <2>5. DOMAIN toClient' = {}
    BY <1>1, <2>2
  <2>6. CredentialsOnce' /\ AuthStates' /\ Withdrawal'
    BY <1>1, <2>1, <2>2, <2>3, <2>5 DEF CredentialsOnce, AuthStates, Withdrawal
  <2>7. Owing' /\ ReportsOnRequest'
    BY <1>1, <2>1, <2>2 DEF Owing, ReportsOnRequest
  <2> QED
    BY <2>4, <2>6, <2>7 DEF LinkInv
<1>3. CASE connectionAuthenticated # 0
  <2>1. /\ UNCHANGED <<connectionAuthenticated, toRemote>> /\ report'.at = "loop"
    BY <1>3 DEF Writeable, StartReport, NoReport
  <2>2. owed
    BY <1>1, <1>3 DEF Owing
  <2>3. Credentials' = Credentials
    BY <2>1 DEF Credentials
  <2>4. LinkTypes' /\ NotOpen'
    BY <1>1, <2>1 DEF LinkTypes, NotOpen
  <2>5. CredentialsOnce' /\ AuthStates' /\ Withdrawal'
    BY <1>1, <2>1, <2>3 DEF CredentialsOnce, AuthStates, Withdrawal
  <2>6. Owing' /\ ReportsOnRequest'
    BY <1>1, <1>3, <2>1, <2>2 DEF Owing, ReportsOnRequest
  <2> QED
    BY <2>4, <2>5, <2>6 DEF LinkInv
<1> QED
  BY <1>2, <1>3

\* The report is sent; nobody has asked for WRITEABLE while it was built.
LEMMA SendReportInv ==
    ASSUME LinkInv, SendReport
    PROVE  LinkInv'
<1>1. /\ report.at # "idle" /\ report'.at = "idle"
      /\ toRemote' = Append(toRemote, "report") /\ owed' = FALSE
      /\ UNCHANGED <<web_socket, connectionAuthenticated, writable, toClient, remoteAuth>>
      /\ LinkTypes /\ NotOpen /\ CredentialsOnce /\ AuthStates /\ Withdrawal
      /\ Owing /\ ReportsOnRequest
  BY DEF SendReport, FinishReport, NoReport, LinkInv
<1>2. /\ toRemote' \in Seq({"credentials", "report"}) /\ Credentials' = Credentials
  BY <1>1, CredentialsSent
<1>3. ~writable /\ connectionAuthenticated # 0 /\ web_socket = "open"
  BY <1>1 DEF Owing, ReportsOnRequest, NotOpen
<1>4. LinkTypes' /\ NotOpen'
  BY <1>1, <1>2, <1>3 DEF LinkTypes, NotOpen
<1>5. CredentialsOnce' /\ AuthStates' /\ Withdrawal'
  BY <1>1, <1>2 DEF CredentialsOnce, AuthStates, Withdrawal
<1>6. Owing' /\ ReportsOnRequest'
  BY <1>1, <1>3 DEF Owing, ReportsOnRequest
<1> QED
  BY <1>4, <1>5, <1>6 DEF LinkInv

\* A message is received.  A withdrawal is the last one, so that nothing is left
\* to be received once the connection does not count as authenticated.
LEMMA ReceiveInv ==
    ASSUME LinkInv, Receive
    PROVE  LinkInv'
<1> DEFINE m == Head(toClient)
<1>1. /\ report.at = "idle" /\ report' = report /\ web_socket = "open" /\ toClient # <<>>
      /\ connectionAuthenticated' = AuthAfter(m)
      /\ writable' = (writable \/ Asks(m))
      /\ owed' = (/\ AuthAfter(m) # 0
                  /\ owed \/ (m.state # "missing" /\ m.action = "getDeviceInfo"))
      /\ toClient' = Tail(toClient)
      /\ UNCHANGED <<web_socket, toRemote, remoteAuth>>
      /\ LinkTypes /\ NotOpen /\ CredentialsOnce /\ AuthStates /\ Withdrawal
      /\ Owing /\ ReportsOnRequest
  BY DEF Receive, reportVars, LinkInv
<1>2. /\ toClient' \in Seq(Message) /\ Len(toClient') = Len(toClient) - 1
      /\ Len(toClient) \in Nat \ {0}
      /\ DOMAIN toClient = 1 .. Len(toClient) /\ DOMAIN toClient' = 1 .. (Len(toClient) - 1)
      /\ m = toClient[1] /\ m \in Message
      /\ \A k \in DOMAIN toClient' : k + 1 \in DOMAIN toClient /\ toClient'[k] = toClient[k + 1]
  BY <1>1, TailElements DEF LinkTypes
<1>3. m.state \in {"0", "1", "other", "missing"}
  BY <1>2 DEF Message
<1> HIDE DEF m
<1>4. Credentials = {} /\ Credentials' = {} /\ connectionAuthenticated # 0
  BY <1>1 DEF CredentialsOnce, AuthStates, Credentials
<1>5. connectionAuthenticated = 2 => m.state \in {"0", "1"}
  BY <1>1, <1>2, <1>4 DEF AuthStates
<1>6. connectionAuthenticated \in {1, 2}
  BY <1>1, <1>4 DEF LinkTypes
<1>7. AuthAfter(m) = (IF m.state = "0" THEN 0 ELSE 1)
  <2>1. CASE m.state = "0"
    BY <2>1, Zenon DEF AuthAfter
  <2>2. CASE m.state = "1"
    BY <2>2 DEF AuthAfter
  <2>3. CASE m.state \in {"other", "missing"}
    <3>1. connectionAuthenticated = 1
      BY <1>5, <1>6, <2>3
    <3> QED
      BY <2>3, <3>1 DEF AuthAfter
  <2> QED
    BY <1>3, <2>1, <2>2, <2>3
<1>8. /\ writable' \in BOOLEAN /\ owed' \in BOOLEAN
  BY <1>1, Zenon DEF LinkTypes
<1>9. connectionAuthenticated' \in 0 .. 1 /\ (connectionAuthenticated' = 0 <=> m.state = "0")
  BY <1>1, <1>7
<1>10. LinkTypes' /\ NotOpen' /\ CredentialsOnce'
  BY <1>1, <1>2, <1>4, <1>8, <1>9 DEF LinkTypes, NotOpen, CredentialsOnce
<1>11. ASSUME m.state = "0" PROVE toClient' = <<>> /\ ~remoteAuth
  <2>1. Len(toClient) = 1 /\ ~remoteAuth
    BY <1>1, <1>2, <1>11 DEF Withdrawal
  <2> QED
    BY <1>2, <2>1
<1>12. AuthStates'
  BY <1>1, <1>9, <1>11 DEF AuthStates
<1>13. Withdrawal'
  <2>1. ASSUME NEW k \in DOMAIN toClient', toClient'[k].state = "0"
        PROVE  k = Len(toClient') /\ ~remoteAuth
    <3>1. k + 1 = Len(toClient) /\ ~remoteAuth
      BY <1>1, <1>2, <2>1 DEF Withdrawal
    <3> QED
      BY <1>2, <3>1
  <2>2. ASSUME ~remoteAuth, connectionAuthenticated' # 0
        PROVE  toClient' # <<>> /\ toClient'[Len(toClient')].state = "0"
    <3>1. toClient[Len(toClient)].state = "0" /\ m.state # "0"
      BY <1>1, <1>4, <1>9, <2>2 DEF Withdrawal
    <3>2. Len(toClient) # 1
      BY <1>2, <3>1
    <3>3. Len(toClient') \in DOMAIN toClient' /\ Len(toClient') + 1 = Len(toClient)
      BY <1>2, <3>2
    <3>4. toClient' # <<>>
      BY <3>3
    <3> QED
      BY <1>2, <3>1, <3>3, <3>4
  <2> QED
    BY <1>1, <2>1, <2>2 DEF Withdrawal
<1>14. Owing'
  <2>1. connectionAuthenticated' # 0 /\ writable' => owed'
    BY <1>1, <1>4 DEF Owing, Asks
  <2>2. owed' => connectionAuthenticated' # 0
    BY <1>1
  <2> QED
    BY <1>1, <2>1, <2>2 DEF Owing
<1>15. ReportsOnRequest'
  <2>1. owed' => writable'
    BY <1>1 DEF ReportsOnRequest, Asks
  <2> QED
    BY <1>1, <2>1 DEF ReportsOnRequest
<1> QED
  BY <1>10, <1>12, <1>13, <1>14, <1>15 DEF LinkInv

\* The remote service answers credentials, which nothing else is on the way with.
LEMMA RemoteAnswerInv ==
    ASSUME LinkInv, NEW ok \in BOOLEAN, RemoteAnswer(ok)
    PROVE  LinkInv'
<1> DEFINE m == [state |-> IF ok THEN "1" ELSE "0", action |-> "none"]
<1>1. /\ toRemote # <<>> /\ Head(toRemote) = "credentials" /\ toRemote' = Tail(toRemote)
      /\ remoteAuth' = ok /\ toClient' = Append(toClient, m)
      /\ UNCHANGED <<web_socket, connectionAuthenticated, writable, owed, report>>
      /\ LinkTypes /\ NotOpen /\ CredentialsOnce /\ AuthStates /\ Withdrawal
      /\ Owing /\ ReportsOnRequest
  BY DEF RemoteAnswer, RemoteSends, reportVars, LinkInv
<1>2. toRemote' \in Seq({"credentials", "report"}) /\ Credentials # {} /\ Credentials' = {}
  BY <1>1, CredentialsTaken
<1>3. connectionAuthenticated = 2 /\ toClient = <<>> /\ web_socket = "open"
  BY <1>1, <1>2 DEF CredentialsOnce, AuthStates, NotOpen
<1>4. m \in Message /\ m.state \in {"0", "1"} /\ (m.state = "0" <=> ~ok)
  BY DEF Message
<1> HIDE DEF m
<1>5. /\ toClient' \in Seq(Message) /\ Len(toClient') = 1 /\ DOMAIN toClient' = {1}
      /\ toClient'[1] = m /\ toClient' # <<>>
  BY <1>1, <1>3, <1>4
<1>6. LinkTypes' /\ NotOpen'
  BY <1>1, <1>2, <1>3, <1>5 DEF LinkTypes, NotOpen
<1>7. CredentialsOnce' /\ AuthStates'
  BY <1>1, <1>2, <1>3, <1>4, <1>5 DEF CredentialsOnce, AuthStates
<1>8. Withdrawal'
  BY <1>1, <1>4, <1>5 DEF Withdrawal
<1>9. Owing' /\ ReportsOnRequest'
  BY <1>1 DEF Owing, ReportsOnRequest
<1> QED
  BY <1>6, <1>7, <1>8, <1>9 DEF LinkInv

\* The remote service takes a report.
LEMMA RemoteTakesReportInv ==
    ASSUME LinkInv, RemoteTakesReport
    PROVE  LinkInv'
<1>1. /\ toRemote # <<>> /\ Head(toRemote) = "report" /\ toRemote' = Tail(toRemote)
      /\ UNCHANGED <<web_socket, connectionAuthenticated, writable, toClient, remoteAuth, owed,
                     report>>
      /\ LinkTypes /\ NotOpen /\ CredentialsOnce /\ AuthStates /\ Withdrawal
      /\ Owing /\ ReportsOnRequest
  BY DEF RemoteTakesReport, reportVars, LinkInv
<1>2. /\ toRemote' \in Seq({"credentials", "report"})
      /\ \A j, k \in Credentials' : j = k
      /\ Credentials' = {} <=> Credentials = {}
  BY <1>1, CredentialsTaken
<1>3. LinkTypes' /\ NotOpen'
  BY <1>1, <1>2 DEF LinkTypes, NotOpen
<1>4. CredentialsOnce' /\ AuthStates' /\ Withdrawal'
  BY <1>1, <1>2 DEF CredentialsOnce, AuthStates, Withdrawal
<1>5. Owing' /\ ReportsOnRequest'
  BY <1>1 DEF Owing, ReportsOnRequest
<1> QED
  BY <1>3, <1>4, <1>5 DEF LinkInv

\* While the remote service considers the connection authenticated it may send
\* something; no withdrawal is on the way yet, and no credentials are.
LEMMA RemoteSendsInv ==
    ASSUME LinkInv, remoteAuth, NEW m \in Message, toClient' = Append(toClient, m),
           remoteAuth' \in BOOLEAN, remoteAuth' <=> m.state # "0",
           UNCHANGED <<web_socket, connectionAuthenticated, writable, toRemote, owed, report>>
    PROVE  LinkInv'
<1>1. /\ LinkTypes /\ NotOpen /\ CredentialsOnce /\ AuthStates /\ Withdrawal
      /\ Owing /\ ReportsOnRequest
  BY DEF LinkInv
<1>2. /\ toClient' \in Seq(Message) /\ Len(toClient') = Len(toClient) + 1
      /\ Len(toClient) \in Nat
      /\ DOMAIN toClient = 1 .. Len(toClient) /\ DOMAIN toClient' = 1 .. (Len(toClient) + 1)
      /\ toClient'[Len(toClient) + 1] = m
      /\ \A k \in DOMAIN toClient : toClient'[k] = toClient[k]
  BY <1>1, AppendElements DEF LinkTypes
<1>3. toClient' # <<>>
  BY <1>2
<1>4. Credentials = {} /\ Credentials' = {} /\ connectionAuthenticated # 0
  BY <1>1 DEF CredentialsOnce, AuthStates, Credentials
<1>5. LinkTypes' /\ NotOpen' /\ CredentialsOnce'
  BY <1>1, <1>2, <1>4 DEF LinkTypes, NotOpen, CredentialsOnce
<1>6. AuthStates'
  <2>1. ASSUME connectionAuthenticated = 2 PROVE toClient'[1].state \in {"0", "1"}
    <3>1. toClient # <<>> /\ toClient[1].state \in {"0", "1"}
      BY <1>1, <1>4, <2>1 DEF AuthStates
    <3>2. 1 \in DOMAIN toClient
      BY <1>1, <1>2, <3>1 DEF LinkTypes
    <3> QED
      BY <1>2, <3>1, <3>2
  <2> QED
    BY <1>3, <1>4, <2>1 DEF AuthStates
<1>7. Withdrawal'
  <2>1. ASSUME NEW k \in DOMAIN toClient', toClient'[k].state = "0"
        PROVE  k = Len(toClient') /\ ~remoteAuth'
    <3>1. k \notin DOMAIN toClient
      BY <1>1, <1>2, <2>1 DEF Withdrawal
    <3>2. k = Len(toClient) + 1
      BY <1>2, <3>1
    <3> QED
      BY <1>2, <2>1, <3>2
  <2>2. ~remoteAuth' => toClient'[Len(toClient')].state = "0"
    BY <1>2
  <2> QED
    BY <1>3, <2>1, <2>2 DEF Withdrawal
<1>8. Owing' /\ ReportsOnRequest'
  BY <1>1 DEF Owing, ReportsOnRequest
<1> QED
  BY <1>5, <1>6, <1>7, <1>8 DEF LinkInv

\* The remote service sends a request.
LEMMA RemoteRequestsInv ==
    ASSUME LinkInv, NEW m \in Requests, RemoteRequests(m)
    PROVE  LinkInv'
<1>1. m \in Message /\ m.state # "0"
  BY DEF Requests, Message
<1>2. /\ remoteAuth /\ toClient' = Append(toClient, m) /\ remoteAuth' = remoteAuth
      /\ UNCHANGED <<web_socket, connectionAuthenticated, writable, toRemote, owed, report>>
  BY DEF RemoteRequests, RemoteSends, reportVars
<1>3. remoteAuth' \in BOOLEAN
  BY <1>2 DEF LinkInv, LinkTypes
<1> QED
  BY <1>1, <1>2, <1>3, RemoteSendsInv

\* The remote service withdraws the authentication.
LEMMA RemoteExpiresInv ==
    ASSUME LinkInv, RemoteExpires
    PROVE  LinkInv'
<1> DEFINE m == [state |-> "0", action |-> "none"]
<1>1. m \in Message /\ m.state = "0"
  BY DEF Message
<1>2. /\ remoteAuth /\ toClient' = Append(toClient, m) /\ remoteAuth' = FALSE
      /\ UNCHANGED <<web_socket, connectionAuthenticated, writable, toRemote, owed, report>>
  BY DEF RemoteExpires, RemoteSends, reportVars
<1> HIDE DEF m
<1> QED
  BY <1>1, <1>2, RemoteSendsInv

-----------------------------------------------------------------------------
(***************************************************************************)
(* The theorems.                                                           *)
(***************************************************************************)

\* Every step preserves the three parts of the invariant.
LEMMA WebSocketStep ==
    ASSUME WebSocketInv, [Next]_vars
    PROVE  WebSocketInv'
<1>1. ListInv /\ ReportInv /\ LinkInv
  BY DEF WebSocketInv
<1>2. ASSUME UNCHANGED <<reportVars, listVars>> PROVE ListInv' /\ ReportInv'
  <2>1. ListInv' /\ Grows
    <3>1. ListInv'
      BY <1>1, <1>2, ListSame
    <3>2. /\ UNCHANGED <<devInfos, block, reportVars, data>> /\ length <= length'
      BY <1>1, <1>2 DEF listVars, ListInv, ListTypes
    <3> QED
      BY <1>1, <3>1, <3>2, SameEntriesGrow
  <2> QED
    BY <1>1, <2>1, ReportGrows
<1>3. CASE Loop \/ Established \/ Receive \/ Closed
  <2>1. UNCHANGED <<reportVars, listVars>>
    BY <1>3 DEF Loop, Established, Receive, Closed
  <2> QED
    BY <1>1, <1>2, <1>3, <2>1, LoopInv, EstablishedInv, ReceiveInv, ClosedInv DEF WebSocketInv
<1>4. CASE Writeable
  <2>1. StartReport \/ UNCHANGED <<reportVars, listVars>>
    BY <1>4 DEF Writeable
  <2>2. ListInv' /\ ReportInv'
    BY <1>1, <1>2, <2>1, ListSame, StartReportInv DEF StartReport
  <2> QED
    BY <1>1, <1>4, <2>2, WriteableInv DEF WebSocketInv
<1>5. CASE SendReport
  <2>1. FinishReport /\ UNCHANGED listVars
    BY <1>5 DEF SendReport, FinishReport
  <2> QED
    BY <1>1, <1>5, <2>1, ListSame, FinishReportInv, SendReportInv DEF WebSocketInv
<1>6. CASE Report /\ UNCHANGED linkVars
  <2>1. report.at # "idle" /\ report'.at # "idle"
    BY <1>1, <1>6 DEF Report, GetFromList, ReadTime, ReadLock, ReadDoor, EndLoop, ReportInv,
                      ReportTypes
  <2> QED
    BY <1>1, <1>6, <2>1, ReportStep, LinkSame DEF WebSocketInv
<1>7. CASE EpollThread /\ UNCHANGED linkVars
  <2>1. ListInv' /\ Grows
    BY <1>1, <1>7, EpollThreadList
  <2>2. report' = report
    BY <2>1 DEF Grows
  <2> QED
    BY <1>1, <1>7, <2>1, <2>2, ReportGrows, LinkSame DEF WebSocketInv
<1>8. CASE \E ok \in BOOLEAN : RemoteAnswer(ok)
  <2>1. UNCHANGED <<reportVars, listVars>>
    BY <1>8 DEF RemoteAnswer
  <2> QED
    BY <1>1, <1>2, <1>8, <2>1, RemoteAnswerInv DEF WebSocketInv
<1>9. CASE RemoteTakesReport \/ RemoteExpires
  <2>1. UNCHANGED <<reportVars, listVars>>
    BY <1>9 DEF RemoteTakesReport, RemoteExpires
  <2> QED
    BY <1>1, <1>2, <1>9, <2>1, RemoteTakesReportInv, RemoteExpiresInv DEF WebSocketInv
<1>10. CASE \E m \in Requests : RemoteRequests(m)
  <2>1. UNCHANGED <<reportVars, listVars>>
    BY <1>10 DEF RemoteRequests
  <2> QED
    BY <1>1, <1>2, <1>10, <2>1, RemoteRequestsInv DEF WebSocketInv
<1>11. CASE UNCHANGED vars
  <2>1. UNCHANGED <<linkVars, reportVars, listVars>> /\ report' = report
    BY <1>11 DEF vars, reportVars
  <2> QED
    BY <1>1, <1>2, <2>1, LinkSame DEF WebSocketInv
<1> QED
  BY <1>3, <1>4, <1>5, <1>6, <1>7, <1>8, <1>9, <1>10, <1>11 DEF Next, WebsocketThread, Remote

\* The inductive invariant holds of the websocket thread, the epoll thread and the
\* remote service together.
THEOREM WebSocketCorrect == Spec => []WebSocketInv
<1>1. Init => WebSocketInv
  BY ListInit, ReportInvInit, LinkInit DEF Init, WebSocketInv
<1>2. WebSocketInv /\ [Next]_vars => WebSocketInv'
  BY WebSocketStep
<1> QED
  BY <1>1, <1>2, PTL DEF Spec

\* The variables keep their types; in particular the list never counts more
\* entries than it has memory for.
THEOREM WebSocketTypes == Spec => []TypeOK
<1>1. WebSocketInv => TypeOK
  <2> SUFFICES ASSUME WebSocketInv PROVE TypeOK
    OBVIOUS
  <2>1. ListTypes /\ ListShape /\ EntriesFresh /\ ReportTypes /\ LinkTypes
    BY DEF WebSocketInv, ListInv, ReportInv, LinkInv
  <2>2. \A k \in DOMAIN devInfos : devInfos[k].dev \in 1 .. MaxDevices
    <3> SUFFICES ASSUME NEW k \in DOMAIN devInfos PROVE k \in 1 .. MaxDevices
      BY <2>1 DEF EntriesFresh, Fresh
    <3>1. k \in 1 .. Len(devInfos) /\ Len(devInfos) <= MaxDevices
      BY <2>1, MaxDevicesAssumption DEF ListTypes, ListShape
    <3> QED
      BY <3>1, MaxDevicesAssumption
  <2>3. length <= Len(devInfos) /\ Len(devInfos) <= length + 1
    BY <2>1 DEF ListTypes, ListShape
  <2>4. ListTypeOK
    <3>1. epoll.at \in EpollAt /\ report.at \in ReportAt
      BY <2>1 DEF ListTypes, ReportTypes
    <3> QED
      BY <2>1, <2>2, <2>3, <3>1 DEF ListTypeOK, ListTypes, ListShape, EpollAt, ReportAt
  <2>5. /\ \A k \in DOMAIN toRemote : toRemote[k] \in {"credentials", "report"}
        /\ \A k \in DOMAIN toClient : toClient[k].state \in {"0", "1", "other", "missing"}
    <3>1. \A k \in DOMAIN toClient : toClient[k] \in Message
      BY <2>1 DEF LinkTypes
    <3> QED
      BY <2>1, <3>1 DEF LinkTypes, Message
  <2> QED
    BY <2>1, <2>4, <2>5 DEF TypeOK, LinkTypes
<1> QED
  BY <1>1, WebSocketCorrect, PTL

\* In a report, no entry that was read from the list's memory mixes times and
\* states in a way that the beacons do not explain.
THEOREM ReportAgesCorrect == Spec => []ReportAges
<1>1. WebSocketInv => ReportAges
  BY DEF WebSocketInv, ReportInv
<1> QED
  BY <1>1, WebSocketCorrect, PTL

\* A report misses no device that was known when it was begun, and reads memory
\* that holds no entry only if the list has been moved.
THEOREM ReportsComplete == Spec => []ReportComplete
<1>1. WebSocketInv => ReportComplete
  BY DEF WebSocketInv, ReportInv
<1> QED
  BY <1>1, WebSocketCorrect, PTL

\* Credentials are not sent twice for one answer.
THEOREM CredentialsSentOnce == Spec => []CredentialsOnce
<1>1. WebSocketInv => CredentialsOnce
  BY DEF WebSocketInv, LinkInv
<1> QED
  BY <1>1, WebSocketCorrect, PTL

\* With nothing on the way, both sides agree about the authentication.
THEOREM AuthenticationAgreed == Spec => []ViewsAgree
<1>1. WebSocketInv => ViewsAgree
  <2> SUFFICES ASSUME WebSocketInv, Credentials = {}, Rulings = {}
               PROVE  connectionAuthenticated = (IF remoteAuth THEN 1 ELSE 0)
    BY DEF ViewsAgree
  <2>1. LinkTypes /\ AuthStates /\ Withdrawal
    BY DEF WebSocketInv, LinkInv
  <2>2. \A k \in DOMAIN toClient : toClient[k].state \notin {"0", "1"}
    BY DEF Rulings
  <2>3. toClient # <<>> => 1 \in DOMAIN toClient /\ Len(toClient) \in DOMAIN toClient
    BY <2>1 DEF LinkTypes
  <2>4. connectionAuthenticated # 2
    BY <2>1, <2>2, <2>3 DEF AuthStates
  <2>5. CASE remoteAuth
    <3>1. connectionAuthenticated # 0
      BY <2>1, <2>5 DEF AuthStates
    <3> QED
      BY <2>1, <2>4, <2>5, <3>1 DEF LinkTypes
  <2>6. CASE ~remoteAuth
    <3>1. connectionAuthenticated = 0
      BY <2>1, <2>2, <2>3, <2>6 DEF Withdrawal
    <3> QED
      BY <2>6, <3>1
  <2> QED
    BY <2>5, <2>6
<1> QED
  BY <1>1, WebSocketCorrect, PTL

\* A report is sent for each accepted request, and none that was not asked for.
THEOREM ReportsRequested == Spec => []ReportsOnRequest
<1>1. WebSocketInv => ReportsOnRequest
  BY DEF WebSocketInv, LinkInv
<1> QED
  BY <1>1, WebSocketCorrect, PTL
=============================================================================
