---------------------------- MODULE DeviceReport ----------------------------
(***************************************************************************)
(* The list of devices (devInfos) that two threads of the server share     *)
(* without a lock.  The epoll thread adds a device when it has enrolled it *)
(* (processMsg, addToList of arrayList.c) and writes the status of a lock  *)
(* into its entry when a beacon comes (nodeToServerBeacon); the websocket  *)
(* thread walks the list to report it (webSocketThread.c, WRITEABLE).      *)
(*                                                                         *)
(* Abstractions.  A field holds the number of the beacon it comes from, 0  *)
(* before the first one.  Type, password and connection type are left out: *)
(* the password is written and read right after the door state.  Writes    *)
(* become visible in program order, and allocation does not fail.          *)
(***************************************************************************)
EXTENDS Naturals, Sequences

CONSTANTS
    MaxDevices,  \* bound: number of devices; they are numbered as they enrol
    Increment,   \* listIncrement of initList, 5 in the code
    MaxBeacons   \* bound: number of beacons

ASSUME IncrementAssumption == Increment \in Nat \ {0}
ASSUME MaxDevicesAssumption == MaxDevices \in Nat
ASSUME MaxBeaconsAssumption == MaxBeacons \in Nat

VARIABLES
    devInfos,                          \* entries in the list's memory
    length, allocated, listIncrement,  \* fields of the arrayList
    block,    \* the block of memory that holds the list; former ones are freed
    data,     \* the block that the arrayList points to
    epoll,    \* what the epoll thread is doing, and to which entry or device
    report,   \* what the websocket thread is doing: the entry it has come to,
              \* the block of its pointer, what it has read
    beacons,  \* number of beacons so far
    \* History, read by no action.
    known,    \* length of the list when the report was begun
    moved     \* memory has been freed that the report may still read

listVars   == <<devInfos, length, allocated, listIncrement, block, data, epoll, beacons>>
reportVars == <<report, known, moved>>

NoReport == [at |-> "idle", i |-> 0, block |-> 0, entry |-> <<>>, entries |-> <<>>]

ReportInit ==
    /\ devInfos = <<>>
    /\ length = 0
    /\ allocated = Increment
    /\ listIncrement = Increment
    /\ block = 0
    /\ data = 0
    /\ epoll = [at |-> "idle", dev |-> 0]
    /\ beacons = 0
    /\ report = NoReport
    /\ known = 0
    /\ moved = FALSE

-----------------------------------------------------------------------------
(***************************************************************************)
(* The epoll thread: addToList for a new device.                           *)
(***************************************************************************)

\* The list is full: realloc may move it, and the arrayList still points to the
\* freed block.
Realloc ==
    /\ epoll.at = "idle"
    /\ length < MaxDevices
    /\ allocated <= length
    /\ listIncrement' = 2 * listIncrement
    /\ block' \in {block, block + 1}
    /\ moved' = (moved \/ (report.at # "idle" /\ block' # block))
    /\ epoll' = [at |-> "data", dev |-> length + 1]
    /\ UNCHANGED <<devInfos, length, allocated, data, beacons, report, known>>
AssignData ==
    /\ epoll.at = "data"
    /\ data' = block
    /\ allocated' = allocated + listIncrement
    /\ epoll' = [epoll EXCEPT !.at = "copy"]
    /\ UNCHANGED <<devInfos, length, listIncrement, block, beacons, reportVars>>
EnoughMemory ==
    /\ epoll.at = "idle"
    /\ length < MaxDevices
    /\ allocated > length
    /\ epoll' = [at |-> "copy", dev |-> length + 1]
    /\ UNCHANGED <<devInfos, length, allocated, listIncrement, block, data, beacons,
                   reportVars>>

\* The entry is copied into the list before the length counts it.  (A wrong
\* version counts it first.)
CountEntryFirst ==
    /\ epoll.at = "copy"
    /\ length' = length + 1
    /\ epoll' = [epoll EXCEPT !.at = "length"]
    /\ UNCHANGED <<devInfos, allocated, listIncrement, block, data, beacons, reportVars>>
CopyEntry ==
    /\ epoll.at = "copy"
    /\ devInfos' = Append(devInfos, [dev |-> epoll.dev, time |-> 0, lock |-> 0,
                                     door |-> 0])
    /\ epoll' = [epoll EXCEPT !.at = "length"]
    /\ UNCHANGED <<length, allocated, listIncrement, block, data, beacons, reportVars>>
CountEntry ==
    /\ epoll.at = "length"
    /\ length' = length + 1
    /\ epoll' = [at |-> "idle", dev |-> 0]
    /\ UNCHANGED <<devInfos, allocated, listIncrement, block, data, beacons, reportVars>>

-----------------------------------------------------------------------------
(***************************************************************************)
(* The epoll thread: nodeToServerBeacon writes lock state, door state and, *)
(* in updateDeviceStatus, the time of the last connection.                 *)
(***************************************************************************)
BeaconLock(i) ==
    /\ epoll.at = "idle"
    /\ i \in 1 .. length
    /\ beacons < MaxBeacons
    /\ beacons' = beacons + 1
    /\ devInfos' = [devInfos EXCEPT ![i].lock = @ + 1]
    /\ epoll' = [at |-> "door", dev |-> i]
    /\ UNCHANGED <<length, allocated, listIncrement, block, data, reportVars>>
BeaconDoor ==
    /\ epoll.at = "door"
    /\ devInfos' = [devInfos EXCEPT ![epoll.dev].door = devInfos[epoll.dev].lock]
    /\ epoll' = [epoll EXCEPT !.at = "time"]
    /\ UNCHANGED <<length, allocated, listIncrement, block, data, beacons, reportVars>>
UpdateDeviceStatus ==
    /\ epoll.at = "time"
    /\ devInfos' = [devInfos EXCEPT ![epoll.dev].time = devInfos[epoll.dev].lock]
    /\ epoll' = [at |-> "idle", dev |-> 0]
    /\ UNCHANGED <<length, allocated, listIncrement, block, data, beacons, reportVars>>

-----------------------------------------------------------------------------
(***************************************************************************)
(* The websocket thread: the report, entry by entry and field by field.    *)
(***************************************************************************)
StartReport ==
    /\ report.at = "idle"
    /\ report' = [NoReport EXCEPT !.at = "loop", !.i = 1]
    /\ known' = length
    /\ moved' = (data # block)
    /\ UNCHANGED listVars

\* getFromList: a pointer into the block that the arrayList points to.  (The
\* wrong version goes one entry too far.)
LoopTooFar == report.i <= length + 1
InLoop == report.i <= length
GetFromList ==
    /\ report.at = "loop"
    /\ InLoop
    /\ report' = [report EXCEPT !.at = "time", !.block = data]
    /\ UNCHANGED <<known, moved, listVars>>

\* What is behind the pointer can be read if its block has not been freed.
Readable == report.block = block /\ report.i \in DOMAIN devInfos
Pointed == IF Readable THEN devInfos[report.i]
           ELSE [dev |-> 0, time |-> 0, lock |-> 0, door |-> 0]

\* Identifier and time are read first, then the lock state, then the door
\* state.  (The wrong version reads the time once more, after the status.)
ReadTime ==
    /\ report.at = "time"
    /\ report' = [report EXCEPT !.at = "lock",
                     !.entry = [dev |-> Pointed.dev, time |-> Pointed.time, lock |-> 0,
                                door |-> 0, junk |-> ~Readable]]
    /\ UNCHANGED <<known, moved, listVars>>
ReadLock ==
    /\ report.at = "lock"
    /\ report' = [report EXCEPT !.at = "door", !.entry.lock = Pointed.lock,
                     !.entry.junk = @ \/ ~Readable]
    /\ UNCHANGED <<known, moved, listVars>>
ReadDoorTwice ==
    /\ report.at = "door"
    /\ report' = [report EXCEPT !.at = "loop", !.i = @ + 1, !.entry = <<>>,
                     !.entries = Append(@, [report.entry EXCEPT
                         !.door = Pointed.door, !.time = Pointed.time,
                         !.junk = @ \/ ~Readable])]
    /\ UNCHANGED <<known, moved, listVars>>
ReadDoor ==
    /\ report.at = "door"
    /\ report' = [report EXCEPT !.at = "loop", !.i = @ + 1, !.entry = <<>>,
                     !.entries = Append(@, [report.entry EXCEPT
                         !.door = Pointed.door, !.junk = @ \/ ~Readable])]
    /\ UNCHANGED <<known, moved, listVars>>

\* The length is looked at again after the loop: with no device the message is
\* another one.
EndLoop ==
    /\ report.at = "loop"
    /\ ~InLoop
    /\ report' = [report EXCEPT !.at = IF length > 0 THEN "devicesFound" ELSE "noDevices"]
    /\ UNCHANGED <<known, moved, listVars>>
FinishReport ==
    /\ report.at \in {"devicesFound", "noDevices"}
    /\ report' = NoReport
    /\ known' = 0
    /\ moved' = FALSE
    /\ UNCHANGED listVars

EpollThread ==
    \/ Realloc \/ AssignData \/ EnoughMemory \/ CopyEntry \/ CountEntry
    \/ \E i \in DOMAIN devInfos : BeaconLock(i)
    \/ BeaconDoor \/ UpdateDeviceStatus
Report == GetFromList \/ ReadTime \/ ReadLock \/ ReadDoor \/ EndLoop

-----------------------------------------------------------------------------
(***************************************************************************)
(* Properties.                                                             *)
(***************************************************************************)

\* Types; the list never counts more entries than it has memory for.
ListTypeOK ==
    /\ \A k \in DOMAIN devInfos : devInfos[k].dev \in 1 .. MaxDevices
    /\ length \in Nat /\ length <= allocated
    /\ length <= Len(devInfos) /\ Len(devInfos) <= length + 1
    /\ allocated \in Nat /\ listIncrement \in Nat
    /\ data <= block /\ beacons \in 0 .. MaxBeacons
    /\ epoll.at \in {"idle", "data", "copy", "length", "door", "time"}
    /\ report.at \in {"idle", "loop", "time", "lock", "door", "devicesFound", "noDevices"}

\* In an entry that was read from the memory that holds it, the time of the last
\* connection is never newer than the lock state, and the door state at most
\* one beacon older than the lock state, however the report and the beacons
\* interleave: status is written in the order in which it is read, and the time
\* the other way round (nodeToServerBeacon, updateDeviceStatus, WRITEABLE).
ReportAges ==
    \A k \in DOMAIN report.entries :
        LET e == report.entries[k]
        IN  ~e.junk => e.time <= e.lock /\ e.lock <= e.door + 1

\* A report has an entry for every device that was known when it began, each in
\* its place; and if it says that there are no devices it has read no entry.  It
\* reads memory that does not hold an entry only if the list has been moved
\* since the report began, or was being moved then: not by running past the
\* entries that have been written, although the length grows while it walks
\* (getFromList against addToList).
ReportComplete ==
    /\ \A k \in DOMAIN report.entries :
          IF report.entries[k].junk THEN moved ELSE report.entries[k].dev = k
    /\ report.at = "devicesFound" => Len(report.entries) >= known
    /\ report.at = "noDevices" => known = 0 /\ report.entries = <<>>
=============================================================================
