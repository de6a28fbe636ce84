---------------------------- MODULE CommandQueue ----------------------------
(***************************************************************************)
(* The server's queue of commands for nodes (commandsQueue in server.c):   *)
(* a list of requests, each holding a device ID and the list of commands   *)
(* to send to that device.  Every access holds commandsQueueMux, so the    *)
(* operations are given here as functions from queues to queues.           *)
(***************************************************************************)
EXTENDS Naturals, Sequences

\* A queue is a sequence of requests (commandRequest_t).
Request(Devs, Cmds) == [devId : Devs, commands : Seq(Cmds)]

\* A new request that holds one command.
NewRequest(dev, cmd) == [devId |-> dev, commands |-> <<cmd>>]

\* The loop of addToCommandQueue: the command is appended to every request
\* that is already queued for the device.
AppendToMatching(q, dev, cmd) ==
    [i \in DOMAIN q |->
        IF q[i].devId = dev
        THEN [q[i] EXCEPT !.commands = Append(@, cmd)]
        ELSE q[i]]

\* A wrong version of addToCommandQueue: a command is lost if a request for the
\* device exists.
AddOnlyIfAbsent(q, dev, cmd) ==
    IF \E i \in DOMAIN q : q[i].devId = dev
    THEN q
    ELSE Append(q, NewRequest(dev, cmd))

\* addToCommandQueue(DEVID, command).  The new request is created after the
\* loop whether or not the loop found one for the device.
addToCommandQueue(q, dev, cmd) ==
    Append(AppendToMatching(q, dev, cmd), NewRequest(dev, cmd))

\* Wrong versions of removeFromList: the last element fills the gap; the index
\* is rejected.
RemoveBySwap(q, i) ==
    [k \in 1 .. (Len(q) - 1) |-> IF k = i THEN q[Len(q)] ELSE q[k]]
RemoveRejected(q, i) == q

\* removeFromList(list, i): later elements move one place forward.
removeFromList(q, i) ==
    [k \in 1 .. (Len(q) - 1) |-> IF k < i THEN q[k] ELSE q[k + 1]]

\* The commands queued for a device.
QueuedFor(q, dev) ==
    UNION {{q[i].commands[k] : k \in DOMAIN q[i].commands} :
            i \in {j \in DOMAIN q : q[j].devId = dev}}
=============================================================================
