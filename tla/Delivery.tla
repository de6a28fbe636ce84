------------------------------ MODULE Delivery ------------------------------
(***************************************************************************)
(* What the server promises about the commands users request for nodes,    *)
(* without sessions, connections, threads or the shape of the queue.       *)
(*                                                                         *)
(* A requested command waits until it has been sent or discarded; while it *)
(* waits it may be sent any number of times (two requests can hold it),    *)
(* and it leaves only after it was sent or discarded.  A node runs only    *)
(* commands that were sent and that were requested for it.  Session        *)
(* implements this specification.                                          *)
(***************************************************************************)
EXTENDS Sequences

CONSTANTS Nodes, Commands, None

VARIABLES
    target,    \* the device a command was requested for
    waiting,   \* the commands the server holds
    everSent,  \* commands sent at least once
    dropped,   \* commands discarded
    executed   \* commands a node ran since it last hung up

vars == <<target, waiting, everSent, dropped, executed>>

Init ==
    /\ target = [m \in Commands |-> None]
    /\ waiting = {}
    /\ everSent = {}
    /\ dropped = {}
    /\ executed = [n \in Nodes |-> <<>>]

Request(n, cmd) ==
    /\ target[cmd] = None
    /\ target' = [target EXCEPT ![cmd] = n]
    /\ waiting' = waiting \cup {cmd}
    /\ UNCHANGED <<everSent, dropped, executed>>

Send(cmd) ==
    /\ cmd \in waiting
    /\ everSent' = everSent \cup {cmd}
    /\ UNCHANGED <<target, waiting, dropped, executed>>

Discard(cmd) ==
    /\ cmd \in waiting
    /\ dropped' = dropped \cup {cmd}
    /\ UNCHANGED <<target, waiting, everSent, executed>>

\* Commands that have been dealt with leave the server.
Remove(done) ==
    /\ done \subseteq everSent \cup dropped
    /\ waiting' = waiting \ done
    /\ UNCHANGED <<target, everSent, dropped, executed>>

Execute(n, cmd) ==
    /\ cmd \in everSent
    /\ target[cmd] = n
    /\ executed' = [executed EXCEPT ![n] = Append(@, cmd)]
    /\ UNCHANGED <<target, waiting, everSent, dropped>>

HangUp(n) ==
    /\ executed' = [executed EXCEPT ![n] = <<>>]
    /\ UNCHANGED <<target, waiting, everSent, dropped>>

\* A restart of the server discards everything it holds.
Restart ==
    /\ dropped' = dropped \cup waiting
    /\ waiting' = {}
    /\ UNCHANGED <<target, everSent, executed>>

Next ==
    \/ \E n \in Nodes, cmd \in Commands : Request(n, cmd) \/ Execute(n, cmd)
    \/ \E cmd \in Commands : Send(cmd) \/ Discard(cmd)
    \/ \E done \in SUBSET Commands : Remove(done)
    \/ \E n \in Nodes : HangUp(n)
    \/ Restart

Spec == Init /\ [][Next]_vars
=============================================================================
