----------------------------- MODULE MCSession -----------------------------
(* Small instances of Session for TLC. *)
EXTENDS Session, FiniteSets, TLC

\* A word has two digits in base WordBase; byte order conversion exchanges them.
WordBase == 2
MCModulus == WordBase * WordBase
MCSwap == [x \in 0 .. (MCModulus - 1) |-> (x % WordBase) * WordBase + x \div WordBase]

\* No action tells commands apart, nor connections.
Symmetry == Permutations(Commands) \cup Permutations(Conns)

\* Bound: while two slots are in use at most one command has been requested, and a
\* node has at most one beacon to send; with one slot in use there is no such limit.
FewWhenParallel ==
    \/ Cardinality({c \in Conns : status[c] # "free"}) <= 1
    \/ /\ Cardinality({cmd \in Commands : target[cmd] # None}) <= 1
       /\ \A n \in Nodes : Len(nodeQueue[n]) <= 1
=============================================================================
