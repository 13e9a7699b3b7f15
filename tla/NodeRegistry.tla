---------------------------- MODULE NodeRegistry ----------------------------
(***************************************************************************)
(* What DistributedHsmService::register_self promises the nodes that call *)
(* it at start-up, with the store and its requests forgotten.  Each node  *)
(* name has at most one HsmNode record; once a record is made for a name *)
(* it stays that name's record.  A starting node either fails or takes    *)
(* the record of its name as its m_self, the record being made first if  *)
(* there is none.  A node process may die and start again.                *)
(***************************************************************************)
CONSTANTS
    Nodes,          \* node processes
    NodeName,       \* the configured name of each node
    Names,          \* every name a record may have
    Ids,            \* record ids
    NoId            \* no record

VARIABLES
    record,         \* per name: its record, or NoId
    reg,            \* per node: "start", "registered" or "failed"
    self            \* per node: the record it holds, or NoId

Init ==
    /\ record = [nm \in Names |-> NoId]
    /\ reg = [n \in Nodes |-> "start"]
    /\ self = [n \in Nodes |-> NoId]

\* A record is made for the name of a starting node that has none.
Allocate(n) ==
    /\ reg[n] = "start"
    /\ record[NodeName[n]] = NoId
    /\ \E id \in Ids : record' = [record EXCEPT ![NodeName[n]] = id]
    /\ UNCHANGED <<reg, self>>

\* The node takes the record of its name.
Register(n) ==
    /\ reg[n] = "start"
    /\ record[NodeName[n]] # NoId
    /\ self' = [self EXCEPT ![n] = record[NodeName[n]]]
    /\ reg' = [reg EXCEPT ![n] = "registered"]
    /\ UNCHANGED record

Fail(n) ==
    /\ reg[n] = "start"
    /\ reg' = [reg EXCEPT ![n] = "failed"]
    /\ UNCHANGED <<record, self>>

\* The process dies and starts again: what it held is gone, the records stay.
Restart(n) ==
    /\ reg[n] # "start"
    /\ reg' = [reg EXCEPT ![n] = "start"]
    /\ self' = [self EXCEPT ![n] = NoId]
    /\ UNCHANGED record

Next == \E n \in Nodes : Allocate(n) \/ Register(n) \/ Fail(n) \/ Restart(n)

Spec == Init /\ [][Next]_<<record, reg, self>>

====
