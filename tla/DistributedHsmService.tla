------------------------ MODULE DistributedHsmService ------------------------
(***************************************************************************)
(* DistributedHsmService::register_self                                   *)
(* (src/src/hsm/distributed_hsm_service/DistributedHsmService.cc) run by  *)
(* every node at start-up, composed with the KeyValueCrudClient that      *)
(* stores the HsmNode records.  Each node is a client of that store:      *)
(* register_self reads the node record by its configured name (the name  *)
(* index key, then the item key) and, when nothing is found, creates it   *)
(* (STRING_SET of item and index, then SET_ADD).  m_config.m_self then    *)
(* takes the id of the record found or created.  The CrudService between *)
(* them is not in the repository; it is taken to pass a NAME read and an *)
(* ITEM create straight to KeyValueCrudClient::read and ::create.         *)
(*                                                                         *)
(* A node process may crash at any point and be started again: it loses  *)
(* m_self and the request it was making, the store keeps what it wrote.  *)
(***************************************************************************)
EXTENDS KeyValueCrudClient

CONSTANTS
    NodeName,       \* the configured name of each node (a client)
    MaxRestarts     \* bound on crashes and restarts of node processes

VARIABLES
    reg,            \* per node: where register_self is
    self,           \* per node: the id in m_config.m_self, or NoId
    restarts        \* restarts so far

dvars == <<vars, reg, self, restarts>>

RegSteps == {"start", "get", "create", "registered", "failed"}

\* m_config.m_self before registration: the node's name and no id.
SelfRequest(n) ==
    [form |-> "items", reqs |-> <<[pk |-> NoId, name |-> NodeName[n]]>>]

\* The store requests register_self's two CRUD requests are made of,
\* after the first; no register_self step happens in between.
kv_step(n) ==
    /\ read_name_get(n) \/ create_set_add(n)
    /\ UNCHANGED <<reg, self, restarts>>

\* get_response = make_request(read by NAME): its first store request.
register_self(n) ==
    /\ reg[n] = "start"
    /\ read_name(n, NodeName[n])
    /\ reg' = [reg EXCEPT ![n] = "get"]
    /\ UNCHANGED <<self, restarts>>

\* A response that is not ok throws ("Failed to check for pre-existing
\* tag", "Failed to register node"): start-up of the node fails.
register_failed(n) ==
    /\ reg[n] \in {"get", "create"}
    /\ pc[n] = Idle
    /\ ~ret[n].ok
    /\ reg' = [reg EXCEPT ![n] = "failed"]
    /\ UNCHANGED <<vars, self, restarts>>

\* A faulty variant: the found record is ignored and m_self created anew.
register_found_create(n) ==
    /\ reg[n] = "get"
    /\ pc[n] = Idle
    /\ ret[n].ok /\ ret[n].ids # {}
    /\ create(n, SelfRequest(n))
    /\ reg' = [reg EXCEPT ![n] = "create"]
    /\ UNCHANGED <<self, restarts>>

\* found: m_self = the item returned.
register_found(n) ==
    /\ reg[n] = "get"
    /\ pc[n] = Idle
    /\ ret[n].ok /\ ret[n].ids # {}
    /\ self' = [self EXCEPT ![n] = CHOOSE id \in ret[n].ids : TRUE]
    /\ reg' = [reg EXCEPT ![n] = "registered"]
    /\ UNCHANGED <<vars, restarts>>

\* not found: make_request(CREATE of m_self), its first store request.
register_create(n) ==
    /\ reg[n] = "get"
    /\ pc[n] = Idle
    /\ ret[n].ok /\ ret[n].ids = {}
    /\ create(n, SelfRequest(n))
    /\ reg' = [reg EXCEPT ![n] = "create"]
    /\ UNCHANGED <<self, restarts>>

\* A faulty variant: m_self is not replaced by the created item.
register_created_keep(n) ==
    /\ reg[n] = "create"
    /\ pc[n] = Idle
    /\ ret[n].ok
    /\ reg' = [reg EXCEPT ![n] = "registered"]
    /\ UNCHANGED <<vars, self, restarts>>

\* created: m_self = the item the create returned.
register_created(n) ==
    /\ reg[n] = "create"
    /\ pc[n] = Idle
    /\ ret[n].ok
    /\ self' = [self EXCEPT ![n] = ret[n].ids[1]]
    /\ reg' = [reg EXCEPT ![n] = "registered"]
    /\ UNCHANGED <<vars, restarts>>

\* A faulty variant: m_self survives the restart.
restart_keep_self(n) ==
    /\ restarts < MaxRestarts
    /\ reg[n] # "start"
    /\ pc' = [pc EXCEPT ![n] = Idle]
    /\ reg' = [reg EXCEPT ![n] = "start"]
    /\ restarts' = restarts + 1
    /\ UNCHANGED <<items, nameIndex, idset, locks, generated, ret, faults, acked, self>>

\* The node process dies and is started again, at any point: the request
\* it was making is abandoned, m_self is back to its configuration, and
\* start-up calls register_self again.
restart(n) ==
    /\ restarts < MaxRestarts
    /\ reg[n] # "start"
    /\ pc' = [pc EXCEPT ![n] = Idle]
    /\ reg' = [reg EXCEPT ![n] = "start"]
    /\ self' = [self EXCEPT ![n] = NoId]
    /\ restarts' = restarts + 1
    /\ UNCHANGED <<items, nameIndex, idset, locks, generated, ret, faults, acked>>

DInit ==
    /\ Init
    /\ reg = [n \in Clients |-> "start"]
    /\ self = [n \in Clients |-> NoId]
    /\ restarts = 0

\* Every step of one node's start-up, restarts left out.
NodeStep(n) ==
    \/ register_self(n) \/ kv_step(n)
    \/ register_failed(n) \/ register_found(n)
    \/ register_create(n) \/ register_created(n)

DNext == \E n \in Clients : NodeStep(n) \/ restart(n)

DSpec == DInit /\ [][DNext]_dvars

(***************************************************************************)
(* Properties.                                                            *)
(***************************************************************************)
NodeTypeOK ==
    /\ TypeOK
    /\ reg \in [Clients -> RegSteps]
    /\ self \in [Clients -> Ids \cup {NoId}]
    /\ restarts \in 0 .. MaxRestarts

\* The records stored under a name.
Records(name) == {id \in Ids : items[id] # Absent /\ items[id].name = name}

\* However the nodes' requests interleave, fail or are cut short by a
\* crash, each node has at most one HsmNode record: register_self after a
\* restart finds the record an earlier run wrote, also when that run died
\* or failed between its STRING_SET and its SET_ADD.
OneRecordPerNode == \A n \in Clients : Cardinality(Records(NodeName[n])) <= 1

\* A node that register_self has registered holds in m_self the id of a
\* stored record that a read by its name finds.
RegisteredFindsSelf ==
    \A n \in Clients :
        reg[n] = "registered" =>
            /\ self[n] # NoId
            /\ items[self[n]] # Absent
            /\ nameIndex[NodeName[n]] = self[n]

(***************************************************************************)
(* Refinement: register_self over the store implements NodeRegistry.  A   *)
(* name's record is its name index entry; a node still reading or         *)
(* creating is, to the abstract registry, still starting.                 *)
(***************************************************************************)
AbsReg == [n \in Clients |-> IF reg[n] \in {"get", "create"} THEN "start" ELSE reg[n]]

Registry == INSTANCE NodeRegistry
                WITH Nodes <- Clients, record <- nameIndex, reg <- AbsReg

\* Whatever the interleaving, failures and crashes, the name index entry of
\* a node's name is written once and never replaced, and register_self
\* only ever sets m_self to the record that entry names: the behaviours of
\* register_self over KeyValueCrudClient are behaviours of NodeRegistry.
RegistryRefined == Registry!Spec

====
