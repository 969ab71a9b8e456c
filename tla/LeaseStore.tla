------------------------------ MODULE LeaseStore ------------------------------
(***************************************************************************)
(* What the resource manager promises to those who lease from it           *)
(* (resources/resource_manager.h, resource_lease.h): a handle is issued    *)
(* once and retired once, its versions count up and never come back, and   *)
(* at any moment it offers its newest version or none.  Resources          *)
(* implements this; Extraction is built on it.                             *)
(***************************************************************************)
EXTENDS Naturals

CONSTANTS
    Handles,        \* every handle there may be
    MaxVersions     \* bound on the versions of each handle

VARIABLES
    status,     \* of each handle: NEW, LIVE or STALE
    versions,   \* how many versions of it were published
    offered     \* the version it offers, or 0

storeVars == <<status, versions, offered>>

StoreInit ==
    /\ status = [h \in Handles |-> "NEW"]
    /\ versions = [h \in Handles |-> 0]
    /\ offered = [h \in Handles |-> 0]

Issue(h) ==
    /\ status[h] = "NEW"
    /\ status' = [status EXCEPT ![h] = "LIVE"]
    /\ UNCHANGED <<versions, offered>>

\* A new version is offered when no other is.
Offer(h) ==
    /\ status[h] = "LIVE" /\ offered[h] = 0
    /\ versions[h] < MaxVersions[h]
    /\ versions' = [versions EXCEPT ![h] = @ + 1]
    /\ offered' = [offered EXCEPT ![h] = versions[h] + 1]
    /\ UNCHANGED status

Withdraw(h) ==
    /\ offered[h] # 0
    /\ offered' = [offered EXCEPT ![h] = 0]
    /\ UNCHANGED <<status, versions>>

Retire(h) ==
    /\ status[h] = "LIVE" /\ offered[h] = 0
    /\ status' = [status EXCEPT ![h] = "STALE"]
    /\ UNCHANGED <<versions, offered>>

StoreNext == \E h \in Handles : Issue(h) \/ Offer(h) \/ Withdraw(h) \/ Retire(h)

StoreSpec == StoreInit /\ [][StoreNext]_storeVars

\* A lease of what a live handle offers.
NoLease == [version |-> 0]
Lease(h) == IF offered[h] = 0 THEN NoLease ELSE [resource |-> h, version |-> offered[h]]
=============================================================================
