----------------------------- MODULE Hierarchy -----------------------------
(***************************************************************************)
(* The tree of a World's entities (ecs/hierarchy.cpp): nodes linked to     *)
(* parent, children and siblings, changed under a write that one thread    *)
(* may nest, and read through snapshots that pin it.  A transform is a     *)
(* translation on a ring of Ring positions: composing adds, inverting      *)
(* subtracts.  What KEEP_WORLD refuses (a singular parent, a local that     *)
(* floats cannot hold) throws before anything changes.                     *)
(***************************************************************************)
EXTENDS Integers, Sequences, FiniteSets

CONSTANTS Nodes, Threads, Ring, MaxGenerations, MaxSnapshots, MaxEpoch, NoThread

ASSUME HierarchyAssumption == /\ IsFiniteSet(Nodes)
                              /\ Ring \in Nat \ {0} /\ NoThread \notin Threads
                              /\ MaxGenerations \in Nat /\ MaxSnapshots \in Nat
                              /\ MaxEpoch \in Nat

VARIABLES nodes,      \* index -> identity, parent, first, last, previous, next, local
          epoch,      \* Epoch
          generations,  \* the generations the World gave each index
          writing,    \* Writer and WriteDepth
          snapshots   \* the trees the leases were taken of, with their epoch

treeVars == <<nodes, epoch, generations, writing, snapshots>>

None == <<0, 0>>     \* an empty EntityReference: index and generation 0
References == (Nodes \X (1 .. MaxGenerations)) \cup {None}
Gone == [identity |-> None, parent |-> None, first |-> None, last |-> None,
         previous |-> None, next |-> None, local |-> 0]

---------------------------------------------------------------------------
(* The tree: operators on a function t from indices to nodes *)

IsAlive(t, e) == e # None /\ t[e[1]].identity = e
Get(t, e) == t[e[1]]
Alive(t) == {e \in References : IsAlive(t, e)}

Ancestors(t, e) ==
    LET up[k \in 0 .. Cardinality(Nodes)] ==
            IF k = 0 THEN e
            ELSE IF up[k - 1] = None THEN None ELSE Get(t, up[k - 1]).parent
    IN  {up[k] : k \in 0 .. Cardinality(Nodes)} \ {None}

(* the locals up to the root, composed                                     *)
Resolve(t, e) ==
    LET walk[k \in 0 .. Cardinality(Nodes)] ==
            IF k = 0 THEN [at |-> e, world |-> 0]
            ELSE LET so == walk[k - 1]
                 IN  IF so.at = None THEN so
                     ELSE [at |-> Get(t, so.at).parent, world |-> Get(t, so.at).local + so.world]
    IN  walk[Cardinality(Nodes)].world % Ring

(* the later sibling keeps its link to the node *)
MutantDetach(t, e) ==
    LET n == Get(t, e)
        left == [t EXCEPT ![e[1]].parent = None, ![e[1]].next = None, ![e[1]].previous = None]
        unlinked == IF n.previous # None THEN [left EXCEPT ![n.previous[1]].next = n.next]
                    ELSE IF n.parent # None THEN [left EXCEPT ![n.parent[1]].first = n.next]
                    ELSE left
    IN  IF n.next = None /\ n.parent # None THEN [unlinked EXCEPT ![n.parent[1]].last = n.previous]
        ELSE unlinked

Detach(t, e) ==
    LET n == Get(t, e)
        left == [t EXCEPT ![e[1]].parent = None, ![e[1]].next = None, ![e[1]].previous = None]
        unlinked == IF n.previous # None THEN [left EXCEPT ![n.previous[1]].next = n.next]
                    ELSE IF n.parent # None THEN [left EXCEPT ![n.parent[1]].first = n.next]
                    ELSE left
    IN  IF n.next # None THEN [unlinked EXCEPT ![n.next[1]].previous = n.previous]
        ELSE IF n.parent # None THEN [unlinked EXCEPT ![n.parent[1]].last = n.previous]
        ELSE unlinked

(* A node that goes leaves its children as roots.                          *)
Destroyed(t, e) ==
    LET orphaned[k \in 0 .. Cardinality(Nodes)] ==
            IF k = 0 THEN Detach(t, e)
            ELSE LET first == Get(orphaned[k - 1], e).first
                 IN  IF first = None THEN orphaned[k - 1] ELSE Detach(orphaned[k - 1], first)
    IN  [orphaned[Cardinality(Nodes)] EXCEPT ![e[1]] = Gone]

Attach(t, child, parent, local) ==
    LET alone == [t EXCEPT ![child[1]].local = local, ![child[1]].parent = parent]
        last == Get(t, parent).last
    IN  IF parent = None THEN alone
        ELSE LET linked == [alone EXCEPT ![child[1]].previous = last, ![parent[1]].last = child]
             IN  IF last # None THEN [linked EXCEPT ![last[1]].next = child]
                 ELSE [linked EXCEPT ![parent[1]].first = child]

MayReparent(t, child, parent) ==
    /\ IsAlive(t, child) /\ (parent # None => IsAlive(t, parent))
    /\ child \notin (IF parent = None THEN {} ELSE Ancestors(t, parent))

(* only the local transform of the new parent is undone *)
MutantKeptLocal(t, child, parent, mode) ==
    IF mode = "KEEP_LOCAL" THEN Get(t, child).local
    ELSE (Resolve(t, child) - (IF parent = None THEN 0 ELSE Get(t, parent).local)) % Ring

KeptLocal(t, child, parent, mode) ==
    IF mode = "KEEP_LOCAL" THEN Get(t, child).local
    ELSE (Resolve(t, child) - (IF parent = None THEN 0 ELSE Resolve(t, parent))) % Ring

Reparented(t, child, parent, mode) ==
    IF Get(t, child).parent = parent THEN t
    ELSE Attach(Detach(t, child), child, parent, KeptLocal(t, child, parent, mode))

---------------------------------------------------------------------------

TreeInit ==
        /\ nodes = [i \in Nodes |-> Gone]
        /\ epoch = 0 /\ snapshots = <<>> /\ generations = [i \in Nodes |-> 0]
        /\ writing = [thread |-> NoThread, depth |-> 0]

(* A write begins while nobody reads and no other thread writes; a commit  *)
(* holds one around those of its commands.                                 *)
BeginWrite(t) ==
    /\ snapshots = <<>> /\ (writing.depth = 0 \/ writing.thread = t) /\ writing.depth < 2
    /\ writing' = [thread |-> t, depth |-> writing.depth + 1]
    /\ UNCHANGED <<nodes, epoch, generations, snapshots>>

EndWrite(t) ==
    /\ writing.depth > 0 /\ writing.thread = t
    /\ writing' = [thread |-> IF writing.depth = 1 THEN NoThread ELSE t,
                   depth |-> writing.depth - 1]
    /\ UNCHANGED <<nodes, epoch, generations, snapshots>>

Writes(t) == writing.depth > 0 /\ writing.thread = t
Counts == epoch < MaxEpoch /\ epoch' = epoch + 1

(* the generation of an index comes from the World                         *)
Create(t, e) ==
    /\ Writes(t) /\ Get(nodes, e).identity = None /\ e[2] = generations[e[1]] + 1
    /\ nodes' = [nodes EXCEPT ![e[1]] = [Gone EXCEPT !.identity = e]]
    /\ generations' = [generations EXCEPT ![e[1]] = e[2]]
    /\ Counts /\ UNCHANGED <<writing, snapshots>>

Destroy(t, e) ==
    /\ Writes(t) /\ IsAlive(nodes, e)
    /\ nodes' = Destroyed(nodes, e)
    /\ Counts /\ UNCHANGED <<generations, writing, snapshots>>

SetLocal(t, e, local) ==
    /\ Writes(t) /\ IsAlive(nodes, e)
    /\ nodes' = [nodes EXCEPT ![e[1]].local = local]
    /\ UNCHANGED <<epoch, generations, writing, snapshots>>

Reparent(t, child, parent, mode) ==
    /\ Writes(t) /\ MayReparent(nodes, child, parent)
    /\ nodes' = Reparented(nodes, child, parent, mode)
    /\ IF Get(nodes, child).parent = parent THEN UNCHANGED epoch ELSE Counts
    /\ UNCHANGED <<generations, writing, snapshots>>

AcquireTopologySnapshot ==
    /\ writing.depth = 0 /\ Len(snapshots) < MaxSnapshots
    /\ snapshots' = Append(snapshots, [tree |-> nodes, epoch |-> epoch])
    /\ UNCHANGED <<nodes, epoch, generations, writing>>

ReleaseSnapshot(k) ==
    /\ snapshots' = SubSeq(snapshots, 1, k - 1) \o SubSeq(snapshots, k + 1, Len(snapshots))
    /\ UNCHANGED <<nodes, epoch, generations, writing>>

TreeNext ==
    \/ \E t \in Threads : \/ BeginWrite(t) \/ EndWrite(t)
                          \/ \E e \in References \ {None} :
                                \/ Create(t, e) \/ Destroy(t, e)
                                \/ \E local \in 0 .. Ring - 1 : SetLocal(t, e, local)
                                \/ \E p \in References, mode \in {"KEEP_LOCAL", "KEEP_WORLD"} :
                                      Reparent(t, e, p, mode)
    \/ AcquireTopologySnapshot
    \/ \E k \in DOMAIN snapshots : ReleaseSnapshot(k)

TreeSpec == TreeInit /\ [][TreeNext]_treeVars

---------------------------------------------------------------------------

(* the children as an iterator of a snapshot meets them *)
Children(t, p) ==
    LET at[k \in 0 .. Cardinality(Nodes) + 1] ==
            IF k = 0 THEN Get(t, p).first
            ELSE IF at[k - 1] = None THEN None ELSE Get(t, at[k - 1]).next
    IN  at

(* The links make a forest: no node is its own ancestor, each list of       *)
(* children holds every node with that parent once, backwards too, and no   *)
(* link leads to a node that was destroyed.                                 *)
TreeIsSound ==
    \A e \in Alive(nodes) :
       LET n == Get(nodes, e)
           at == Children(nodes, e)
           mine == {c \in Alive(nodes) : Get(nodes, c).parent = e}
       IN  /\ {n.parent, n.first, n.last, n.previous, n.next} \subseteq Alive(nodes) \cup {None}
           /\ n.parent # None => e \notin Ancestors(nodes, n.parent)
           /\ {at[k] : k \in DOMAIN at} \ {None} = mine
           /\ at[Cardinality(mine)] = None
           /\ n.last = IF mine = {} THEN None ELSE at[Cardinality(mine) - 1]
           /\ \A k \in 1 .. Cardinality(mine) - 1 : Get(nodes, at[k]).previous = at[k - 1]
           /\ n.first # None => Get(nodes, n.first).previous = None

(* What a snapshot shows does not change while it is held.                 *)
SnapshotsAreStable ==
    \A k \in DOMAIN snapshots : snapshots[k] = [tree |-> nodes, epoch |-> epoch]

(* Keeping the world transform keeps it for the whole subtree; a node that  *)
(* is not below the one that moved stays where it is.                       *)
Moved == {e \in Alive(nodes) : IsAlive(nodes', e) /\ Get(nodes, e).parent # Get(nodes', e).parent}

MovesKeepTheRest ==
    [][\A e \in Moved, mode \in {"KEEP_LOCAL", "KEEP_WORLD"} :
          Reparent(writing.thread, e, Get(nodes', e).parent, mode) =>
             \A x \in Alive(nodes) :
                mode = "KEEP_WORLD" \/ e \notin Ancestors(nodes, x)
                   => Resolve(nodes', x) = Resolve(nodes, x)]_treeVars

(* The links are a forest, and a snapshot stays what it was.                *)
HierarchyIsSafe == TreeIsSound /\ SnapshotsAreStable

(* The forest is sound in every state and every move spares the rest of it.  *)
TreeIsSafe == []HierarchyIsSafe /\ MovesKeepTheRest
=============================================================================
