----------------------------- MODULE RenderGraph -----------------------------
(***************************************************************************)
(* The graph of one frame (renderer/render_graph.cpp) and its execution by *)
(* renderer/presentation: a builder imports resources, declares passes and *)
(* explicit dependencies; Compile checks the declarations, derives the     *)
(* hazards of every resource from the order of declaration, sorts the      *)
(* passes and follows which contents are defined; the executor checks the  *)
(* result against the frame and the acquired image and records it.         *)
(*                                                                         *)
(* Formats, extents and capabilities are abstracted to the set of usages   *)
(* an import supports; draw packets to whether a pass has any.             *)
(***************************************************************************)
EXTENDS Naturals, Sequences, FiniteSets

CONSTANTS
    Imports,          \* the resources a caller may import
    PassForms,        \* the passes a caller may declare
    Frames,           \* the identities of live frames
    MaxPasses,        \* bound on declared passes
    MaxDependencies   \* bound on explicit dependencies

Reads == {"SAMPLED_READ", "VERTEX_READ", "INDEX_READ", "UNIFORM_READ",
          "TRANSFER_SOURCE"}
Writes == {"COLOR_ATTACHMENT_WRITE", "DEPTH_STENCIL_WRITE"}
GraphKinds == {"IMAGE", "BUFFER", "SWAPCHAIN"}
Loads == {"LOAD", "CLEAR", "DISCARD"}
Stores == {"STORE", "DISCARD"}
GraphUsages == Reads \cup Writes \cup {"UNDEFINED", "TRANSFER_DESTINATION", "PRESENT"}

GraphUses == [resource : Nat, usage : GraphUsages]
Attachments == [resource : Nat, depth : BOOLEAN, load : Loads, store : Stores]

ASSUME RenderGraphAssumption ==
    /\ \A i \in Imports : /\ i.kind \in GraphKinds
                          /\ {i.initial, i.final} \subseteq GraphUsages
                          /\ i.caps \subseteq GraphUsages \cup {"GPU_READ"}
    /\ \A p \in PassForms :
          /\ p.reads \cup p.writes \subseteq GraphUses
          /\ p.attachments \subseteq Attachments
          /\ p.draws \in BOOLEAN
    /\ Frames \subseteq Nat /\ Frames # {}
    /\ MaxPasses \in Nat /\ MaxDependencies \in Nat

VARIABLES
    graph,      \* the builder: frame, imports, passes, explicit dependencies
    compiled,   \* what the last Compile returned
    gone,       \* released handles and invalidated targets
    recorded    \* how often the commands of a target were recorded

graphVars == <<graph, compiled, gone, recorded>>

-----------------------------------------------------------------------------
(* Validation of what is declared.                                         *)

UsageIsValid(import, usage) ==
    \/ usage = "PRESENT" /\ import.kind = "SWAPCHAIN"
    \/ usage \notin {"UNDEFINED", "PRESENT"} /\ usage \in import.caps

\* Released or invalidated resources are refused at every validation.
ImportIsValid(import) ==
    /\ import.object \notin gone
    /\ import.kind = "SWAPCHAIN" =>
          import.final = "PRESENT" /\ import.initial \in {"UNDEFINED", "PRESENT"}
    /\ import.initial = "UNDEFINED" \/ UsageIsValid(import, import.initial)
    /\ UsageIsValid(import, import.final)

ResourceResolves(imports, resource) == resource \in DOMAIN imports

UseIsValid(imports, use, kinds) ==
    /\ ResourceResolves(imports, use.resource)
    /\ use.usage \in kinds
    /\ UsageIsValid(imports[use.resource], use.usage)

WriteOf(a) == [resource |-> a.resource,
               usage |-> IF a.depth THEN "DEPTH_STENCIL_WRITE" ELSE "COLOR_ATTACHMENT_WRITE"]

AttachmentIsValid(imports, pass, a) ==
    /\ ResourceResolves(imports, a.resource)
    /\ imports[a.resource].kind # "BUFFER"
    /\ WriteOf(a) \in pass.writes
    /\ a.load = "LOAD" /\ imports[a.resource].kind = "IMAGE" =>
          "GPU_READ" \in imports[a.resource].caps

\* A resource has one use and one attachment in a pass.
OncePerResource(set) == \A x, y \in set : x.resource = y.resource => x = y

PassIsValid(imports, pass) ==
    /\ \A use \in pass.reads : UseIsValid(imports, use, Reads)
    /\ \A use \in pass.writes : UseIsValid(imports, use, Writes)
    /\ OncePerResource(pass.reads \cup pass.writes)
    /\ \A a \in pass.attachments : AttachmentIsValid(imports, pass, a)
    /\ OncePerResource(pass.attachments)
    /\ pass.draws => pass.attachments # {}
    /\ \A use \in pass.writes : \E a \in pass.attachments : a.resource = use.resource

-----------------------------------------------------------------------------
(* Compile.                                                                *)

ReadsOf(pass) == {use.resource : use \in pass.reads}
WritesOf(pass) == {use.resource : use \in pass.writes}

Largest(set) == CHOOSE n \in set : \A m \in set : m <= n
Least(set) == CHOOSE n \in set : \A m \in set : n <= m

\* writers[resource] when pass index is registered; zero is none.
Writer(passes, resource, index) ==
    Largest({0} \cup {j \in 1 .. index - 1 : resource \in WritesOf(passes[j])})

\* readers[resource], which a write clears.
Readers(passes, resource, index) ==
    {j \in 1 .. index - 1 : /\ resource \in ReadsOf(passes[j])
                            /\ j > Writer(passes, resource, index)}

MutantHazardsBefore(passes, index) ==
    UNION {{Writer(passes, r, index)} : r \in ReadsOf(passes[index]) \cup WritesOf(passes[index])}

\* Only writes wait for readers: two reads make no edge.
HazardsBefore(passes, index) ==
    (UNION {{Writer(passes, r, index)} : r \in ReadsOf(passes[index]) \cup WritesOf(passes[index])})
    \cup (UNION {Readers(passes, r, index) : r \in WritesOf(passes[index])})

HazardEdges(passes) ==
    {e \in (DOMAIN passes) \X (DOMAIN passes) : e[1] \in HazardsBefore(passes, e[2])}

\* The smallest declaration among the ready passes comes next.
Sorted(count, edges) ==
    LET Ready(done) == {i \in 1 .. count : /\ \A k \in DOMAIN done : done[k] # i
                                           /\ \A e \in edges : e[2] = i => \E k \in DOMAIN done : done[k] = e[1]}
        order[n \in 0 .. count] ==
            IF n = 0 THEN <<>>
            ELSE IF Ready(order[n - 1]) = {} THEN order[n - 1]
            ELSE Append(order[n - 1], Least(Ready(order[n - 1])))
    IN  order[count]

Initialized(imports) == [r \in DOMAIN imports |-> imports[r].initial # "UNDEFINED"]

\* What an attachment leaves behind; a store after a discarding load defines nothing.
Stored(defined, a) ==
    a.store = "STORE" /\ (a.load = "CLEAR" \/ (a.load = "LOAD" /\ defined[a.resource]))

ApplyStores(defined, pass) ==
    [r \in DOMAIN defined |->
        IF \E a \in pass.attachments : a.resource = r
        THEN Stored(defined, CHOOSE a \in pass.attachments : a.resource = r)
        ELSE defined[r]]

\* Which contents are defined after the first n passes of the order.
DefinedAfter(imports, passes, order) ==
    LET after[n \in 0 .. Len(order)] ==
            IF n = 0 THEN Initialized(imports)
            ELSE ApplyStores(after[n - 1], passes[order[n]])
    IN  after

\* "Read before produce" and "Attachment LOAD before produce".
MayStart(defined, pass) ==
    /\ \A r \in ReadsOf(pass) : defined[r]
    /\ \A a \in pass.attachments : a.load = "LOAD" => defined[a.resource]

ContentsAreDefined(imports, passes, order) ==
    LET after == DefinedAfter(imports, passes, order)
    IN  /\ \A n \in DOMAIN order : MayStart(after[n - 1], passes[order[n]])
        /\ \A r \in DOMAIN imports : after[Len(order)][r]

Result(status, order, edges) ==
    [status |-> status, frame |-> graph.frame, imports |-> graph.imports,
     passes |-> graph.passes, dependencies |-> graph.dependencies,
     order |-> order, edges |-> edges]

Declaring == compiled.status = "NONE"

\* Compile reads the builder only; its result is a snapshot.
Compile ==
    LET edges == graph.dependencies \cup HazardEdges(graph.passes)
        order == Sorted(Len(graph.passes), edges)
        declared == /\ \A i \in DOMAIN graph.imports : ImportIsValid(graph.imports[i])
                    /\ \A i \in DOMAIN graph.passes : PassIsValid(graph.imports, graph.passes[i])
        accepted == /\ declared
                    /\ Len(order) = Len(graph.passes)
                    /\ ContentsAreDefined(graph.imports, graph.passes, order)
    IN  /\ Declaring
        /\ compiled' = IF accepted THEN Result("ACCEPTED", order, edges)
                       ELSE IF declared THEN Result("REFUSED", <<>>, {})
                       ELSE Result("INVALID", <<>>, {})
        /\ UNCHANGED <<graph, gone, recorded>>

-----------------------------------------------------------------------------
(* The builder. A caller declares one graph per frame and compiles it once. *)

Empty(frame) == [frame |-> frame, imports |-> <<>>, passes |-> <<>>, dependencies |-> {}]
NotCompiled(frame) ==
    [status |-> "NONE", frame |-> frame, imports |-> <<>>, passes |-> <<>>,
     dependencies |-> {}, order |-> <<>>, edges |-> {}]

GraphInit ==
    /\ graph = Empty(Least(Frames)) /\ compiled = NotCompiled(Least(Frames))
    /\ gone = {}
    /\ recorded = [object \in {i.object : i \in Imports} |-> 0]

\* A second import of an object would hide hazards.
Import(import) ==
    /\ Declaring
    /\ \A i \in DOMAIN graph.imports : graph.imports[i].object # import.object
    /\ ImportIsValid(import)
    /\ graph' = [graph EXCEPT !.imports = Append(@, import)]
    /\ UNCHANGED <<compiled, gone, recorded>>

\* Passes are taken as they are; Compile judges them.
AddGraphicsPass(pass) ==
    /\ Declaring
    /\ Len(graph.passes) < MaxPasses
    /\ graph' = [graph EXCEPT !.passes = Append(@, pass)]
    /\ UNCHANGED <<compiled, gone, recorded>>

AddDependency(before, after) ==
    /\ Declaring
    /\ Cardinality(graph.dependencies) < MaxDependencies
    /\ {before, after} \subseteq DOMAIN graph.passes
    /\ before # after
    /\ graph' = [graph EXCEPT !.dependencies = @ \cup {<<before, after>>}]
    /\ UNCHANGED <<compiled, gone, recorded>>

\* The next frame has a builder of its own; a compiled graph may outlive it.
NextFrame(frame) ==
    /\ compiled.status # "NONE"
    /\ graph.frame # frame
    /\ graph' = Empty(frame)
    /\ UNCHANGED <<compiled, gone, recorded>>

\* A handle is released, or a target invalidated by a new swapchain.
Invalidate(object) ==
    /\ object \notin gone
    /\ \E i \in DOMAIN graph.imports : graph.imports[i].object = object
    /\ gone' = gone \cup {object}
    /\ UNCHANGED <<graph, compiled, recorded>>

-----------------------------------------------------------------------------
(* Execution: GraphPresentation::Impl::Record with ValidateColorExecution. *)

ValidateResources(frame) ==
    /\ compiled.status = "ACCEPTED"
    /\ compiled.frame = frame
    /\ \A i \in DOMAIN compiled.imports : ImportIsValid(compiled.imports[i])

ValidateColorExecution(frame, target) ==
    /\ ValidateResources(frame)
    /\ Len(compiled.imports) = 1
    /\ compiled.imports[1].kind = "SWAPCHAIN"
    /\ compiled.imports[1].object = target
    /\ compiled.imports[1].initial = "UNDEFINED"
    /\ compiled.passes # <<>>
    /\ \A i \in DOMAIN compiled.passes :
          /\ compiled.passes[i].reads = {}
          /\ \E a \in compiled.passes[i].attachments :
                /\ compiled.passes[i].attachments = {a}
                /\ compiled.passes[i].writes = {WriteOf(a)}
                /\ ~a.depth /\ a.resource = 1

\* The target lives for one recording, whether that succeeds or not.
Retired(target) == gone \cup {target}

RecordGraph(target) ==
    /\ target \notin gone
    /\ recorded' = [recorded EXCEPT ![target] =
                      IF ValidateColorExecution(graph.frame, target) THEN @ + 1 ELSE @]
    /\ gone' = Retired(target)
    /\ UNCHANGED <<graph, compiled>>

Targets == {i.object : i \in {j \in Imports : j.kind = "SWAPCHAIN"}}

GraphNext ==
    \/ \E import \in Imports : Import(import)
    \/ \E pass \in PassForms : AddGraphicsPass(pass)
    \/ \E before, after \in 1 .. MaxPasses : AddDependency(before, after)
    \/ Compile
    \/ \E frame \in Frames : NextFrame(frame)
    \/ \E object \in {i.object : i \in Imports} : Invalidate(object)
    \/ \E target \in Targets : RecordGraph(target)

GraphSpec == GraphInit /\ [][GraphNext]_graphVars

-----------------------------------------------------------------------------
(* Correctness.                                                            *)

\* Passes that must keep the order in which they were declared.
Conflict(p, q) ==
    \/ WritesOf(p) \cap (ReadsOf(q) \cup WritesOf(q)) # {}
    \/ ReadsOf(p) \cap WritesOf(q) # {}

\* The orders a compiled graph may have: explicit dependencies are kept, and
\* conflicting passes follow each other as declared.
Orders ==
    LET n == Len(compiled.passes)
    IN  {order \in [1 .. n -> 1 .. n] :
            /\ \A i, j \in 1 .. n : order[i] = order[j] => i = j
            /\ \A i, j \in 1 .. n : i < j =>
                  /\ <<order[j], order[i]>> \notin compiled.dependencies
                  /\ Conflict(compiled.passes[order[i]], compiled.passes[order[j]]) => order[i] < order[j]}

\* What a pass finds in a resource when the passes run in an order: the last
\* pass that wrote it, or zero.
FoundContents(order, position, resource) ==
    LET writers == {k \in 1 .. position - 1 : resource \in WritesOf(compiled.passes[order[k]])}
    IN  IF writers = {} THEN 0 ELSE order[Largest(writers)]

Declared == [i \in 1 .. Len(compiled.passes) |-> i]

\* The attachment through which a pass writes a resource.
Writing(i, resource) == CHOOSE a \in compiled.passes[i].attachments : a.resource = resource

\* Before declared pass number index the contents of a resource go back to
\* the import or to a stored clear, through loads that were stored.
Traced(resource, index) ==
    \E i \in 0 .. index - 1 :
        /\ \/ i = 0 /\ compiled.imports[resource].initial # "UNDEFINED"
           \/ /\ i > 0 /\ resource \in WritesOf(compiled.passes[i])
              /\ Writing(i, resource).load = "CLEAR" /\ Writing(i, resource).store = "STORE"
        /\ \A j \in i + 1 .. index - 1 : resource \in WritesOf(compiled.passes[j]) =>
              Writing(j, resource).load = "LOAD" /\ Writing(j, resource).store = "STORE"

AllTraced ==
    /\ \A i \in DOMAIN compiled.passes :
          /\ \A r \in ReadsOf(compiled.passes[i]) : Traced(r, i)
          /\ \A a \in compiled.passes[i].attachments : a.load = "LOAD" => Traced(a.resource, i)
    /\ \A r \in DOMAIN compiled.imports : Traced(r, Len(compiled.passes) + 1)

\* A compiled graph means what was declared: every pass finds in every
\* resource it reads or writes what it would find if the passes ran as they
\* were declared, and whatever is read, loaded or handed on is defined.
CompiledMeansDeclared ==
    compiled.status = "ACCEPTED" =>
        /\ \A k \in DOMAIN compiled.order :
              LET i == compiled.order[k] IN
              \A r \in ReadsOf(compiled.passes[i]) \cup WritesOf(compiled.passes[i]) :
                  FoundContents(compiled.order, k, r) = FoundContents(Declared, i, r)
        /\ AllTraced

\* Compile refuses valid declarations only when no order will do or contents
\* are missing, and of the orders that do it returns the first one.
CompileIsExact ==
    /\ compiled.status = "REFUSED" => Orders = {} \/ ~AllTraced
    /\ compiled.status = "ACCEPTED" =>
          /\ compiled.order \in Orders
          /\ \A order \in Orders : order # compiled.order =>
                LET k == Least({n \in DOMAIN order : order[n] # compiled.order[n]})
                IN  compiled.order[k] < order[k]

\* An acquired image is recorded once: a graph that is kept, or compiled
\* again, finds its target invalid.
TargetsAreRecordedOnce == \A object \in DOMAIN recorded : recorded[object] <= 1

\* What the executor may rely on, for every graph the builder can declare:
\* the compiled order means what was declared (render_graph.cpp:338-505), it
\* is the first such order and is refused only when there is none, and no
\* graph is recorded twice into an image (presentation.cpp:175).
GraphsAreSound ==
    /\ CompiledMeansDeclared
    /\ CompileIsExact
    /\ TargetsAreRecordedOnce
=============================================================================
