------------------------ MODULE MCAccessCoordinator ------------------------
(* Footprints whose scopes meet in each way Overlaps distinguishes.        *)
EXTENDS AccessCoordinator

Scope(kind, begin, count, elements) ==
  [kind |-> kind, begin |-> begin, count |-> count, elements |-> elements]
Access(requirement, scope) == [type |-> "d", requirement |-> requirement, scope |-> scope]

WritesChunk == {Access("WRITE", Scope("CHUNK", 0, 2, {}))}
ReadsSet == {Access("READ", Scope("ENTITY_SET", 0, 0, {1, 2}))}
WritesBoth == {Access("WRITE", Scope("ENTITY", 2, 0, {})), Access("EXCLUSIVE", Scope("RESOURCE", 1, 0, {}))}

ManyFootprints == {WritesChunk, ReadsSet, WritesBoth}
FewFootprints == {WritesChunk, ReadsSet}
=============================================================================
