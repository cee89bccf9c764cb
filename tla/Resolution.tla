----------------------------- MODULE Resolution -----------------------------
(***************************************************************************)
(* What workspace.Index answers (index.go): which definition a reference   *)
(* means, which references mean a definition, what is wrong with a         *)
(* document, and which names may complete a reference.  The state and its  *)
(* changes are those of WorkspaceIndex; the answers are read off the       *)
(* documents and off the two tables.                                       *)
(*                                                                         *)
(* The parser is outside: Analysis gives the definitions and references it *)
(* finds in each text, Contexts what completion knows about the cursors in *)
(* it.  A node of the text (a definition, a reference, or an event, which  *)
(* has a scope but no name) is identified by the offset at which it starts; *)
(* scopes are sequences of nodes, outermost first.  No two references or   *)
(* defined names overlap in a text.  A reference whose name is missing from *)
(* the text means nothing and is left out.                                 *)
(***************************************************************************)
EXTENDS WorkspaceIndex, Sequences, SequencesExt, FiniteSets, FiniteSetsExt

CONSTANTS
  Ident, Fold,     (* identifiers; Fold[n] = Fold[m]: equal up to case    *)
  Target, NoTarget,(* file names in references                            *)
  Absolute,        (* those that are absolute paths                       *)
  Bare,            (* those that have no directory                        *)
  ComTarget,       (* those that end in .com                              *)
  PathNamed,       (* [Absolute -> Path]                                  *)
  PathFrom,        (* [Path -> [Target -> Path]]: seen from a document    *)
  NameNamed,       (* [Bare -> Name]                                      *)
  Analysis,        (* [Text -> what the parser finds in it]               *)
  Contexts,        (* [Text -> SUBSET Context]: where a cursor may be      *)
  NoOwner

EntityKind == {"dialog", "softkey", "array", "block", "grid"}
DefinitionKind == EntityKind \cup {"variable", "subprogram", "output"}

Definition ==
  [name : Ident, kind : DefinitionKind, scope : Seq(Nat), version : Nat, at : Nat]

Reference ==
  [name : Ident, kind : DefinitionKind \cup {"arrayOrGrid"}, scope : Seq(Nat),
   file : Target \cup {NoTarget}, at : Nat]

ASSUME TargetAssumption ==
  /\ Fold \in [Ident -> Ident]
  /\ Absolute \subseteq Target /\ Bare \subseteq Target /\ ComTarget \subseteq Target
  /\ Absolute \cap Bare = {} /\ NoTarget \notin Target
  /\ PathNamed \in [Absolute -> Path] /\ PathFrom \in [Path -> [Target -> Path]]
  /\ NameNamed \in [Bare -> Name]

(* A cursor: the scopes around it, and the entity that the lines before it   *)
(* leave open; if that is one of the scopes, where it ends.                 *)
Context == [scope : Seq(Nat), owner : Nat \cup {NoOwner}, end : Nat]

(* A file is named only where an entity other than a grid is used.  In a     *)
(* text the parser is happy with, every member has an owner; in others a    *)
(* member may have none, and an entity may have one.                        *)
ASSUME AnalysisAssumption ==
  \A t \in Text :
    /\ Analysis[t].complete \in BOOLEAN
    /\ Analysis[t].definitions \subseteq Definition
    /\ Analysis[t].references \subseteq Reference
    /\ \A r \in Analysis[t].references :
         r.file # NoTarget => r.kind \in EntityKind \ {"grid"}
    /\ \A x, y \in Analysis[t].definitions \cup Analysis[t].references :
         x.at = y.at => x = y
    /\ Analysis[t].complete =>
         /\ \A d \in Analysis[t].definitions : d.kind \in EntityKind <=> d.scope = <<>>
         /\ \A r \in Analysis[t].references : r.scope # <<>>

(* In a text the parser is happy with, what the lines leave open is the      *)
(* outermost of the scopes.                                                 *)
ASSUME ContextAssumption ==
  /\ NoOwner \notin Nat
  /\ \A t \in Text : \A c \in Contexts[t] :
       /\ c \in Context
       /\ Analysis[t].complete /\ c.owner # NoOwner =>
            c.scope # <<>> /\ Head(c.scope) = c.owner
-----------------------------------------------------------------------------
Indexed == Held(disk) \cup Held(overlays)
Definitions(u) == Analysis[Document(u)].definitions
References(u) == Analysis[Document(u)].references
Complete(u) == Analysis[Document(u)].complete

Location == [uri : Uri, at : Nat]
Locations(u, nodes) == {[uri |-> u, at |-> n.at] : n \in nodes}
TheOnly(S) == {x \in S : S = {x}}

Matches(r, d) ==
  /\ Fold[r.name] = Fold[d.name]
  /\ IF r.kind = "arrayOrGrid" THEN d.kind \in {"array", "grid"} ELSE d.kind = r.kind

VisibleFrom(scope, d) ==
  d.kind = "variable" => d.scope # <<>> /\ IsPrefix(d.scope, scope)

CommonDepth(left, right) ==
  Max({k \in 0..Len(left) : k <= Len(right) /\ \A j \in 1..k : left[j] = right[j]})

SameOwner(left, right) == left # <<>> /\ right # <<>> /\ Head(left) = Head(right)

(* resolveScoped: the matching definitions that share the longest part of   *)
(* the scope.  An indexed name is a variable if any is visible.             *)
Deepest(u, r) ==
  LET visible == {d \in Definitions(u) : Matches(r, d) /\ VisibleFrom(r.scope, d)}
  IN  {d \in visible : \A e \in visible :
         CommonDepth(r.scope, e.scope) <= CommonDepth(r.scope, d.scope)}

Scoped(u, r) ==
  LET variables == Deepest(u, [r EXCEPT !.kind = "variable"]) IN
  IF r.kind = "arrayOrGrid" /\ variables # {} THEN variables ELSE Deepest(u, r)

(* targetFileURIsLocked: the file beside the document, or else, for a bare  *)
(* name, the files of that name wherever they are.                          *)
TargetUris(u, f) ==
  LET found == IF f \in Absolute THEN paths[PathNamed[f]]
               ELSE IF u \in FileUri THEN paths[PathFrom[PathOf[u]][f]] ELSE {}
  IN  IF found = {} /\ f \in Bare THEN filenames[NameNamed[f]] ELSE found

AnyFile(u, r) ==   \* Mutant
  LET uris == TargetUris(u, r.file) IN
  IF uris = {} THEN {}
  ELSE LET m == CHOOSE m \in uris : TRUE IN
       Locations(m, {d \in Definitions(m) : Matches(r, d)})

(* resolveInDocumentsLocked, for the one file the name stands for. *)
InTargetFile(u, r) ==
  UNION {Locations(m, {d \in Definitions(m) : Matches(r, d)}) :
           m \in TheOnly(TargetUris(u, r.file))}

Loads(u, scope) ==
  {load \in References(u) :
     load.kind = "block" /\ load.file # NoTarget /\ SameOwner(load.scope, scope)}

InBlocksOfScope(u, call) ==   \* Mutant
  UNION {Locations(b.uri, {d \in Definitions(b.uri) :
                             Matches(call, d) /\ Contains(d.scope, b.at)}) :
           b \in UNION {TheOnly(InTargetFile(u, load)) :
                          load \in {l \in Loads(u, call.scope) : l.scope = call.scope}}}

(* resolveInLoadedBlocksLocked: through the blocks that the entity around   *)
(* the call loads.                                                          *)
InLoadedBlocks(u, call) ==
  UNION {Locations(b.uri, {d \in Definitions(b.uri) :
                             Matches(call, d) /\ Contains(d.scope, b.at)}) :
           b \in UNION {TheOnly(InTargetFile(u, load)) : load \in Loads(u, call.scope)}}

(* resolveLocked: what a reference may mean; it resolves to the one thing.  *)
Candidates(u, r) ==
  LET scoped == Locations(u, Scoped(u, r)) IN
  IF r.file # NoTarget THEN InTargetFile(u, r)
  ELSE IF scoped = {} /\ r.kind \in {"subprogram", "output"} THEN InLoadedBlocks(u, r)
  ELSE scoped

Resolved(u, r) == TheOnly(Candidates(u, r))
-----------------------------------------------------------------------------
(* targetAtLocked and references: what stands at an offset, and everything  *)
(* that means it.                                                           *)
TargetAt(u, at) ==
  Locations(u, {d \in Definitions(u) : d.at = at})
    \cup UNION {Resolved(u, r) : r \in {s \in References(u) : s.at = at}}

SavedReferencesTo(l) ==   \* Mutant
  UNION {Locations(u, {r \in References(u) : Resolved(u, r) = {l}}) : u \in Held(disk)}

ReferencesTo(l) ==
  UNION {Locations(u, {r \in References(u) : Resolved(u, r) = {l}}) : u \in Indexed}

ReferencesAt(u, at) == UNION {ReferencesTo(l) : l \in TargetAt(u, at)}

(* semanticDiagnostics. *)
IsDuplicate(u, d) ==
  /\ d.kind = "variable" /\ d.scope # <<>>
  /\ \E e \in Definitions(u) :
       /\ e.at < d.at /\ e.kind = "variable"
       /\ e.name = d.name /\ e.version = d.version /\ e.scope = d.scope

HasInvisibleLocal(u, r) ==
  \E d \in Definitions(u) :
    /\ d.kind = "variable" /\ d.name = r.name
    /\ SameOwner(d.scope, r.scope) /\ ~VisibleFrom(r.scope, d)

SeemsToLack(m, r) ==   \* Mutant
  \A d \in Definitions(m) : ~Matches(r, d)

Lacks(m, r) == Complete(m) /\ \A d \in Definitions(m) : ~Matches(r, d)

ReferenceDiagnostic(u, r) ==
  LET uris == TargetUris(u, r.file) IN
  IF r.kind = "variable"
  THEN IF Scoped(u, r) = {} /\ HasInvisibleLocal(u, r)
       THEN "undefined-local-variable" ELSE "none"
  ELSE IF r.file \notin ComTarget THEN "none"
  ELSE IF uris = {} THEN "missing-target-file"
  ELSE IF \E m \in Uri : uris = {m} /\ Lacks(m, r)
  THEN "missing-target-entity" ELSE "none"

(* A text the parser is not happy with gets no semantic diagnostics. *)
Diagnostics(u) ==
  IF ~Complete(u) THEN {}
  ELSE {[at |-> d.at, code |-> "duplicate-def"] :
          d \in {e \in Definitions(u) : IsDuplicate(u, e)}}
       \cup {[at |-> r.at, code |-> ReferenceDiagnostic(u, r)] :
               r \in {s \in References(u) : ReferenceDiagnostic(u, s) # "none"}}

(* completionSameOwner: is a node of the entity around the cursor?  In a     *)
(* malformed text the entity may be known from the lines alone, and the node *)
(* only by its position.                                                    *)
InOwner(c, scope, at) ==
  \/ SameOwner(scope, c.scope)
  \/ /\ c.owner # NoOwner /\ scope # <<>>
     /\ Head(scope) = c.owner
  \/ /\ c.owner # NoOwner /\ scope = <<>>
     /\ at >= c.owner
     /\ Contains(c.scope, c.owner) => at < c.end

AnyInOwner(c, d) == InOwner(c, d.scope, d.at)   \* Mutant

CompletionVisible(c, d) ==
  VisibleFrom(c.scope, d) \/ (d.scope = <<>> /\ InOwner(c, d.scope, d.at))

(* CompletionsAtRevision: of the variables of one name, the deepest. *)
OfferedVariables(u, c) ==
  LET visible == {d \in Definitions(u) : d.kind = "variable" /\ CompletionVisible(c, d)}
  IN  {d \in visible : \A e \in visible : Fold[e.name] = Fold[d.name] =>
         CommonDepth(c.scope, e.scope) <= CommonDepth(c.scope, d.scope)}

CallKind == {"subprogram", "output"}

OfferedHere(u, kind, c) ==
  IF kind = "variable" THEN OfferedVariables(u, c)
  ELSE {d \in Definitions(u) : d.kind = kind /\ (kind \in CallKind => InOwner(c, d.scope, d.at))}

(* An item for each definition a name may stand for; of equal names the code *)
(* shows one.                                                               *)
Items(u, nodes) == {[name |-> d.name, uri |-> u, at |-> d.at] : d \in nodes}
Named(items, n) == {i \in items : Fold[i.name] = Fold[n]}
Places(items) == {[uri |-> i.uri, at |-> i.at] : i \in items}

LoadsAround(u, c) ==
  {load \in References(u) :
     load.kind = "block" /\ load.file # NoTarget /\ InOwner(c, load.scope, load.at)}

OfferedLoaded(u, kind, c) ==
  UNION {Items(b.uri, {d \in Definitions(b.uri) : d.kind = kind /\ Contains(d.scope, b.at)}) :
           b \in UNION {Resolved(u, load) : load \in LoadsAround(u, c)}}

(* addTargetCompletions: a name the entity has hides that of a loaded block. *)
Offered(u, kind, c) ==
  LET here == Items(u, OfferedHere(u, kind, c))
      loaded == OfferedLoaded(u, kind, c)
  IN  CASE kind \in CallKind -> here \cup {i \in loaded : Named(here, i.name) = {}}
        [] kind \in {"variable", "grid"} -> here
        [] OTHER -> UNION {Items(v, {d \in Definitions(v) : d.kind = kind}) : v \in Indexed}

(* The reference an accepted item becomes. *)
Accepted(n, kind, c) ==
  [name |-> n, kind |-> kind, scope |-> c.scope, file |-> NoTarget, at |-> 0]
-----------------------------------------------------------------------------
(* The files a name may mean, judged by the documents instead of the        *)
(* tables.                                                                  *)
FilesAt(k) == {v \in Indexed \cap FileUri : PathOf[v] = k}

Meant(u, f) ==
  LET found == IF f \in Absolute THEN FilesAt(PathNamed[f])
               ELSE IF u \in FileUri THEN FilesAt(PathFrom[PathOf[u]][f]) ELSE {}
  IN  IF found = {} /\ f \in Bare
      THEN {v \in Indexed \cap FileUri : NameOf[PathOf[v]] = NameNamed[f]}
      ELSE found

(* A reference is called wrong only if it is: nothing it could mean is      *)
(* visible, no file of the name exists, or the files of that name are all   *)
(* understood by the parser and none has the entity.                        *)
DiagnosedAreDangling ==
  \A u \in Indexed : \A r \in References(u) :
    (\E d \in Diagnostics(u) : d.at = r.at) =>
      /\ Candidates(u, r) = {}
      /\ r.file # NoTarget => \A m \in Meant(u, r.file) :
           Complete(m) /\ \A d \in Definitions(m) : ~Matches(r, d)

(* A reference into another file resolves only if one file is meant and one *)
(* definition in it: the index never guesses.                               *)
FileTargetsAreUnambiguous ==
  \A u \in Indexed : \A r \in References(u) :
    r.file # NoTarget => \A l \in Resolved(u, r) :
      /\ Meant(u, r.file) = {l.uri}
      /\ \A d \in Definitions(l.uri) : Matches(r, d) => d.at = l.at

(* Find-references is an equivalence: every reference that resolves is      *)
(* among its own, and asking at any of them, or at the definition, lists    *)
(* the same ones.                                                           *)
ReferencesPartition ==
  LET places == UNION {Locations(u, Definitions(u) \cup References(u)) : u \in Indexed}
      listed == {<<l, ReferencesAt(l.uri, l.at)>> : l \in places}
  IN  /\ \A u \in Indexed : \A r \in References(u) :
           Resolved(u, r) # {} => [uri |-> u, at |-> r.at] \in ReferencesAt(u, r.at)
      /\ \A entry \in listed :
           \A k \in entry[2] \cup TargetAt(entry[1].uri, entry[1].at) :
             <<k, entry[2]>> \in listed

(* Completion offers what resolution finds.  In a text that is complete, a   *)
(* variable, call or grid means one of the definitions it is offered for,   *)
(* and so the only one if there is one, unless it is offered for a loaded   *)
(* block and the file has the name elsewhere.  In a malformed text it means  *)
(* something, unless the entity around the cursor has it by position alone: *)
(* a variable without a scope, or a name of a block it loads there.         *)
AcceptedCompletionsResolve ==
  \A u \in Indexed : \A c \in Contexts[Document(u)] :
    \A kind \in CallKind \cup {"variable", "grid"} :
      LET offered == Offered(u, kind, c) IN
      \A i \in offered :
        LET q == Accepted(i.name, kind, c)
            here == {d \in OfferedHere(u, kind, c) : Matches(q, d)}
            shown == Places(Named(offered, i.name))
            meant == Candidates(u, q)
        IN
          /\ Complete(u) =>
               /\ meant # {}
               /\ \/ meant \subseteq shown
                  \/ here = {} /\ meant = Locations(u, {d \in Definitions(u) : Matches(q, d)})
          /\ kind = "variable" => meant \subseteq shown
          /\ (\E d \in here : kind = "variable" => d.scope # <<>>) => meant # {}

Contents == [f \in AllFiles |-> Files!TextOf(f)]

(* What a reference means, what is listed at a place, what is reported and   *)
(* what is offered at a cursor.                                             *)
Meanings(u) == {<<r.at, Candidates(u, r)>> : r \in References(u)}

Lists(u) ==
  {<<n.at, TargetAt(u, n.at), ReferencesAt(u, n.at)>> : n \in Definitions(u) \cup References(u)}

Offers(u) ==
  {<<c, kind, Offered(u, kind, c)>> : c \in Contexts[Document(u)], kind \in DefinitionKind}

Answers == {<<u, Meanings(u), Lists(u), Diagnostics(u), Offers(u)>> : u \in Indexed}

(* Answers depend on what the files say and on nothing else: opening a file *)
(* under another spelling, or closing it saved, changes none of them.  (All *)
(* that leaves the revision is a failed closing, which leaves everything.)  *)
SameContentsSameAnswers ==
  [][revision' # revision /\ Contents' = Contents => Answers' = Answers]_vars
=============================================================================
