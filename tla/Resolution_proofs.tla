-------------------------- MODULE Resolution_proofs --------------------------
(***************************************************************************)
(* Proofs about Resolution, for any texts, files, spellings and changes.   *)
(* The answers are read off the documents and off two tables; they can be  *)
(* trusted because the tables are those of the documents                   *)
(* (WorkspaceIndex_proofs).                                                *)
(***************************************************************************)
EXTENDS Resolution, WorkspaceIndex_proofs, SequenceTheorems, WellFoundedInduction

Trusted == IndexInv /\ OneDocumentPerPath

LEMMA TrustedAlways ==
  ASSUME NoCaseCollisions
  PROVE  Spec => []Trusted
BY OneDocumentInvariant, PTL DEF Trusted
-----------------------------------------------------------------------------
(* A set with one element. *)

LEMMA OnlyOne ==
  ASSUME NEW S
  PROVE  \/ TheOnly(S) = {} /\ ~\E x : S = {x}
         \/ \E x : S = {x} /\ TheOnly(S) = {x}
BY DEF TheOnly

LEMMA OnlyMember ==
  ASSUME NEW S, NEW x \in TheOnly(S)
  PROVE  S = {x} /\ TheOnly(S) = {x}
BY DEF TheOnly

(* What the parser found in a document of the index. *)
LEMMA AnalysisOf ==
  ASSUME Trusted, NEW u \in Indexed
  PROVE  /\ u \in Uri /\ Document(u) \in Text
         /\ \A d \in Definitions(u) : d \in Definition
         /\ \A r \in References(u) :
              /\ r \in Reference
              /\ r.file # NoTarget => r.kind \in EntityKind \ {"grid"}
         /\ \A x, y \in Definitions(u) \cup References(u) : x.at = y.at => x = y
         /\ Complete(u) => \A d \in Definitions(u) : d.kind \in EntityKind <=> d.scope = <<>>
<1>1. u \in Uri /\ Document(u) \in Text
  BY DEF Trusted, IndexInv, TypeOK, Indexed, Held, Document, Documents
<1> QED BY <1>1, AnalysisAssumption DEF Definitions, References, Complete

LEMMA NoDefinitionIsReference ==
  ASSUME NEW d \in Definition, NEW r \in Reference
  PROVE  d # r
<1>1. "version" \in DOMAIN d
  BY DEF Definition
<1>2. "version" \notin DOMAIN r
  BY DEF Reference
<1> QED BY <1>1, <1>2
-----------------------------------------------------------------------------
(* The files a name means are those the tables give. *)

LEMMA TablesGiveFiles ==
  ASSUME Trusted
  PROVE  /\ \A k \in Path : paths[k] = FilesAt(k)
         /\ \A n \in Name : filenames[n] = {v \in Indexed \cap FileUri : NameOf[PathOf[v]] = n}
<1>1. Reachable(disk, overlays) = Indexed \cap FileUri
  BY DEF Trusted, OneDocumentPerPath, Reachable, Indexed
<1> QED BY <1>1 DEF Trusted, IndexInv, TablesAreCurrent, PathTable, NameTable, FilesAt

LEMMA TargetsAreMeant ==
  ASSUME Trusted, NEW u \in Indexed, NEW f \in Target
  PROVE  /\ TargetUris(u, f) = Meant(u, f)
         /\ TargetUris(u, f) \subseteq Indexed
<1>1. u \in Uri
  BY AnalysisOf
<1>2. CASE f \in Absolute
  BY <1>2, TargetAssumption, TablesGiveFiles DEF TargetUris, Meant, FilesAt
<1>3. CASE f \notin Absolute
  <2>1. u \in FileUri => PathFrom[PathOf[u]][f] \in Path
    BY PathAssumption, TargetAssumption
  <2>2. f \in Bare => NameNamed[f] \in Name
    BY TargetAssumption
  <2> QED BY <1>3, <2>1, <2>2, TablesGiveFiles DEF TargetUris, Meant, FilesAt
<1> QED BY <1>2, <1>3

(* A definition found in the file a reference names is of the one file that *)
(* is meant.                                                                *)
LEMMA FoundInTarget ==
  ASSUME NEW u, NEW r, NEW l \in InTargetFile(u, r)
  PROVE  \E m \in TargetUris(u, r.file) :
           /\ TargetUris(u, r.file) = {m} /\ l.uri = m
           /\ InTargetFile(u, r) = Locations(m, {d \in Definitions(m) : Matches(r, d)})
<1>1. PICK m \in TheOnly(TargetUris(u, r.file)) :
        l \in Locations(m, {d \in Definitions(m) : Matches(r, d)})
  BY DEF InTargetFile
<1>2. TargetUris(u, r.file) = {m} /\ TheOnly(TargetUris(u, r.file)) = {m}
  BY OnlyMember
<1>3. InTargetFile(u, r) = Locations(m, {d \in Definitions(m) : Matches(r, d)})
  BY <1>2 DEF InTargetFile
<1> QED BY <1>1, <1>2, <1>3 DEF Locations

(* The index never guesses. *)
LEMMA ResolvedInTarget ==
  ASSUME Trusted, NEW u \in Indexed, NEW r \in References(u), r.file # NoTarget,
         NEW l \in Resolved(u, r)
  PROVE  /\ Meant(u, r.file) = {l.uri}
         /\ \A d \in Definitions(l.uri) : Matches(r, d) => d.at = l.at
<1>1. r.file \in Target
  BY AnalysisOf DEF Reference
<1>2. InTargetFile(u, r) = {l}
  BY OnlyMember DEF Resolved, Candidates
<1>3. PICK m \in TargetUris(u, r.file) :
        /\ TargetUris(u, r.file) = {m} /\ l.uri = m
        /\ {l} = Locations(m, {d \in Definitions(m) : Matches(r, d)})
  BY <1>2, FoundInTarget
<1>4. ASSUME NEW d \in Definitions(m), Matches(r, d)
      PROVE  d.at = l.at
  <2>1. [uri |-> m, at |-> d.at] \in {l}
    BY <1>3, <1>4 DEF Locations
  <2> QED BY <2>1
<1> QED BY <1>1, <1>3, <1>4, TargetsAreMeant

(* A reference into another file resolves only if the name stands for one   *)
(* file and one definition in it: for any workspace without files whose     *)
(* names differ in case only.                                               *)
THEOREM TargetsAreUnambiguous ==
  ASSUME NoCaseCollisions
  PROVE  Spec => []FileTargetsAreUnambiguous
<1>1. Trusted => FileTargetsAreUnambiguous
  BY ResolvedInTarget DEF FileTargetsAreUnambiguous
<1> QED BY <1>1, TrustedAlways, PTL
-----------------------------------------------------------------------------
(* Diagnostics are right. *)

LEMMA DiagnosisAtReference ==
  ASSUME Trusted, NEW u \in Indexed, NEW r \in References(u),
         NEW d \in Diagnostics(u), d.at = r.at
  PROVE  ReferenceDiagnostic(u, r) # "none"
<1>1. \/ \E e \in Definitions(u) : d.at = e.at
      \/ \E s \in References(u) : d.at = s.at /\ ReferenceDiagnostic(u, s) # "none"
  BY DEF Diagnostics
<1>2. ASSUME NEW e \in Definitions(u), e.at = r.at PROVE FALSE
  BY <1>2, AnalysisOf, NoDefinitionIsReference
<1> QED BY <1>1, <1>2, AnalysisOf

LEMMA DanglingVariable ==
  ASSUME Trusted, NEW u \in Indexed, NEW r \in References(u),
         r.kind = "variable", ReferenceDiagnostic(u, r) # "none"
  PROVE  Candidates(u, r) = {} /\ r.file = NoTarget
<1>1. r.file = NoTarget /\ Scoped(u, r) = {}
  BY AnalysisOf DEF ReferenceDiagnostic, EntityKind
<1> QED BY <1>1 DEF Candidates, Locations

LEMMA DanglingTarget ==
  ASSUME Trusted, NEW u \in Indexed, NEW r \in References(u),
         r.kind # "variable", ReferenceDiagnostic(u, r) # "none"
  PROVE  /\ Candidates(u, r) = {}
         /\ \A m \in Meant(u, r.file) :
              Complete(m) /\ \A d \in Definitions(m) : ~Matches(r, d)
<1>1. r.file \in Target /\ r.file # NoTarget
  BY TargetAssumption, AnalysisOf DEF ReferenceDiagnostic, Reference
<1>2. TargetUris(u, r.file) = Meant(u, r.file)
  BY <1>1, TargetsAreMeant
<1>3. \/ TargetUris(u, r.file) = {}
      \/ \E m \in Uri : TargetUris(u, r.file) = {m} /\ Lacks(m, r)
  BY DEF ReferenceDiagnostic
<1>4. \A m \in TargetUris(u, r.file) : Lacks(m, r)
  BY <1>3
<1>5. ASSUME NEW l \in InTargetFile(u, r) PROVE FALSE
  <2>1. PICK m \in TargetUris(u, r.file) :
          InTargetFile(u, r) = Locations(m, {d \in Definitions(m) : Matches(r, d)})
    BY FoundInTarget
  <2>2. {d \in Definitions(m) : Matches(r, d)} = {}
    BY <1>4 DEF Lacks
  <2> QED BY <1>5, <2>1, <2>2 DEF Locations
<1> QED BY <1>1, <1>2, <1>4, <1>5 DEF Candidates, Lacks

(* The index calls a reference wrong only if nothing it could mean is       *)
(* there, or no file of the name exists, or the files that it may mean are  *)
(* understood and lack the entity.                                          *)
THEOREM DiagnosticsAreRight ==
  ASSUME NoCaseCollisions
  PROVE  Spec => []DiagnosedAreDangling
<1>1. Trusted => DiagnosedAreDangling
  <2> SUFFICES ASSUME Trusted, NEW u \in Indexed, NEW r \in References(u),
                      NEW d \in Diagnostics(u), d.at = r.at
               PROVE  /\ Candidates(u, r) = {}
                      /\ r.file # NoTarget => \A m \in Meant(u, r.file) :
                           Complete(m) /\ \A e \in Definitions(m) : ~Matches(r, e)
    BY DEF DiagnosedAreDangling
  <2>1. ReferenceDiagnostic(u, r) # "none"
    BY DiagnosisAtReference
  <2> QED BY <2>1, DanglingVariable, DanglingTarget
<1> QED BY <1>1, TrustedAlways, PTL
-----------------------------------------------------------------------------
(* Find-references is an equivalence: what stands at a place means itself   *)
(* or the one definition it resolves to, and a definition is listed with    *)
(* all that resolves to it.                                                 *)

IsDefinition(l) == \E u \in Indexed : \E d \in Definitions(u) : l = [uri |-> u, at |-> d.at]
IsReference(l) == \E u \in Indexed : \E r \in References(u) : l = [uri |-> u, at |-> r.at]

(* Whatever a reference may mean is a definition in the index. *)
LEMMA ScopedAreDefinitions ==
  ASSUME NEW u, NEW r
  PROVE  Scoped(u, r) \subseteq Definitions(u)
BY DEF Scoped, Deepest

LEMMA TargetsAreDefinitions ==
  ASSUME Trusted, NEW u \in Indexed, NEW r, r.file \in Target,
         NEW l \in InTargetFile(u, r)
  PROVE  IsDefinition(l) /\ l.uri \in Indexed
<1>1. PICK m \in TargetUris(u, r.file) :
        InTargetFile(u, r) = Locations(m, {d \in Definitions(m) : Matches(r, d)})
  BY FoundInTarget
<1>2. m \in Indexed
  BY TargetsAreMeant
<1>3. PICK d \in Definitions(m) : l = [uri |-> m, at |-> d.at]
  BY <1>1 DEF Locations
<1> QED BY <1>2, <1>3 DEF IsDefinition

LEMMA BlocksGiveDefinitions ==
  ASSUME Trusted, NEW u \in Indexed, NEW r \in References(u), NEW l \in InLoadedBlocks(u, r)
  PROVE  IsDefinition(l)
<1>0. PICK load \in Loads(u, r.scope) : \E b \in TheOnly(InTargetFile(u, load)) :
        l \in Locations(b.uri, {d \in Definitions(b.uri) : Matches(r, d) /\ Contains(d.scope, b.at)})
  BY DEF InLoadedBlocks
<1>1. PICK b \in TheOnly(InTargetFile(u, load)) :
        l \in Locations(b.uri, {d \in Definitions(b.uri) : Matches(r, d) /\ Contains(d.scope, b.at)})
  BY <1>0
<1>2. load.file \in Target
  BY AnalysisOf DEF Loads, Reference
<1>3. b.uri \in Indexed
  BY <1>2, OnlyMember, TargetsAreDefinitions
<1>4. PICK d \in Definitions(b.uri) : l = [uri |-> b.uri, at |-> d.at]
  BY <1>1 DEF Locations
<1> QED BY <1>3, <1>4 DEF IsDefinition

LEMMA ResolvedIsDefinition ==
  ASSUME Trusted, NEW u \in Indexed, NEW r \in References(u), NEW l \in Resolved(u, r)
  PROVE  IsDefinition(l)
<1>1. l \in Candidates(u, r)
  BY DEF Resolved, TheOnly
<1>2. CASE r.file # NoTarget
  <2>1. r.file \in Target
    BY <1>2, AnalysisOf DEF Reference
  <2> QED BY <1>1, <1>2, <2>1, TargetsAreDefinitions DEF Candidates
<1>3. CASE r.file = NoTarget /\ l \in InLoadedBlocks(u, r)
  BY <1>3, BlocksGiveDefinitions
<1>4. CASE l \in Locations(u, Scoped(u, r))
  BY <1>4, ScopedAreDefinitions DEF Locations, IsDefinition
<1> QED BY <1>1, <1>2, <1>3, <1>4 DEF Candidates

(* No place is both, and no place is two of a kind. *)
LEMMA PlacesDiffer ==
  ASSUME Trusted, NEW u \in Indexed
  PROVE  /\ \A d \in Definitions(u), r \in References(u) : d.at # r.at
         /\ \A r, s \in References(u) : r.at = s.at => r = s
BY AnalysisOf, NoDefinitionIsReference

(* What stands at a definition is the definition; at a reference, what it   *)
(* resolves to, if anything.                                                *)
LEMMA AtDefinition ==
  ASSUME Trusted, NEW u \in Indexed, NEW d \in Definitions(u)
  PROVE  TargetAt(u, d.at) = {[uri |-> u, at |-> d.at]}
<1>1. {s \in References(u) : s.at = d.at} = {}
  BY PlacesDiffer
<1>2. Locations(u, {e \in Definitions(u) : e.at = d.at}) = {[uri |-> u, at |-> d.at]}
  BY DEF Locations
<1> QED BY <1>1, <1>2 DEF TargetAt

LEMMA AtReference ==
  ASSUME Trusted, NEW u \in Indexed, NEW r \in References(u)
  PROVE  TargetAt(u, r.at) = Resolved(u, r)
<1>1. {s \in References(u) : s.at = r.at} = {r}
  BY PlacesDiffer
<1>2. {d \in Definitions(u) : d.at = r.at} = {}
  BY PlacesDiffer
<1> QED BY <1>1, <1>2 DEF TargetAt, Locations

LEMMA ListedAtDefinition ==
  ASSUME Trusted, NEW l, IsDefinition(l)
  PROVE  TargetAt(l.uri, l.at) = {l} /\ ReferencesAt(l.uri, l.at) = ReferencesTo(l)
<1>0. PICK u \in Indexed : \E d \in Definitions(u) : l = [uri |-> u, at |-> d.at]
  BY DEF IsDefinition
<1>1. PICK d \in Definitions(u) : l = [uri |-> u, at |-> d.at]
  BY <1>0
<1>2. TargetAt(l.uri, l.at) = {l}
  BY <1>1, AtDefinition
<1> QED BY <1>2 DEF ReferencesAt

LEMMA ListedAtReference ==
  ASSUME Trusted, NEW u \in Indexed, NEW r \in References(u), NEW l \in Resolved(u, r)
  PROVE  /\ TargetAt(u, r.at) = {l}
         /\ ReferencesAt(u, r.at) = ReferencesTo(l)
         /\ [uri |-> u, at |-> r.at] \in ReferencesTo(l)
<1>1. Resolved(u, r) = {l}
  BY OnlyMember DEF Resolved
<1>2. TargetAt(u, r.at) = {l}
  BY <1>1, AtReference
<1>3. ReferencesAt(u, r.at) = ReferencesTo(l)
  BY <1>2 DEF ReferencesAt
<1>4. [uri |-> u, at |-> r.at] \in ReferencesTo(l)
  BY <1>1 DEF ReferencesTo, Locations
<1> QED BY <1>2, <1>3, <1>4

LEMMA ListedResolves ==
  ASSUME Trusted, NEW l, NEW k \in ReferencesTo(l)
  PROVE  IsReference(k) /\ ReferencesAt(k.uri, k.at) = ReferencesTo(l)
<1>0. PICK u \in Indexed : \E r \in References(u) :
        Resolved(u, r) = {l} /\ k = [uri |-> u, at |-> r.at]
  BY DEF ReferencesTo, Locations
<1>1. PICK r \in References(u) : Resolved(u, r) = {l} /\ k = [uri |-> u, at |-> r.at]
  BY <1>0
<1>2. ReferencesAt(u, r.at) = ReferencesTo(l)
  BY <1>1, ListedAtReference
<1> QED BY <1>1, <1>2 DEF IsReference

(* From any place, what is listed there lists the same. *)
LEMMA PlacesAgree ==
  ASSUME Trusted, NEW l, IsDefinition(l) \/ IsReference(l),
         NEW k \in ReferencesAt(l.uri, l.at) \cup TargetAt(l.uri, l.at)
  PROVE  /\ IsDefinition(k) \/ IsReference(k)
         /\ ReferencesAt(k.uri, k.at) = ReferencesAt(l.uri, l.at)
<1>1. CASE IsDefinition(l)
  BY <1>1, ListedAtDefinition, ListedResolves
<1>2. CASE IsReference(l)
  <2>0. PICK u \in Indexed : \E r \in References(u) : l = [uri |-> u, at |-> r.at]
    BY <1>2 DEF IsReference
  <2>1. PICK r \in References(u) : l = [uri |-> u, at |-> r.at]
    BY <2>0
  <2>2. CASE Resolved(u, r) = {}
    BY <2>1, <2>2, AtReference DEF ReferencesAt
  <2>3. ASSUME NEW d \in Resolved(u, r)
        PROVE  /\ IsDefinition(k) \/ IsReference(k)
               /\ ReferencesAt(k.uri, k.at) = ReferencesAt(l.uri, l.at)
    <3>1. /\ TargetAt(l.uri, l.at) = {d}
          /\ ReferencesAt(l.uri, l.at) = ReferencesTo(d)
      BY <2>1, ListedAtReference
    <3>2. IsDefinition(d) /\ ReferencesAt(d.uri, d.at) = ReferencesTo(d)
      BY ResolvedIsDefinition, ListedAtDefinition
    <3> QED BY <3>1, <3>2, ListedResolves
  <2> QED BY <2>2, <2>3
<1> QED BY <1>1, <1>2

(* Asking for references at a reference, at another one of the same thing   *)
(* or at its definition gives the same list, which has the reference in it. *)
THEOREM ReferencesAreAPartition ==
  ASSUME NoCaseCollisions
  PROVE  Spec => []ReferencesPartition
<1>1. Trusted => ReferencesPartition
  <2> SUFFICES ASSUME Trusted PROVE ReferencesPartition
    OBVIOUS
  <2> DEFINE places == UNION {Locations(u, Definitions(u) \cup References(u)) : u \in Indexed}
             listed == {<<l, ReferencesAt(l.uri, l.at)>> : l \in places}
  <2>1. \A l : l \in places <=> IsDefinition(l) \/ IsReference(l)
    BY DEF Locations, IsDefinition, IsReference
  <2>2. ASSUME NEW u \in Indexed, NEW r \in References(u), Resolved(u, r) # {}
        PROVE  [uri |-> u, at |-> r.at] \in ReferencesAt(u, r.at)
    BY <2>2, ListedAtReference
  <2>3. ASSUME NEW entry \in listed,
               NEW k \in entry[2] \cup TargetAt(entry[1].uri, entry[1].at)
        PROVE  <<k, entry[2]>> \in listed
    <3>1. PICK l \in places : entry = <<l, ReferencesAt(l.uri, l.at)>>
      OBVIOUS
    <3>2. k \in places /\ ReferencesAt(k.uri, k.at) = ReferencesAt(l.uri, l.at)
      BY <2>1, <3>1, PlacesAgree
    <3> QED BY <3>1, <3>2
  <2> HIDE DEF places
  <2> QED BY <2>2, <2>3 DEF ReferencesPartition, places
<1> QED BY <1>1, TrustedAlways, PTL
-----------------------------------------------------------------------------
(* Completion offers what resolves.  Of what is visible, something has the  *)
(* longest scope in common with the reference.                              *)

LEMMA BoundedSetsHaveMaxima ==
  ASSUME NEW n \in Nat, NEW T \in SUBSET (0..n), T # {}
  PROVE  \E x \in T : \A y \in T : y <= x
<1> DEFINE less == OpToRel(<, Nat)
<1> DEFINE Below == {n - x : x \in T}
<1>1. Below \in SUBSET Nat /\ Below # {}
  <2> HIDE DEF less
  <2>1. \A x \in T : n - x \in Nat
    OBVIOUS
  <2>2. PICK x \in T : TRUE
    OBVIOUS
  <2>3. n - x \in Below
    BY <2>2
  <2> QED BY <2>1, <2>3
<1>2. \A y, z \in Nat : y < z => <<y, z>> \in less
  BY DEF OpToRel
<1>3. IsWellFoundedOn(less, Nat)
  BY NatLessThanWellFounded
<1> HIDE DEF less
<1>4. PICK z \in Below : \A y \in Below : <<y, z>> \notin less
  BY <1>1, <1>3, WFMin
<1>5. ASSUME NEW y \in Below PROVE y >= z
  <2>1. y \in Nat /\ z \in Nat
    BY <1>1, <1>4
  <2>2. ~(y < z)
    BY <1>2, <1>4, <2>1
  <2> QED BY <2>1, <2>2
<1>6. PICK x \in T : z = n - x
  BY <1>4
<1>7. ASSUME NEW y \in T PROVE y <= x
  <2>1. n - y \in Below
    OBVIOUS
  <2>2. n - y >= n - x
    BY <1>5, <1>6, <2>1
  <2> QED BY <2>2
<1> QED BY <1>6, <1>7

(* How much two scopes have in common: something if one owner has both,     *)
(* nothing otherwise.                                                       *)
LEMMA DepthIsLargest ==
  ASSUME NEW left \in Seq(Nat), NEW right \in Seq(Nat)
  PROVE  LET common == {k \in 0..Len(left) : k <= Len(right) /\ \A j \in 1..k : left[j] = right[j]}
         IN  /\ CommonDepth(left, right) \in common
             /\ \A k \in common : CommonDepth(left, right) >= k
<1> DEFINE common == {k \in 0..Len(left) : k <= Len(right) /\ \A j \in 1..k : left[j] = right[j]}
<1>1. Len(left) \in Nat /\ Len(right) \in Nat
  OBVIOUS
<1>2. 0 \in common
  BY <1>1
<1>3. common \in SUBSET (0..Len(left))
  OBVIOUS
<1>4. CommonDepth(left, right) = Max(common)
  BY DEF CommonDepth
<1> HIDE DEF common
<1>5. PICK x \in common : \A y \in common : y <= x
  BY <1>1, <1>2, <1>3, BoundedSetsHaveMaxima
<1>6. \A y \in common : x >= y
  BY <1>1, <1>3, <1>5
<1>7. Max(common) \in common /\ \A y \in common : Max(common) >= y
  BY <1>6 DEF Max
<1> USE DEF common
<1> QED BY <1>4, <1>7

LEMMA DepthIsBounded ==
  ASSUME NEW left \in Seq(Nat), NEW right \in Seq(Nat)
  PROVE  /\ CommonDepth(left, right) \in 0..Len(left)
         /\ CommonDepth(left, right) <= Len(right)
BY DepthIsLargest

LEMMA DepthOfOwned ==
  ASSUME NEW left \in Seq(Nat), NEW right \in Seq(Nat)
  PROVE  SameOwner(right, left) <=> CommonDepth(left, right) >= 1
<1>1. CASE SameOwner(right, left)
  <2>1. Len(left) >= 1 /\ Len(right) >= 1 /\ left[1] = right[1]
    BY <1>1 DEF SameOwner
  <2>2. \A j \in 1..1 : left[j] = right[j]
    BY <2>1
  <2> QED BY <1>1, <2>1, <2>2, DepthIsLargest
<1>2. CASE CommonDepth(left, right) >= 1
  <2>1. CommonDepth(left, right) \in 0..Len(left) /\ CommonDepth(left, right) <= Len(right)
    BY DepthIsBounded
  <2>2. Len(left) >= 1 /\ Len(right) >= 1
    BY <1>2, <2>1
  <2>3. left[1] = right[1]
    BY <1>2, <2>1, DepthIsLargest
  <2> QED BY <1>2, <2>2, <2>3 DEF SameOwner
<1> QED BY <1>1, <1>2

LEMMA VisibleIsFound ==
  ASSUME Trusted, NEW u \in Indexed, NEW r, r.scope \in Seq(Nat),
         NEW d \in Definitions(u), Matches(r, d), VisibleFrom(r.scope, d)
  PROVE  Deepest(u, r) # {}
<1> DEFINE visible == {e \in Definitions(u) : Matches(r, e) /\ VisibleFrom(r.scope, e)}
           depths == {CommonDepth(r.scope, e.scope) : e \in visible}
<1>1. \A e \in visible : CommonDepth(r.scope, e.scope) \in 0..Len(r.scope)
  BY DepthIsBounded, AnalysisOf DEF Definition
<1>2. \E x \in depths : \A y \in depths : y <= x
  <2>1. depths \in SUBSET (0..Len(r.scope)) /\ depths # {} /\ Len(r.scope) \in Nat
    BY <1>1
  <2> QED BY <2>1, BoundedSetsHaveMaxima
<1>3. \E e \in visible : \A o \in visible :
        CommonDepth(r.scope, o.scope) <= CommonDepth(r.scope, e.scope)
  BY <1>2
<1> QED BY <1>3 DEF Deepest

LEMMA FoundIsCandidate ==
  ASSUME Trusted, NEW u \in Indexed, NEW r, r.file = NoTarget, r.kind # "arrayOrGrid",
         Deepest(u, r) # {}
  PROVE  Candidates(u, r) # {}
<1>1. Scoped(u, r) # {}
  BY DEF Scoped
<1>2. Locations(u, Scoped(u, r)) # {}
  BY <1>1 DEF Locations
<1> QED BY <1>2 DEF Candidates

(* What completion knows about a cursor.  In a complete text, to be of the   *)
(* entity around the cursor is to have the same outermost scope.            *)
LEMMA ContextOf ==
  ASSUME Trusted, NEW u \in Indexed, NEW c \in Contexts[Document(u)]
  PROVE  /\ c.scope \in Seq(Nat)
         /\ Complete(u) /\ c.owner # NoOwner => c.scope # <<>> /\ Head(c.scope) = c.owner
<1>1. Document(u) \in Text
  BY AnalysisOf
<1> QED BY <1>1, ContextAssumption DEF Context, Complete

LEMMA OwnedIfComplete ==
  ASSUME Trusted, NEW u \in Indexed, NEW c \in Contexts[Document(u)], Complete(u),
         NEW scope, scope # <<>>, NEW at
  PROVE  InOwner(c, scope, at) <=> SameOwner(scope, c.scope)
BY ContextOf DEF InOwner, SameOwner

LEMMA MembersAreOwned ==
  ASSUME Trusted, NEW u \in Indexed, Complete(u)
  PROVE  /\ \A d \in Definitions(u) : d.kind \in CallKind => d.scope # <<>>
         /\ \A r \in References(u) : r.scope # <<>>
<1>1. Document(u) \in Text
  BY AnalysisOf
<1> QED BY <1>1, AnalysisAssumption
        DEF Definitions, References, Complete, CallKind, EntityKind, DefinitionKind

(* An accepted name means the deepest definitions of the file, or else,     *)
(* being a call, those of the loaded blocks.                                *)
LEMMA MeaningOfAccepted ==
  ASSUME NEW u, NEW q, q.file = NoTarget, q.kind # "arrayOrGrid"
  PROVE  /\ Deepest(u, q) # {} => Candidates(u, q) = Locations(u, Deepest(u, q))
         /\ Deepest(u, q) = {} => Candidates(u, q) = IF q.kind \in CallKind
                                                    THEN InLoadedBlocks(u, q) ELSE {}
<1>1. Scoped(u, q) = Deepest(u, q)
  BY DEF Scoped
<1>2. Locations(u, Deepest(u, q)) = {} <=> Deepest(u, q) = {}
  BY DEF Locations
<1> QED BY <1>1, <1>2 DEF Candidates, CallKind

LEMMA ShownPlace ==
  ASSUME NEW items, NEW n, NEW i \in items, Fold[i.name] = Fold[n]
  PROVE  [uri |-> i.uri, at |-> i.at] \in Places(Named(items, n))
BY DEF Places, Named

LEMMA ShownOfFile ==
  ASSUME NEW items, NEW n, NEW u, NEW nodes, NEW d \in nodes,
         Items(u, nodes) \subseteq items, Fold[d.name] = Fold[n]
  PROVE  [uri |-> u, at |-> d.at] \in Places(Named(items, n))
<1> DEFINE i == [name |-> d.name, uri |-> u, at |-> d.at]
<1>1. i \in items
  BY DEF Items
<1>2. i.name = d.name /\ i.uri = u /\ i.at = d.at
  OBVIOUS
<1> HIDE DEF i
<1> QED BY <1>1, <1>2, ShownPlace

(* Completion and resolution choose the same of several variables: one       *)
(* without a scope, which only completion sees, has nothing in common with  *)
(* the cursor's.                                                            *)
LEMMA VariablesAreShown ==
  ASSUME Trusted, NEW u \in Indexed, NEW c \in Contexts[Document(u)], NEW n,
         NEW q, q = Accepted(n, "variable", c)
  PROVE  Candidates(u, q) \subseteq Places(Named(Offered(u, "variable", c), n))
<1>1. q.name = n /\ q.kind = "variable" /\ q.scope = c.scope /\ q.file = NoTarget
  BY DEF Accepted
<1>2. Offered(u, "variable", c) = Items(u, OfferedVariables(u, c))
  BY DEF Offered, OfferedHere, CallKind
<1>3. ASSUME NEW d \in Deepest(u, q) PROVE d \in OfferedVariables(u, c) /\ Fold[d.name] = Fold[n]
  <2>1. d \in Definitions(u) /\ Matches(q, d) /\ VisibleFrom(c.scope, d)
    BY <1>1 DEF Deepest
  <2>2. d.kind = "variable" /\ Fold[d.name] = Fold[n] /\ CompletionVisible(c, d)
    BY <1>1, <2>1 DEF Matches, CompletionVisible
  <2>3. ASSUME NEW e \in Definitions(u), e.kind = "variable", CompletionVisible(c, e),
               Fold[e.name] = Fold[d.name]
        PROVE  CommonDepth(c.scope, e.scope) <= CommonDepth(c.scope, d.scope)
    <3>1. CASE VisibleFrom(c.scope, e)
      <4>1. Matches(q, e)
        BY <1>1, <2>2, <2>3 DEF Matches
      <4> QED BY <1>1, <3>1, <4>1 DEF Deepest
    <3>2. CASE e.scope = <<>>
      <4>0. \A x \in Definitions(u) : x.scope \in Seq(Nat)
        BY AnalysisOf DEF Definition
      <4>1. c.scope \in Seq(Nat) /\ e.scope \in Seq(Nat) /\ d.scope \in Seq(Nat)
        BY <2>1, <2>3, <4>0, ContextOf
      <4>2. CommonDepth(c.scope, e.scope) <= 0 /\ CommonDepth(c.scope, e.scope) \in 0..Len(c.scope)
        BY <3>2, <4>1, DepthIsBounded
      <4>3. CommonDepth(c.scope, d.scope) \in 0..Len(c.scope) /\ Len(c.scope) \in Nat
        BY <4>1, DepthIsBounded
      <4> QED BY <4>2, <4>3
    <3> QED BY <2>3, <3>1, <3>2 DEF CompletionVisible
  <2> QED BY <2>1, <2>2, <2>3 DEF OfferedVariables
<1>4. ASSUME NEW l \in Candidates(u, q)
      PROVE  \E d \in Deepest(u, q) : l = [uri |-> u, at |-> d.at]
  BY <1>1, MeaningOfAccepted DEF Locations, CallKind
<1> QED BY <1>2, <1>3, <1>4, ShownOfFile

(* What the file itself has to offer is found, except a variable that has no *)
(* scope.                                                                   *)
LEMMA OwnAreFound ==
  ASSUME Trusted, NEW u \in Indexed, NEW c \in Contexts[Document(u)], NEW n,
         NEW kind \in CallKind \cup {"variable", "grid"},
         NEW q, q = Accepted(n, kind, c),
         NEW d \in OfferedHere(u, kind, c), Matches(q, d), kind = "variable" => d.scope # <<>>
  PROVE  Deepest(u, q) # {} /\ Candidates(u, q) # {}
<1>1. q.name = n /\ q.kind = kind /\ q.scope = c.scope /\ q.file = NoTarget
  BY DEF Accepted
<1>2. kind # "arrayOrGrid"
  BY DEF CallKind
<1>3. d \in Definitions(u) /\ d.kind = kind
  BY DEF OfferedHere, OfferedVariables
<1>4. VisibleFrom(c.scope, d)
  BY <1>3 DEF OfferedHere, OfferedVariables, CompletionVisible, VisibleFrom
<1>5. c.scope \in Seq(Nat)
  BY ContextOf
<1>6. Deepest(u, q) # {}
  BY <1>1, <1>3, <1>4, <1>5, VisibleIsFound
<1> QED BY <1>1, <1>2, <1>6, FoundIsCandidate

(* A call, in a complete text.  What the entity has is deeper than what      *)
(* others have; what no entity has comes from the same blocks.              *)
LEMMA OwnCallsAreShown ==
  ASSUME Trusted, NEW u \in Indexed, NEW c \in Contexts[Document(u)], Complete(u), NEW n,
         NEW kind \in CallKind, NEW q, q = Accepted(n, kind, c),
         NEW d \in OfferedHere(u, kind, c), Matches(q, d)
  PROVE  Candidates(u, q) \subseteq Places(Named(Offered(u, kind, c), n))
<1>1. q.name = n /\ q.kind = kind /\ q.scope = c.scope /\ q.file = NoTarget
  BY DEF Accepted
<1>2. kind # "arrayOrGrid" /\ kind # "variable"
  BY DEF CallKind
<1>3. d \in Definitions(u) /\ d.kind = kind /\ InOwner(c, d.scope, d.at)
  BY <1>2 DEF OfferedHere
<1>4. d.scope # <<>> /\ SameOwner(d.scope, c.scope)
  BY <1>3, MembersAreOwned, OwnedIfComplete
<1>5. c.scope \in Seq(Nat) /\ \A e \in Definitions(u) : e.scope \in Seq(Nat)
  BY ContextOf, AnalysisOf DEF Definition
<1>6. CommonDepth(c.scope, d.scope) >= 1
  BY <1>3, <1>4, <1>5, DepthOfOwned
<1>7. Deepest(u, q) # {}
  BY <1>2, OwnAreFound
<1>8. ASSUME NEW e \in Deepest(u, q) PROVE e \in OfferedHere(u, kind, c) /\ Fold[e.name] = Fold[n]
  <2>1. e \in Definitions(u) /\ e.kind = kind /\ Fold[e.name] = Fold[n]
    BY <1>1, <1>2 DEF Deepest, Matches
  <2>2. VisibleFrom(c.scope, d)
    BY <1>2, <1>3 DEF VisibleFrom
  <2>3. CommonDepth(c.scope, d.scope) <= CommonDepth(c.scope, e.scope)
    BY <1>1, <1>3, <2>2 DEF Deepest
  <2>4. /\ CommonDepth(c.scope, d.scope) \in 0..Len(c.scope)
        /\ CommonDepth(c.scope, e.scope) \in 0..Len(c.scope)
        /\ Len(c.scope) \in Nat
    BY <1>3, <1>5, <2>1, DepthIsBounded
  <2>5. CommonDepth(c.scope, e.scope) >= 1
    BY <1>6, <2>3, <2>4
  <2>6. SameOwner(e.scope, c.scope)
    BY <1>5, <2>1, <2>5, DepthOfOwned
  <2> QED BY <1>2, <2>1, <2>6 DEF OfferedHere, InOwner
<1>9. Items(u, OfferedHere(u, kind, c)) \subseteq Offered(u, kind, c)
  BY DEF Offered
<1>10. Candidates(u, q) = Locations(u, Deepest(u, q))
  BY <1>1, <1>2, <1>7, MeaningOfAccepted
<1> QED BY <1>8, <1>9, <1>10, ShownOfFile DEF Locations

LEMMA LoadedAreLoads ==
  ASSUME Trusted, NEW u \in Indexed, NEW c \in Contexts[Document(u)], Complete(u)
  PROVE  LoadsAround(u, c) = Loads(u, c.scope)
BY MembersAreOwned, OwnedIfComplete DEF LoadsAround, Loads

LEMMA LoadedCallsAreShown ==
  ASSUME Trusted, NEW u \in Indexed, NEW c \in Contexts[Document(u)], Complete(u),
         NEW kind \in CallKind, NEW i \in Offered(u, kind, c),
         NEW q, q = Accepted(i.name, kind, c),
         ~\E d \in OfferedHere(u, kind, c) : Matches(q, d),
         ~\E d \in Definitions(u) : Matches(q, d)
  PROVE  /\ Candidates(u, q) # {}
         /\ Candidates(u, q) \subseteq Places(Named(Offered(u, kind, c), i.name))
<1> DEFINE Has(b) == {d \in Definitions(b.uri) : d.kind = kind /\ Contains(d.scope, b.at)}
<1>1. q.name = i.name /\ q.kind = kind /\ q.scope = c.scope /\ q.file = NoTarget
  BY DEF Accepted
<1>2. kind # "arrayOrGrid" /\ kind # "variable"
  BY DEF CallKind
<1>3. Candidates(u, q) = InLoadedBlocks(u, q)
  BY <1>1, <1>2, MeaningOfAccepted DEF Deepest
<1>4. LoadsAround(u, c) = Loads(u, c.scope)
  BY LoadedAreLoads
<1>5. \A load \in Loads(u, c.scope) : Resolved(u, load) = TheOnly(InTargetFile(u, load))
  BY DEF Resolved, Candidates, Loads
<1>6. \A d : d.kind = kind => (Matches(q, d) <=> Fold[d.name] = Fold[i.name])
  BY <1>1, <1>2 DEF Matches
<1>7. \A d : Matches(q, d) => d.kind = kind
  BY <1>1, <1>2 DEF Matches
<1>8. \A j \in Items(u, OfferedHere(u, kind, c)) : Fold[j.name] # Fold[i.name]
  <2>1. \A d \in OfferedHere(u, kind, c) : d.kind = kind
    BY <1>2 DEF OfferedHere
  <2> QED BY <1>6, <2>1 DEF Items
<1>9. i \in OfferedLoaded(u, kind, c)
  <2>1. i \notin Items(u, OfferedHere(u, kind, c))
    BY <1>8
  <2> QED BY <2>1 DEF Offered
<1>10. PICK b \in UNION {Resolved(u, load) : load \in Loads(u, c.scope)} : i \in Items(b.uri, Has(b))
  BY <1>4, <1>9 DEF OfferedLoaded
<1>11. PICK load \in Loads(u, c.scope) : b \in Resolved(u, load)
  BY <1>10
<1>12. PICK d \in Has(b) : i = [name |-> d.name, uri |-> b.uri, at |-> d.at]
  BY <1>10 DEF Items
<1>13. Matches(q, d)
  BY <1>6, <1>12
<1>14. Candidates(u, q) # {}
  <2>1. [uri |-> b.uri, at |-> d.at] \in InLoadedBlocks(u, q)
    BY <1>1, <1>5, <1>11, <1>12, <1>13 DEF InLoadedBlocks, Locations
  <2> QED BY <1>3, <2>1
<1>15. ASSUME NEW l \in Candidates(u, q)
       PROVE  l \in Places(Named(Offered(u, kind, c), i.name))
  <2>1. PICK other \in Loads(u, c.scope) : \E x \in TheOnly(InTargetFile(u, other)) :
          l \in Locations(x.uri, {e \in Definitions(x.uri) : Matches(q, e) /\ Contains(e.scope, x.at)})
    BY <1>1, <1>3, <1>15 DEF InLoadedBlocks
  <2>2. PICK x \in TheOnly(InTargetFile(u, other)) :
          l \in Locations(x.uri, {e \in Definitions(x.uri) : Matches(q, e) /\ Contains(e.scope, x.at)})
    BY <2>1
  <2>3. PICK e \in Definitions(x.uri) :
          Matches(q, e) /\ Contains(e.scope, x.at) /\ l = [uri |-> x.uri, at |-> e.at]
    BY <2>2 DEF Locations
  <2> DEFINE j == [name |-> e.name, uri |-> x.uri, at |-> e.at]
  <2>4. j.name = e.name /\ j.uri = x.uri /\ j.at = e.at
    OBVIOUS
  <2>5. e.kind = kind /\ Fold[j.name] = Fold[i.name]
    BY <1>6, <1>7, <2>3
  <2>6. j \in Items(x.uri, Has(x))
    BY <2>3, <2>5 DEF Items
  <2> HIDE DEF j, Has
  <2>7. j \in OfferedLoaded(u, kind, c)
    <3>1. x \in Resolved(u, other) /\ other \in LoadsAround(u, c)
      BY <1>4, <1>5, <2>2
    <3> USE DEF Has
    <3> QED BY <2>6, <3>1 DEF OfferedLoaded
  <2>8. Named(Items(u, OfferedHere(u, kind, c)), j.name) = {}
    BY <1>8, <2>5 DEF Named
  <2>9. j \in Offered(u, kind, c)
    <3> DEFINE here == Items(u, OfferedHere(u, kind, c))
    <3>1. Offered(u, kind, c)
            = here \cup {o \in OfferedLoaded(u, kind, c) : Named(here, o.name) = {}}
      BY DEF Offered, CallKind
    <3> QED BY <2>7, <2>8, <3>1
  <2> QED BY <2>3, <2>4, <2>5, <2>9, ShownPlace
<1> QED BY <1>14, <1>15

(* A namesake of another entity is preferred to a loaded one.               *)
LEMMA NamesakesArePreferred ==
  ASSUME Trusted, NEW u \in Indexed, NEW c \in Contexts[Document(u)], Complete(u), NEW n,
         NEW kind \in CallKind, NEW q, q = Accepted(n, kind, c),
         ~\E d \in OfferedHere(u, kind, c) : Matches(q, d),
         NEW o \in Definitions(u), Matches(q, o)
  PROVE  /\ Candidates(u, q) # {}
         /\ Candidates(u, q) = Locations(u, {d \in Definitions(u) : Matches(q, d)})
<1>1. q.name = n /\ q.kind = kind /\ q.scope = c.scope /\ q.file = NoTarget
  BY DEF Accepted
<1>2. kind # "arrayOrGrid" /\ kind # "variable"
  BY DEF CallKind
<1>3. c.scope \in Seq(Nat) /\ \A e \in Definitions(u) : e.scope \in Seq(Nat)
  BY ContextOf, AnalysisOf DEF Definition
<1>4. \A d \in Definitions(u) : Matches(q, d) => d.kind = kind
  BY <1>1, <1>2 DEF Matches
<1>5. ASSUME NEW d \in Definitions(u), Matches(q, d) PROVE CommonDepth(c.scope, d.scope) = 0
  <2>1. d.kind = kind /\ d.scope # <<>>
    BY <1>4, <1>5, MembersAreOwned
  <2>2. ~InOwner(c, d.scope, d.at)
    BY <1>2, <1>5, <2>1 DEF OfferedHere
  <2>3. ~SameOwner(d.scope, c.scope)
    BY <2>2 DEF InOwner
  <2>4. CommonDepth(c.scope, d.scope) \in 0..Len(c.scope) /\ Len(c.scope) \in Nat
    BY <1>3, DepthIsBounded
  <2>5. ~(CommonDepth(c.scope, d.scope) >= 1)
    BY <1>3, <2>3, DepthOfOwned
  <2> QED BY <2>4, <2>5
<1>6. \A d \in Definitions(u) : Matches(q, d) => VisibleFrom(c.scope, d)
  BY <1>2, <1>4 DEF VisibleFrom
<1>7. Deepest(u, q) = {d \in Definitions(u) : Matches(q, d)}
  BY <1>1, <1>5, <1>6 DEF Deepest
<1>8. Deepest(u, q) # {}
  BY <1>7
<1>9. Candidates(u, q) = Locations(u, Deepest(u, q))
  BY <1>1, <1>2, <1>8, MeaningOfAccepted
<1> QED BY <1>7, <1>8, <1>9 DEF Locations

LEMMA CallsAreShown ==
  ASSUME Trusted, NEW u \in Indexed, NEW c \in Contexts[Document(u)], Complete(u),
         NEW kind \in CallKind, NEW i \in Offered(u, kind, c),
         NEW q, q = Accepted(i.name, kind, c)
  PROVE  /\ Candidates(u, q) # {}
         /\ \/ Candidates(u, q) \subseteq Places(Named(Offered(u, kind, c), i.name))
            \/ /\ {d \in OfferedHere(u, kind, c) : Matches(q, d)} = {}
               /\ Candidates(u, q) = Locations(u, {d \in Definitions(u) : Matches(q, d)})
<1>1. CASE \E d \in OfferedHere(u, kind, c) : Matches(q, d)
  <2>1. PICK d \in OfferedHere(u, kind, c) : Matches(q, d)
    BY <1>1
  <2>2. kind # "variable"
    BY DEF CallKind
  <2> QED BY <2>1, <2>2, OwnCallsAreShown, OwnAreFound
<1>2. CASE ~\E d \in OfferedHere(u, kind, c) : Matches(q, d)
  <2>1. CASE ~\E d \in Definitions(u) : Matches(q, d)
    BY <1>2, <2>1, LoadedCallsAreShown
  <2>2. CASE \E d \in Definitions(u) : Matches(q, d)
    BY <1>2, <2>2, NamesakesArePreferred
  <2> QED BY <2>1, <2>2
<1> QED BY <1>1, <1>2

LEMMA GridsAreShown ==
  ASSUME Trusted, NEW u \in Indexed, NEW c \in Contexts[Document(u)], NEW n,
         NEW q, q = Accepted(n, "grid", c)
  PROVE  Candidates(u, q) \subseteq Places(Named(Offered(u, "grid", c), n))
<1>1. q.name = n /\ q.kind = "grid" /\ q.scope = c.scope /\ q.file = NoTarget
  BY DEF Accepted
<1>2. Offered(u, "grid", c) = Items(u, {d \in Definitions(u) : d.kind = "grid"})
  BY DEF Offered, OfferedHere, CallKind
<1>3. ASSUME NEW l \in Candidates(u, q)
      PROVE  \E d \in Definitions(u) :
               d.kind = "grid" /\ Fold[d.name] = Fold[n] /\ l = [uri |-> u, at |-> d.at]
  <2>1. PICK d \in Deepest(u, q) : l = [uri |-> u, at |-> d.at]
    BY <1>1, <1>3, MeaningOfAccepted DEF Locations, CallKind
  <2>2. d \in Definitions(u) /\ Matches(q, d)
    BY <2>1 DEF Deepest
  <2>3. d.kind = "grid" /\ Fold[d.name] = Fold[n]
    BY <1>1, <2>2 DEF Matches
  <2> QED BY <2>1, <2>2, <2>3
<1> DEFINE grids == {d \in Definitions(u) : d.kind = "grid"}
<1>4. Items(u, grids) \subseteq Offered(u, "grid", c)
  BY <1>2
<1>5. ASSUME NEW l \in Candidates(u, q)
      PROVE  l \in Places(Named(Offered(u, "grid", c), n))
  <2>1. PICK d \in grids : Fold[d.name] = Fold[n] /\ l = [uri |-> u, at |-> d.at]
    BY <1>3, <1>5
  <2> HIDE DEF grids
  <2> QED BY <1>4, <2>1, ShownOfFile
<1> QED BY <1>5

(* Completion offers what resolution finds: CompletionsAtRevision and       *)
(* resolveLocked search the same places, in any text that is complete, and  *)
(* in a malformed one as far as the analysis knows the scopes (index.go).   *)
THEOREM CompletionsResolve ==
  ASSUME NoCaseCollisions
  PROVE  Spec => []AcceptedCompletionsResolve
<1>1. Trusted => AcceptedCompletionsResolve
  <2> SUFFICES ASSUME Trusted, NEW u \in Indexed, NEW c \in Contexts[Document(u)],
                      NEW kind \in CallKind \cup {"variable", "grid"}, NEW i \in Offered(u, kind, c)
               PROVE  LET q == Accepted(i.name, kind, c)
                          here == {d \in OfferedHere(u, kind, c) : Matches(q, d)}
                          shown == Places(Named(Offered(u, kind, c), i.name))
                          meant == Candidates(u, q)
                      IN
                        /\ Complete(u) =>
                             /\ meant # {}
                             /\ \/ meant \subseteq shown
                                \/ here = {} /\ meant = Locations(u, {d \in Definitions(u) : Matches(q, d)})
                        /\ kind = "variable" => meant \subseteq shown
                        /\ (\E d \in here : kind = "variable" => d.scope # <<>>) => meant # {}
    BY Zenon DEF AcceptedCompletionsResolve
  <2> DEFINE q == Accepted(i.name, kind, c)
  <2>1. ASSUME kind \in {"variable", "grid"}
        PROVE  Candidates(u, q) \subseteq Places(Named(Offered(u, kind, c), i.name))
    BY <2>1, VariablesAreShown, GridsAreShown
  <2>2. ASSUME NEW d \in OfferedHere(u, kind, c), Matches(q, d), kind = "variable" => d.scope # <<>>
        PROVE  Candidates(u, q) # {}
    BY <2>2, OwnAreFound
  <2>3. ASSUME kind \in {"variable", "grid"}, Complete(u) PROVE Candidates(u, q) # {}
    <3>1. Offered(u, kind, c) = Items(u, OfferedHere(u, kind, c))
      BY <2>3 DEF Offered, CallKind
    <3>2. PICK d \in OfferedHere(u, kind, c) : i.name = d.name
      BY <3>1 DEF Items
    <3>3. d \in Definitions(u) /\ d.kind = kind
      BY DEF OfferedHere, OfferedVariables
    <3>4. Matches(q, d)
      BY <2>3, <3>2, <3>3 DEF Matches, Accepted
    <3>5. kind = "variable" => d.scope # <<>>
      BY <2>3, <3>3, AnalysisOf DEF EntityKind
    <3> QED BY <2>2, <3>4, <3>5
  <2>4. kind \in CallKind \/ kind \in {"variable", "grid"}
    OBVIOUS
  <2>5. kind \in CallKind /\ Complete(u) =>
          /\ Candidates(u, q) # {}
          /\ \/ Candidates(u, q) \subseteq Places(Named(Offered(u, kind, c), i.name))
             \/ /\ {d \in OfferedHere(u, kind, c) : Matches(q, d)} = {}
                /\ Candidates(u, q) = Locations(u, {d \in Definitions(u) : Matches(q, d)})
    BY CallsAreShown
  <2> QED BY <2>1, <2>2, <2>3, <2>4, <2>5
<1> QED BY <1>1, TrustedAlways, PTL
-----------------------------------------------------------------------------
(* Answers depend on what the files say.  The documents of the index are a  *)
(* function of the contents, within a step: a call touches one document,    *)
(* and no other document has its file.                                      *)

NothingBeforeLoad == revision = 0 => disk = NoDocuments

LEMMA NothingBeforeLoadAlways == Spec => []NothingBeforeLoad
<1>1. Init => NothingBeforeLoad
  BY DEF Init, NothingBeforeLoad
<1>2. IndexInv /\ NothingBeforeLoad /\ [Next]_vars => NothingBeforeLoad'
  BY DEF IndexInv, TypeOK, NothingBeforeLoad, Next, vars, Load, Overlay, RemoveOverlay,
         RemoveOverlayFails
<1> QED BY <1>1, <1>2, IndexInvariant, PTL DEF Spec

(* u is the only document of its file. *)
Alone(u) == \A v \in AnyHeld : FileOf(v) = FileOf(u) => v = u

LEMMA ContentsOf ==
  ASSUME Trusted, NEW u \in Uri, Alone(u)
  PROVE  FileOf(u) \in AllFiles /\ Contents[FileOf(u)] = Document(u)
<1>1. FileOf(u) \in AllFiles
  BY FileOfType
<1>2. TextIn(overlays, FileOf(u)) = overlays[u] /\ TextIn(disk, FileOf(u)) = disk[u]
  BY TextInOf DEF Alone, Single, AnyHeld, Trusted, IndexInv, TypeOK
<1> QED BY <1>1, <1>2 DEF Contents, Files!TextOf, Document

LEMMA ContentsOfAlone ==
  Trusted => \A u \in Uri : Alone(u) => FileOf(u) \in AllFiles /\ Contents[FileOf(u)] = Document(u)
BY ContentsOf

LEMMA ContentsOfAloneNext ==
  (Trusted => \A u \in Uri : Alone(u) =>
     FileOf(u) \in AllFiles /\ Contents[FileOf(u)] = Document(u))'
BY ContentsOfAlone, PTL

LEMMA IndexedHaveText ==
  Trusted => /\ Indexed = {u \in Uri : Document(u) # NoText}
             /\ \A u \in Indexed : Alone(u)
<1> SUFFICES ASSUME Trusted
             PROVE  /\ Indexed = {u \in Uri : Document(u) # NoText}
                    /\ \A u \in Indexed : Alone(u)
  OBVIOUS
<1>1. Indexed = {u \in Uri : Document(u) # NoText}
  BY DEF Indexed, Held, Document
<1>2. \A u \in Indexed : Alone(u)
  BY OneDocumentPerFile DEF Trusted, Alone, Indexed, AnyHeld
<1> QED BY <1>1, <1>2

SameDocuments == \A u \in Uri : Document(u)' = Document(u)

(* A call writes at most the one document of the file it is about.          *)
LEMMA WriteKeepsDocuments ==
  ASSUME Trusted, Trusted', Contents' = Contents, NEW m \in Uri, Alone(m),
         \A u \in Uri \ {m} : disk'[u] = disk[u] /\ overlays'[u] = overlays[u]
  PROVE  SameDocuments
<1>1. AnyHeld' \subseteq AnyHeld \cup {m}
  BY DEF AnyHeld, Held
<1>2. Alone(m)'
  BY <1>1 DEF Alone, FileOf
<1>3. Contents[FileOf(m)] = Document(m)
  BY ContentsOf
<1>4. Contents'[FileOf(m)] = Document(m)'
  <2>1. (Trusted => \A u \in Uri : Alone(u) =>
           FileOf(u) \in AllFiles /\ Contents[FileOf(u)] = Document(u))'
    BY ContentsOfAloneNext
  <2>2. FileOf(m)' = FileOf(m)
    BY DEF FileOf
  <2> QED BY <1>2, <2>1, <2>2
<1>5. \A u \in Uri \ {m} : Document(u)' = Document(u)
  BY DEF Document
<1> QED BY <1>3, <1>4, <1>5 DEF SameDocuments

LEMMA LoadKeepsDocuments ==
  ASSUME Trusted, Trusted', Contents' = Contents, NothingBeforeLoad, revision = 0
  PROVE  SameDocuments
<1>1. disk = NoDocuments /\ overlays = NoDocuments
  BY DEF NothingBeforeLoad, Trusted, IndexInv
<1>2. \A f \in AllFiles : Contents[f] = NoText
  BY <1>1, HeldNothing DEF Contents, Files!TextOf, TextIn
<1>3. \A u \in Uri : Document(u) = NoText
  BY <1>1 DEF Document, NoDocuments
<1>4. ASSUME NEW w \in Uri PROVE Document(w)' = NoText
  <2>1. (Trusted => /\ Indexed = {u \in Uri : Document(u) # NoText}
                    /\ \A u \in Indexed : Alone(u))'
    BY IndexedHaveText, PTL
  <2>2. (Trusted => \A u \in Uri : Alone(u) =>
           FileOf(u) \in AllFiles /\ Contents[FileOf(u)] = Document(u))'
    BY ContentsOfAloneNext
  <2>3. FileOf(w)' = FileOf(w) /\ AllFiles' = AllFiles
    BY DEF FileOf, AllFiles
  <2>4. CASE w \in Indexed'
    BY <1>2, <2>1, <2>2, <2>3, <2>4
  <2>5. CASE w \notin Indexed'
    BY <2>1, <2>5
  <2> QED BY <2>4, <2>5
<1> QED BY <1>3, <1>4 DEF SameDocuments

LEMMA StepKeepsDocuments ==
  ASSUME Trusted, Trusted', NothingBeforeLoad, [Next]_vars, Contents' = Contents
  PROVE  SameDocuments
<1>1. CASE UNCHANGED vars
  BY <1>1 DEF vars, SameDocuments, Document
<1>2. ASSUME NEW scan \in Scans, Load(scan) PROVE SameDocuments
  BY <1>2, LoadKeepsDocuments DEF Load
<1>3. ASSUME NEW s \in Spelling,
             \/ \E t \in Text : Overlay(s, t)
             \/ \E file \in Text \cup {NoText} : RemoveOverlay(s, file)
      PROVE  SameDocuments
  <2> DEFINE m == UriForPath(Identity[s])
  <2>1. m \in Uri /\ Alone(m)
    BY UriAssumption, UriForPathFinds DEF Trusted, Alone
  <2>2. \A u \in Uri \ {m} : disk'[u] = disk[u] /\ overlays'[u] = overlays[u]
    BY <1>3 DEF Overlay, RemoveOverlay, Trusted, IndexInv, TypeOK, Documents
  <2> QED BY <2>1, <2>2, WriteKeepsDocuments
<1>4. ASSUME NEW s \in Spelling, RemoveOverlayFails(s) PROVE SameDocuments
  BY <1>1, <1>4 DEF RemoveOverlayFails
<1> QED BY <1>1, <1>2, <1>3, <1>4 DEF Next
(* The tables, and with them the files that names stand for.                *)
LEMMA SameFiles ==
  ASSUME Trusted, Trusted', SameDocuments
  PROVE  /\ Indexed' = Indexed
         /\ paths' = paths /\ filenames' = filenames
         /\ \A u, f : TargetUris(u, f)' = TargetUris(u, f)
<1>1. Indexed' = Indexed
  <2>1. (Trusted => Indexed = {u \in Uri : Document(u) # NoText})'
    BY IndexedHaveText, PTL
  <2> QED BY <2>1, IndexedHaveText DEF SameDocuments
<1>2. /\ paths \in [Path -> SUBSET Uri] /\ paths' \in [Path -> SUBSET Uri]
      /\ filenames \in [Name -> SUBSET Uri] /\ filenames' \in [Name -> SUBSET Uri]
  BY DEF Trusted, IndexInv, TypeOK
<1>3. \A k \in Path : paths[k] = FilesAt(k)
  BY TablesGiveFiles
<1>4. \A n \in Name : filenames[n] = {v \in Indexed \cap FileUri : NameOf[PathOf[v]] = n}
  BY TablesGiveFiles
<1>5. (Trusted =>
        /\ \A k \in Path : paths[k] = FilesAt(k)
        /\ \A n \in Name : filenames[n] = {v \in Indexed \cap FileUri : NameOf[PathOf[v]] = n})'
  BY TablesGiveFiles, PTL
<1>6. \A k \in Path : paths'[k] = paths[k]
  BY <1>1, <1>3, <1>5 DEF FilesAt
<1>7. \A n \in Name : filenames'[n] = filenames[n]
  BY <1>1, <1>4, <1>5
<1>8. paths' = paths /\ filenames' = filenames
  BY <1>2, <1>6, <1>7
<1> QED BY <1>1, <1>8 DEF TargetUris

(* What the analysis says of a document of the index.                       *)
LEMMA SameAnalysis ==
  ASSUME Trusted, Trusted', SameDocuments, NEW u \in Uri
  PROVE  /\ Definitions(u)' = Definitions(u)
         /\ References(u)' = References(u)
         /\ Complete(u)' = Complete(u)
BY DEF SameDocuments, Definitions, References, Complete

LEMMA SameTargets ==
  ASSUME Trusted, Trusted', SameDocuments,
         NEW u \in Indexed, NEW r, r.file \in Target
  PROVE  InTargetFile(u, r)' = InTargetFile(u, r)
<1>1. TargetUris(u, r.file)' = TargetUris(u, r.file)
  BY SameFiles
<1>2. TargetUris(u, r.file) \subseteq Uri
  BY TargetsAreMeant, AnalysisOf
<1>3. \A m \in Uri : Definitions(m)' = Definitions(m)
  BY SameAnalysis
<1>4. TheOnly(TargetUris(u, r.file)) \subseteq Uri
  BY <1>2 DEF TheOnly
<1>5. ASSUME NEW m \in TheOnly(TargetUris(u, r.file))
      PROVE  Locations(m, {d \in Definitions(m) : Matches(r, d)})'
               = Locations(m, {d \in Definitions(m) : Matches(r, d)})
  BY <1>3, <1>4 DEF Locations, Matches
<1> DEFINE Found(m) == Locations(m, {d \in Definitions(m) : Matches(r, d)})
<1>6. InTargetFile(u, r) = UNION {Found(m) : m \in TheOnly(TargetUris(u, r.file))}
  BY DEF InTargetFile
<1>7. InTargetFile(u, r)' = UNION {Found(m)' : m \in TheOnly(TargetUris(u, r.file))}
  BY <1>1 DEF InTargetFile, TheOnly
<1>8. \A m \in TheOnly(TargetUris(u, r.file)) : Found(m)' = Found(m)
  BY <1>5
<1> HIDE DEF Found
<1> QED BY <1>6, <1>7, <1>8

LEMMA SameScoped ==
  ASSUME Trusted, Trusted', SameDocuments, NEW u \in Indexed, NEW r
  PROVE  Scoped(u, r)' = Scoped(u, r)
<1>1. Definitions(u)' = Definitions(u)
  BY SameAnalysis, AnalysisOf
<1>2. ASSUME NEW q PROVE Deepest(u, q)' = Deepest(u, q)
  BY <1>1 DEF Deepest, Matches, VisibleFrom
<1> QED BY <1>2 DEF Scoped
LEMMA SameLoadedBlocks ==
  ASSUME Trusted, Trusted', SameDocuments, NEW u \in Indexed, NEW call
  PROVE  InLoadedBlocks(u, call)' = InLoadedBlocks(u, call)
<1> DEFINE Blocks == UNION {TheOnly(InTargetFile(u, load)) : load \in Loads(u, call.scope)}
           Found(b) == Locations(b.uri, {d \in Definitions(b.uri) :
                                           Matches(call, d) /\ Contains(d.scope, b.at)})
<1>1. Loads(u, call.scope)' = Loads(u, call.scope)
  BY SameAnalysis, AnalysisOf DEF Loads, SameOwner
<1>2. ASSUME NEW load \in Loads(u, call.scope)
      PROVE  load.file \in Target /\ InTargetFile(u, load)' = InTargetFile(u, load)
  <2>1. load.file \in Target
    BY AnalysisOf DEF Loads, Reference
  <2> QED BY <2>1, SameTargets
<1>3. Blocks' = Blocks
  <2>1. Blocks' = UNION {TheOnly(InTargetFile(u, load)') : load \in Loads(u, call.scope)}
    BY <1>1 DEF TheOnly
  <2> QED BY <1>2, <2>1
<1>4. ASSUME NEW b \in Blocks PROVE Found(b)' = Found(b)
  <2>1. PICK load \in Loads(u, call.scope) : b \in TheOnly(InTargetFile(u, load))
    OBVIOUS
  <2>2. b \in InTargetFile(u, load) /\ load.file \in Target
    BY <1>2, <2>1 DEF TheOnly
  <2>3. b.uri \in Indexed
    BY <2>2, TargetsAreDefinitions
  <2>4. Definitions(b.uri)' = Definitions(b.uri)
    BY <2>3, SameAnalysis, AnalysisOf
  <2> QED BY <2>4 DEF Locations, Matches
<1>5. InLoadedBlocks(u, call) = UNION {Found(b) : b \in Blocks}
  BY DEF InLoadedBlocks
<1>6. InLoadedBlocks(u, call)' = UNION {Found(b)' : b \in Blocks'}
  BY DEF InLoadedBlocks
<1> HIDE DEF Blocks, Found
<1> QED BY <1>3, <1>4, <1>5, <1>6

LEMMA SameCandidates ==
  ASSUME Trusted, Trusted', SameDocuments, NEW u \in Indexed, NEW r \in References(u)
  PROVE  Candidates(u, r)' = Candidates(u, r)
<1>1. r.file # NoTarget => r.file \in Target
  BY AnalysisOf DEF Reference
<1>2. r.file # NoTarget => InTargetFile(u, r)' = InTargetFile(u, r)
  BY <1>1, SameTargets
<1>3. Scoped(u, r)' = Scoped(u, r)
  BY SameScoped
<1>4. Locations(u, Scoped(u, r))' = Locations(u, Scoped(u, r))
  BY <1>3 DEF Locations
<1>5. InLoadedBlocks(u, r)' = InLoadedBlocks(u, r)
  BY SameLoadedBlocks
<1> QED BY <1>2, <1>4, <1>5 DEF Candidates

LEMMA SameDiagnostics ==
  ASSUME Trusted, Trusted', SameDocuments, NEW u \in Indexed
  PROVE  Diagnostics(u)' = Diagnostics(u)
<1>0. u \in Uri
  BY AnalysisOf
<1>1. /\ Definitions(u)' = Definitions(u) /\ References(u)' = References(u)
      /\ Complete(u)' = Complete(u)
  BY <1>0, SameAnalysis
<1>2. ASSUME NEW d PROVE IsDuplicate(u, d)' = IsDuplicate(u, d)
  BY <1>1 DEF IsDuplicate
<1>3. ASSUME NEW r PROVE ReferenceDiagnostic(u, r)' = ReferenceDiagnostic(u, r)
  <2>1. TargetUris(u, r.file)' = TargetUris(u, r.file)
    BY SameFiles
  <2>2. Scoped(u, r)' = Scoped(u, r)
    BY SameScoped
  <2>3. HasInvisibleLocal(u, r)' = HasInvisibleLocal(u, r)
    BY <1>1 DEF HasInvisibleLocal, SameOwner, VisibleFrom
  <2>4. \A m \in Uri : Lacks(m, r)' = Lacks(m, r)
    BY SameAnalysis DEF Lacks, Matches
  <2> QED BY <2>1, <2>2, <2>3, <2>4 DEF ReferenceDiagnostic
<1>4. {d \in Definitions(u) : IsDuplicate(u, d)}' = {d \in Definitions(u) : IsDuplicate(u, d)}
  BY <1>1, <1>2
<1>5. {r \in References(u) : ReferenceDiagnostic(u, r) # "none"}'
        = {r \in References(u) : ReferenceDiagnostic(u, r) # "none"}
  BY <1>1, <1>3
<1>6. {[at |-> r.at, code |-> ReferenceDiagnostic(u, r)] :
         r \in {s \in References(u) : ReferenceDiagnostic(u, s) # "none"}}'
        = {[at |-> r.at, code |-> ReferenceDiagnostic(u, r)] :
             r \in {s \in References(u) : ReferenceDiagnostic(u, s) # "none"}}
  BY <1>3, <1>5
<1> QED BY <1>1, <1>4, <1>6 DEF Diagnostics

LEMMA SameResolved ==
  ASSUME Trusted, Trusted', SameDocuments, NEW u \in Indexed, NEW r \in References(u)
  PROVE  Resolved(u, r)' = Resolved(u, r)
BY SameCandidates DEF Resolved, TheOnly

LEMMA SameMeanings ==
  ASSUME Trusted, Trusted', SameDocuments, NEW u \in Indexed
  PROVE  Meanings(u)' = Meanings(u)
<1>1. References(u)' = References(u)
  BY AnalysisOf, SameAnalysis
<1>2. \A r \in References(u) : Candidates(u, r)' = Candidates(u, r)
  BY SameCandidates
<1>3. Meanings(u)' = {<<r.at, Candidates(u, r)'>> : r \in References(u)'}
  BY DEF Meanings
<1> QED BY <1>1, <1>2, <1>3 DEF Meanings

(* The lists of references, at any place.                                   *)
LEMMA SameTargetAt ==
  ASSUME Trusted, Trusted', SameDocuments, NEW u \in Indexed, NEW at
  PROVE  TargetAt(u, at)' = TargetAt(u, at)
<1> DEFINE There == {s \in References(u) : s.at = at}
<1>1. Definitions(u)' = Definitions(u) /\ References(u)' = References(u)
  BY AnalysisOf, SameAnalysis
<1>2. \A r \in There : Resolved(u, r)' = Resolved(u, r)
  BY SameResolved
<1>3. There' = There
  BY <1>1
<1>4. Locations(u, {d \in Definitions(u) : d.at = at})'
        = Locations(u, {d \in Definitions(u) : d.at = at})
  BY <1>1 DEF Locations
<1>5. TargetAt(u, at)' = Locations(u, {d \in Definitions(u) : d.at = at})'
                           \cup UNION {Resolved(u, r)' : r \in There'}
  BY DEF TargetAt
<1>6. TargetAt(u, at) = Locations(u, {d \in Definitions(u) : d.at = at})
                          \cup UNION {Resolved(u, r) : r \in There}
  BY DEF TargetAt
<1> HIDE DEF There
<1> QED BY <1>2, <1>3, <1>4, <1>5, <1>6

LEMMA SameReferencesTo ==
  ASSUME Trusted, Trusted', SameDocuments, NEW l
  PROVE  ReferencesTo(l)' = ReferencesTo(l)
<1> DEFINE Found(u) == Locations(u, {r \in References(u) : Resolved(u, r) = {l}})
<1>1. Indexed' = Indexed
  BY SameFiles
<1>2. ASSUME NEW u \in Indexed PROVE Found(u)' = Found(u)
  <2>1. References(u)' = References(u)
    BY AnalysisOf, SameAnalysis
  <2>2. \A r \in References(u) : Resolved(u, r)' = Resolved(u, r)
    BY SameResolved
  <2>3. {r \in References(u) : Resolved(u, r) = {l}}' = {r \in References(u) : Resolved(u, r) = {l}}
    BY <2>1, <2>2
  <2> QED BY <2>3 DEF Locations
<1>3. ReferencesTo(l) = UNION {Found(u) : u \in Indexed}
  BY DEF ReferencesTo
<1>4. ReferencesTo(l)' = UNION {Found(u)' : u \in Indexed'}
  BY DEF ReferencesTo
<1> HIDE DEF Found
<1> QED BY <1>1, <1>2, <1>3, <1>4

LEMMA SameReferencesAt ==
  ASSUME Trusted, Trusted', SameDocuments, NEW u \in Indexed, NEW at
  PROVE  ReferencesAt(u, at)' = ReferencesAt(u, at)
<1>1. TargetAt(u, at)' = TargetAt(u, at)
  BY SameTargetAt
<1>2. \A l : ReferencesTo(l)' = ReferencesTo(l)
  BY SameReferencesTo
<1>3. ReferencesAt(u, at)' = UNION {ReferencesTo(l)' : l \in TargetAt(u, at)'}
  BY DEF ReferencesAt
<1> QED BY <1>1, <1>2, <1>3 DEF ReferencesAt

LEMMA SameLists ==
  ASSUME Trusted, Trusted', SameDocuments, NEW u \in Indexed
  PROVE  Lists(u)' = Lists(u)
<1>1. (Definitions(u) \cup References(u))' = Definitions(u) \cup References(u)
  BY AnalysisOf, SameAnalysis
<1>2. \A at : TargetAt(u, at)' = TargetAt(u, at) /\ ReferencesAt(u, at)' = ReferencesAt(u, at)
  BY SameTargetAt, SameReferencesAt
<1>3. Lists(u)' = {<<n.at, TargetAt(u, n.at)', ReferencesAt(u, n.at)'>> :
                     n \in (Definitions(u) \cup References(u))'}
  BY DEF Lists
<1> QED BY <1>1, <1>2, <1>3 DEF Lists

(* What is offered, at any cursor.                                          *)
LEMMA SameOfferedLoaded ==
  ASSUME Trusted, Trusted', SameDocuments, NEW u \in Indexed, NEW kind, NEW c
  PROVE  OfferedLoaded(u, kind, c)' = OfferedLoaded(u, kind, c)
<1> DEFINE Blocks == UNION {Resolved(u, load) : load \in LoadsAround(u, c)}
           Has(b) == Items(b.uri, {d \in Definitions(b.uri) : d.kind = kind /\ Contains(d.scope, b.at)})
<1>1. LoadsAround(u, c)' = LoadsAround(u, c) /\ LoadsAround(u, c) \subseteq References(u)
  BY AnalysisOf, SameAnalysis DEF LoadsAround, InOwner, SameOwner
<1>2. \A load \in LoadsAround(u, c) : Resolved(u, load)' = Resolved(u, load)
  BY <1>1, SameResolved
<1>3. Blocks' = Blocks
  <2>1. Blocks' = UNION {Resolved(u, load)' : load \in LoadsAround(u, c)'}
    OBVIOUS
  <2> QED BY <1>1, <1>2, <2>1
<1>4. ASSUME NEW b \in Blocks PROVE Has(b)' = Has(b)
  <2>1. PICK load \in References(u) : b \in Resolved(u, load)
    BY <1>1
  <2>2. b.uri \in Uri
    BY <2>1, ResolvedIsDefinition, AnalysisOf DEF IsDefinition
  <2>3. Definitions(b.uri)' = Definitions(b.uri)
    BY <2>2, SameAnalysis
  <2> QED BY <2>3 DEF Items
<1>5. OfferedLoaded(u, kind, c) = UNION {Has(b) : b \in Blocks}
  BY DEF OfferedLoaded
<1>6. OfferedLoaded(u, kind, c)' = UNION {Has(b)' : b \in Blocks'}
  BY DEF OfferedLoaded
<1> HIDE DEF Blocks, Has
<1> QED BY <1>3, <1>4, <1>5, <1>6

LEMMA SameOfferedHere ==
  ASSUME Trusted, Trusted', SameDocuments, NEW u \in Indexed, NEW kind, NEW c
  PROVE  OfferedHere(u, kind, c)' = OfferedHere(u, kind, c)
<1>1. Definitions(u)' = Definitions(u)
  BY AnalysisOf, SameAnalysis
<1>2. OfferedVariables(u, c)' = OfferedVariables(u, c)
  BY <1>1 DEF OfferedVariables
<1> QED BY <1>1, <1>2 DEF OfferedHere

LEMMA SameOffered ==
  ASSUME Trusted, Trusted', SameDocuments, NEW u \in Indexed, NEW kind, NEW c
  PROVE  Offered(u, kind, c)' = Offered(u, kind, c)
<1> DEFINE OfKind(v) == Items(v, {d \in Definitions(v) : d.kind = kind})
<1>1. OfferedHere(u, kind, c)' = OfferedHere(u, kind, c)
  BY SameOfferedHere
<1>2. OfferedLoaded(u, kind, c)' = OfferedLoaded(u, kind, c)
  BY SameOfferedLoaded
<1>3. (UNION {OfKind(v) : v \in Indexed})' = UNION {OfKind(v) : v \in Indexed}
  <2>1. Indexed' = Indexed
    BY SameFiles
  <2>2. ASSUME NEW v \in Indexed PROVE OfKind(v)' = OfKind(v)
    <3>1. Definitions(v)' = Definitions(v)
      BY AnalysisOf, SameAnalysis
    <3> QED BY <3>1 DEF Items
  <2>3. (UNION {OfKind(v) : v \in Indexed})' = UNION {OfKind(v)' : v \in Indexed'}
    OBVIOUS
  <2> HIDE DEF OfKind
  <2> QED BY <2>1, <2>2, <2>3
<1> QED BY <1>1, <1>2, <1>3 DEF Offered

LEMMA SameOffers ==
  ASSUME Trusted, Trusted', SameDocuments, NEW u \in Indexed
  PROVE  Offers(u)' = Offers(u)
<1>1. Contexts[Document(u)]' = Contexts[Document(u)]
  BY AnalysisOf DEF SameDocuments
<1>2. \A c, kind : Offered(u, kind, c)' = Offered(u, kind, c)
  BY SameOffered
<1>3. Offers(u)' = {<<c, kind, Offered(u, kind, c)'>> :
                      c \in Contexts[Document(u)]', kind \in DefinitionKind}
  BY DEF Offers
<1> QED BY <1>1, <1>2, <1>3 DEF Offers

(* Answers depend on what the files say and on nothing else: opening a file *)
(* under another spelling, or closing it saved, changes none of them        *)
(* (index.go, Overlay and RemoveOverlay), be they definitions, lists of     *)
(* references, diagnostics or completions.                                  *)
THEOREM AnswersFollowContents ==
  ASSUME NoCaseCollisions
  PROVE  Spec => SameContentsSameAnswers
<1>1. ASSUME Trusted, Trusted', SameDocuments PROVE Answers' = Answers
  <2>1. Indexed' = Indexed
    BY <1>1, SameFiles
  <2>2. \A u \in Indexed :
          /\ Meanings(u)' = Meanings(u) /\ Lists(u)' = Lists(u)
          /\ Diagnostics(u)' = Diagnostics(u) /\ Offers(u)' = Offers(u)
    BY <1>1, SameMeanings, SameLists, SameDiagnostics, SameOffers
  <2>3. Answers' = {<<u, Meanings(u)', Lists(u)', Diagnostics(u)', Offers(u)'>> : u \in Indexed'}
    BY DEF Answers
  <2> QED BY <2>1, <2>2, <2>3 DEF Answers
<1>2. /\ Trusted /\ Trusted' /\ NothingBeforeLoad /\ [Next]_vars
      => [revision' # revision /\ Contents' = Contents => Answers' = Answers]_vars
  BY <1>1, StepKeepsDocuments
<1> QED BY <1>2, TrustedAlways, NothingBeforeLoadAlways, PTL DEF Spec, SameContentsSameAnswers
=============================================================================
