--------------------------- MODULE ResourceManager ---------------------------
(***************************************************************************)
(* cube::resource: managers that own shared resources (textures, shaders,  *)
(* materials, surfaces...), give each one an id, and remember which file a *)
(* loaded resource came from.                                              *)
(*                                                                         *)
(* A std::map or boost::bimap is the set of its pairs.  A path is a pair   *)
(* <<directory, name>>; the directory of a relative path is NoDir.         *)
(* shared_ptr counts are kept as what they decide: `held' is the set of    *)
(* resources some client still holds a pointer to, PartsOf[r] those r itself *)
(* holds (the textures of a material).                                     *)
(***************************************************************************)
EXTENDS Integers, Sequences, SequencesExt, FiniteSets

CONSTANTS Managers, Resources, Dirs, Names,
          NoManager, NoDir,
          Files,     \* the regular files: a set of <<directory, name>>
          PartsOf,     \* the resources a resource holds pointers to
          MaxId,     \* numeric_limits<id_type>::max()
          MaxDirs    \* bound: directories added to one manager

ASSUME Distinct == NoManager \notin Managers /\ NoDir \notin Dirs
ASSUME FilesAssumption == Files \subseteq Dirs \X Names
\* Materials hold textures; what they hold (textures) holds nothing.
ASSUME PartsAssumption ==
    /\ PartsOf \in [Resources -> SUBSET Resources]
    /\ \A r \in Resources : \A p \in PartsOf[r] : PartsOf[p] = {}
ASSUME MaxIdAssumption == MaxId \in Nat

VARIABLES
    managers,   \* managers not yet destroyed
    dirs,       \* dirs[m]: Impl::paths, the search path
    resources,  \* resources[m]: Impl::resources, pairs <<id, resource>>
    byPath,     \* byPath[m]: Impl::by_path, pairs <<path, id>>
    currentId,  \* next_id()'s static counter
    id,         \* id[r]: Resource::_id, 0 when not managed
    manager,    \* manager[r]: Resource::_manager
    live,       \* resource objects that exist
    held,       \* resources some client holds a shared_ptr to
    source,     \* source[r]: the file r was constructed from, or <<>>
    loadId      \* loadId[r]: the id under which load() remembered r, or 0

resourceVars == <<managers, dirs, resources, byPath, currentId, id, manager, live, held,
          source, loadId>>

Ids == 1..MaxId
Paths == (Dirs \cup {NoDir}) \X Names
IsAbsolute(p) == p[1] # NoDir

ResourcesInit ==
    /\ managers = Managers
    /\ dirs = [m \in Managers |-> <<>>]
    /\ resources = [m \in Managers |-> {}]
    /\ byPath = [m \in Managers |-> {}]
    /\ currentId = 0
    /\ id = [r \in Resources |-> 0]
    /\ manager = [r \in Resources |-> NoManager]
    /\ live = {}
    /\ held = {}
    /\ source = [r \in Resources |-> <<>>]
    /\ loadId = [r \in Resources |-> 0]
-----------------------------------------------------------------------------
(* Helpers *)

\* Pairs of a map without those of one id.
EraseId(pairs, i) == {q \in pairs : q[1] # i}
\* by_path.right.erase, for a set of ids.
\* Fault: the path of an erased resource stays behind.
EraseRight_Kept(pairs, is) == pairs
EraseRight(pairs, is) == {q \in pairs : q[2] \notin is}

\* bimap::insert: nothing happens when either side is taken.
BimapInsert(pairs, p, i) ==
    IF \E q \in pairs : q[1] = p \/ q[2] = i THEN pairs ELSE pairs \cup {<<p, i>>}

\* Manager::find over the search path: the first directory with that file;
\* empty when it throws.
Found(m, p) ==
    IF IsAbsolute(p) THEN {p} \cap Files
    ELSE LET hits == {k \in DOMAIN dirs[m] : <<dirs[m][k], p[2]>> \in Files}
         IN {<<dirs[m][k], p[2]>> : k \in {k \in hits : \A j \in hits : k <= j}}

\* by_path.left.find
Lookup(m, p) == {q[2] : q \in {q \in byPath[m] : q[1] = p}}

\* shared_ptr: what exists when `owners' (managers' pairs) and `clients' hold
\* pointers.
Survivors(owners, clients) ==
    LET roots == clients \cup UNION {{q[2] : q \in owners[m]} : m \in Managers}
    IN roots \cup UNION {PartsOf[r] : r \in roots}

\* The fields of the objects that exist after the step; `none' for the others.
OfLive(f, none) == [r \in Resources |-> IF r \in live' THEN f[r] ELSE none]

\* next_id(): a counter shared by all managers; it asserts before it overflows.
NextId(c) == c + 1
HasNextId(c) == c # MaxId

\* Resource::manage(Manager&, id): a resource that has a manager is first
\* forgotten by it.
\* Fault: the previous manager is not told.
Released_NotTold(r) == resources
Released(r) ==
    IF manager[r] = NoManager THEN resources
    ELSE [resources EXCEPT ![manager[r]] = EraseId(@, id[r])]
PathsReleased(r) ==
    IF manager[r] = NoManager THEN byPath
    ELSE [byPath EXCEPT ![manager[r]] = EraseRight(@, {id[r]})]

Create(r, src) ==
    /\ r \notin live
    /\ PartsOf[r] \subseteq live
    /\ source' = [source EXCEPT ![r] = src]

\* Manager::_manage(ResourcePtr), for a resource that is live (or just created)
\* and that the caller holds.  The failing insert ("Couldn't store the
\* resource") is left out: UniqueIds shows the id is never taken.
Manages(m, r, i) ==
    /\ HasNextId(currentId)
    /\ currentId' = i
    /\ resources' = [Released(r) EXCEPT ![m] = @ \cup {<<i, r>>}]
    /\ manager' = [manager EXCEPT ![r] = m]
    /\ id' = [id EXCEPT ![r] = i]
    /\ held' = held \cup {r}
    /\ live' = live \cup {r}
-----------------------------------------------------------------------------
(* Operations *)

AddPath(m, d) ==
    /\ m \in managers
    /\ Len(dirs[m]) < MaxDirs
    /\ dirs' = [dirs EXCEPT ![m] = Append(@, d)]
    /\ UNCHANGED <<managers, resources, byPath, currentId, id, manager, live, held,
                   source, loadId>>

\* A client builds a resource that no manager knows.
NewResource(r) ==
    /\ Create(r, <<>>)
    /\ live' = live \cup {r}
    /\ held' = held \cup {r}
    /\ UNCHANGED <<managers, dirs, resources, byPath, currentId, id, manager, loadId>>

\* The last client's shared_ptr goes away.
Drop(r) ==
    /\ r \in held
    /\ held' = held \ {r}
    /\ live' = Survivors(resources, held')
    /\ source' = OfLive(source, <<>>)
    /\ loadId' = OfLive(loadId, 0)
    /\ UNCHANGED <<managers, dirs, resources, byPath, currentId, id, manager>>

\* Manager::manage(resource), from any state of the resource.
Manage(m, r) ==
    /\ m \in managers
    /\ r \in held
    /\ Manages(m, r, NextId(currentId))
    /\ byPath' = PathsReleased(r)
    /\ UNCHANGED <<managers, dirs, source, loadId>>

\* Manager::forget; throws (no step) on a resource it does not manage.
Forget(m, r) ==
    /\ m \in managers
    /\ r \in held
    /\ id[r] # 0
    /\ \E q \in resources[m] : q[1] = id[r]
    /\ resources' = [resources EXCEPT ![m] = EraseId(@, id[r])]
    /\ byPath' = [byPath EXCEPT ![m] = EraseRight(@, {id[r]})]
    /\ manager' = [manager EXCEPT ![r] = NoManager]
    /\ id' = [id EXCEPT ![r] = 0]
    /\ live' = Survivors(resources', held)
    /\ UNCHANGED <<managers, dirs, currentId, held, source, loadId>>

\* use_count() == 1: the manager's own pointer is the only one left.
UsedElsewhere(r) == r \in held \/ \E s \in live : r \in PartsOf[s]
Unused(m) == {q \in resources[m] : ~ UsedElsewhere(q[2])}

Flush(m) ==
    /\ m \in managers
    /\ resources' = [resources EXCEPT ![m] = @ \ Unused(m)]
    /\ byPath' = [byPath EXCEPT ![m] = EraseRight(@, {q[1] : q \in Unused(m)})]
    /\ live' = Survivors(resources', held)
    /\ id' = OfLive(id, 0)
    /\ manager' = OfLive(manager, NoManager)
    /\ source' = OfLive(source, <<>>)
    /\ loadId' = OfLive(loadId, 0)
    /\ UNCHANGED <<managers, dirs, currentId, held>>

\* Manager::load (C++), when the file is remembered: another pointer to it.
LoadHit(m, p) ==
    /\ m \in managers
    /\ \E a \in Found(m, p) : \E i \in Lookup(m, a) : \E q \in resources[m] :
          /\ q[1] = i
          /\ held' = held \cup {q[2]}
    /\ UNCHANGED <<managers, dirs, resources, byPath, currentId, id, manager, live,
                   source, loadId>>

\* The key under which load() looks for, and then remembers, the found file.
\* Fault: looks the request up as it was given.
CacheKey_AsGiven(a, p) == p
CacheKey(a, p) == a

\* The id under which load() remembers the file: create() has numbered r.
RememberedAs(r) == id'[r]

\* Manager::load (C++), otherwise: create, manage, _set_loaded.
LoadMiss(m, p, r) ==
    /\ m \in managers
    /\ \E a \in Found(m, p) :
          /\ Lookup(m, CacheKey(a, p)) = {}
          /\ Create(r, a)
          /\ Manages(m, r, NextId(currentId))
          /\ byPath' = [byPath EXCEPT ![m] = BimapInsert(@, a, RememberedAs(r))]
          /\ loadId' = [loadId EXCEPT ![r] = id'[r]]
    /\ UNCHANGED <<managers, dirs>>

\* The Python load on a miss: set_loaded remembers the path it was given, not
\* the one find() returned.
PyLoadMiss(m, p, r) ==
    /\ m \in managers
    /\ \E a \in Found(m, p) :
          /\ Lookup(m, a) = {}
          /\ Create(r, a)
          /\ Manages(m, r, NextId(currentId))
          /\ byPath' = [byPath EXCEPT ![m] = BimapInsert(@, p, id'[r])]
          /\ loadId' = [loadId EXCEPT ![r] = 0]
    /\ UNCHANGED <<managers, dirs>>

\* ~Manager: every resource is told; those nobody else holds are destroyed.
Destroy(m) ==
    /\ m \in managers
    /\ managers' = managers \ {m}
    /\ LET owned == {q[2] : q \in resources[m]}
       IN /\ id' = [r \in Resources |-> IF r \in owned THEN 0 ELSE id[r]]
          /\ manager' = [r \in Resources |->
                           IF r \in owned THEN NoManager ELSE manager[r]]
    /\ resources' = [resources EXCEPT ![m] = {}]
    /\ byPath' = [byPath EXCEPT ![m] = {}]
    /\ live' = Survivors(resources', held)
    /\ source' = OfLive(source, <<>>)
    /\ loadId' = OfLive(loadId, 0)
    /\ dirs' = [dirs EXCEPT ![m] = <<>>]
    /\ UNCHANGED <<currentId, held>>

ResourcesNext ==
    \/ \E m \in Managers, d \in Dirs : AddPath(m, d)
    \/ \E r \in Resources : NewResource(r) \/ Drop(r)
    \/ \E m \in Managers, r \in Resources : Manage(m, r) \/ Forget(m, r)
    \/ \E m \in Managers : Flush(m) \/ Destroy(m)
    \/ \E m \in Managers, p \in Paths :
          \/ LoadHit(m, p)
          \/ \E r \in Resources : LoadMiss(m, p, r) \/ PyLoadMiss(m, p, r)

ResourcesSpec == ResourcesInit /\ [][ResourcesNext]_resourceVars
-----------------------------------------------------------------------------
(* Correctness *)

ResourcesTypeOK ==
    /\ managers \in SUBSET Managers
    /\ dirs \in [Managers -> Seq(Dirs)]
    /\ resources \in [Managers -> SUBSET (Ids \X Resources)]
    /\ byPath \in [Managers -> SUBSET (Paths \X Ids)]
    /\ currentId \in 0..MaxId
    /\ id \in [Resources -> 0..MaxId]
    /\ manager \in [Resources -> Managers \cup {NoManager}]
    /\ live \in SUBSET Resources
    /\ held \in SUBSET live
    /\ source \in [Resources -> {<<>>} \cup Files]
    /\ loadId \in [Resources -> 0..MaxId]

\* A resource and the managers agree: a resource that says it has an id is in
\* the map of exactly the manager it names, under that id, and that manager
\* still exists; a map holds only such resources (Manager.cpp:165-188,
\* Resource.cpp:12-30).
OneOwner ==
    /\ \A m \in Managers : \A q \in resources[m] :
          /\ m \in managers
          /\ q[2] \in live
          /\ manager[q[2]] = m
          /\ id[q[2]] = q[1]
    /\ \A r \in live :
          \/ id[r] = 0 /\ manager[r] = NoManager
          \/ /\ manager[r] \in managers
             /\ <<id[r], r>> \in resources[manager[r]]

\* Every remembered path leads to a resource, so that get() and load() never
\* create an empty entry with operator[] (Manager.cpp:120, 130).
PathsResolve ==
    \A m \in Managers : \A k \in byPath[m] : \E q \in resources[m] : q[1] = k[2]

\* A hit of load() is the resource made from that very file, whatever was
\* managed, moved, forgotten and flushed since (Manager.hpp:41-49).
CacheTellsTruth ==
    \A m \in Managers : \A k \in byPath[m] : \A q \in resources[m] :
        IsAbsolute(k[1]) /\ q[1] = k[2] => source[q[2]] = k[1]

\* "id are garanteed to be unique between managers" (Manager.cpp:26-27).
UniqueIds ==
    \A m, n \in Managers : \A q \in resources[m], t \in resources[n] :
        q[1] = t[1] => m = n /\ q[2] = t[2]

\* The three maps of the managers agree with the resources.
OwnersAgree == ResourcesTypeOK /\ OneOwner /\ UniqueIds
CacheIsTrue == PathsResolve /\ CacheTellsTruth
ManagersAreTrue == OwnersAgree /\ CacheIsTrue

\* Resources of one manager that load() made from one file, and that were not
\* managed anew since.
SameFile(r, s) ==
    /\ id[r] # 0 /\ loadId[r] = id[r] /\ loadId[s] = id[s]
    /\ manager[r] = manager[s] /\ source[r] = source[s]

\* A remembered file stays remembered, for the same resource, as long as that
\* resource keeps its id: only forget, manage, flush and ~Manager lose it.
StaysCached ==
    [][\A m \in Managers : \A k \in byPath[m] :
          k \in byPath'[m] \/ \A r \in live : id[r] = k[2] => id'[r] # k[2]]_resourceVars

\* A file is loaded once for as long as its resource is managed (load(), flush()).
OneLoadPerFile == [](\A r, s \in live : SameFile(r, s) => r = s) /\ StaysCached
=============================================================================
