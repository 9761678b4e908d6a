--------------------------- MODULE ResourceProofs ---------------------------
(* Proofs about ResourceManager and Meshes.                                  *)
(* ResourceManager, for any set of managers, resources, files and paths: the  *)
(* inductive invariant is ManagersAreTrue with what makes it one: what exists *)
(* is what somebody points to, what does not exist is unmanaged, ids only     *)
(* grow, and a path and an id are remembered once.                            *)
(* Meshes, for any files and any number of elements: what the indices of a    *)
(* mode lead to is what was appended in it; a mesh that is loaded has the     *)
(* corners of its faces so far; and the nodes that are loaded are whole while *)
(* the calls to come are about the others, each with what was made of its     *)
(* parent.                                                                    *)
EXTENDS ResourceManager, Meshes, SequenceLemmas, TLAPS

\* What exists is what the managers and the clients point to.
LiveAreHeld == live = Survivors(resources, held)

DeadAreBlank ==
    \A r \in Resources \ live :
        id[r] = 0 /\ manager[r] = NoManager /\ source[r] = <<>> /\ loadId[r] = 0

\* next_id() has given every id there is.
IdsAreGiven ==
    /\ \A m \in Managers : \A q \in resources[m] : q[1] <= currentId
    /\ \A r \in Resources : loadId[r] <= currentId

\* The left side of the bimap.
OneIdPerPath ==
    \A m \in Managers : \A k, l \in byPath[m] : k[1] = l[1] => k = l

\* A file that load() gave to a resource leads to it.
Remembered ==
    \A r \in Resources :
        loadId[r] # 0 /\ loadId[r] = id[r] => <<source[r], id[r]>> \in byPath[manager[r]]

IInv ==
    /\ ResourcesTypeOK /\ OneOwner /\ UniqueIds /\ IdsAreGiven
    /\ LiveAreHeld /\ DeadAreBlank
    /\ PathsResolve /\ CacheTellsTruth /\ OneIdPerPath /\ Remembered

-----------------------------------------------------------------------------
(* Facts of a state.                                                        *)

\* Who survives: the roots and what they hold.
LEMMA SurvivorsFact ==
    ASSUME NEW owners \in [Managers -> SUBSET (Ids \X Resources)],
           NEW clients \in SUBSET Resources
    PROVE  /\ Survivors(owners, clients) \in SUBSET Resources
           /\ clients \subseteq Survivors(owners, clients)
           /\ \A m \in Managers : \A q \in owners[m] : q[2] \in Survivors(owners, clients)
           /\ \A r \in Survivors(owners, clients) :
                 \/ r \in clients
                 \/ \E m \in Managers : \E q \in owners[m] : q[2] = r
                 \/ \E s \in Survivors(owners, clients) : r \in PartsOf[s]
           /\ \A r \in Survivors(owners, clients) : PartsOf[r] \subseteq Survivors(owners, clients)
<1> DEFINE roots == clients \cup UNION {{q[2] : q \in owners[m]} : m \in Managers}
<1>1. roots \in SUBSET Resources
  <2>1. ASSUME NEW m \in Managers, NEW q \in owners[m]
        PROVE  q[2] \in Resources
      <3>1. q \in Ids \X Resources
          OBVIOUS
      <3> QED
          BY <3>1
  <2> QED
      BY <2>1
<1>2. \A m \in Managers : \A q \in owners[m] : q[2] \in roots
    OBVIOUS
<1>3. Survivors(owners, clients) = roots \cup UNION {PartsOf[r] : r \in roots}
    BY DEF Survivors
<1>4. \A r \in roots : r \in clients \/ \E m \in Managers : \E q \in owners[m] : q[2] = r
    OBVIOUS
<1> HIDE DEF roots
<1>5. clients \subseteq roots
    BY DEF roots
<1> QED
    BY <1>1, <1>2, <1>3, <1>4, <1>5, PartsAssumption

\* A resource with an id is in the map of its manager, no other has that id.
LEMMA OwnerFact ==
    ASSUME ResourcesTypeOK, OneOwner, UniqueIds, DeadAreBlank
    PROVE  /\ \A r \in Resources : id[r] # 0 \/ manager[r] # NoManager =>
                /\ r \in live /\ id[r] # 0 /\ manager[r] \in managers
                /\ manager[r] \in Managers
                /\ <<id[r], r>> \in resources[manager[r]]
           /\ \A r, s \in Resources : id[r] = id[s] /\ id[r] # 0 => r = s
           /\ \A m \in Managers : \A q \in resources[m] :
                /\ q[1] \in Ids /\ q[2] \in Resources /\ q = <<q[1], q[2]>>
                /\ q[1] = id[q[2]] /\ m = manager[q[2]] /\ m \in managers /\ q[2] \in live
<1>1. ASSUME NEW m \in Managers, NEW q \in resources[m]
      PROVE  /\ q[1] \in Ids /\ q[2] \in Resources /\ q = <<q[1], q[2]>>
             /\ q[1] = id[q[2]] /\ m = manager[q[2]] /\ m \in managers /\ q[2] \in live
  <2>1. q \in Ids \X Resources
      BY DEF ResourcesTypeOK
  <2> QED
      BY <2>1 DEF OneOwner
<1>2. ASSUME NEW r \in Resources, id[r] # 0 \/ manager[r] # NoManager
      PROVE  /\ r \in live /\ id[r] # 0 /\ manager[r] \in managers
             /\ manager[r] \in Managers
             /\ <<id[r], r>> \in resources[manager[r]]
  <2>1. r \in live
      BY <1>2 DEF DeadAreBlank
  <2>2. manager[r] \in managers /\ <<id[r], r>> \in resources[manager[r]]
      BY <2>1, <1>2 DEF OneOwner
  <2>3. manager[r] \in Managers
      BY <2>2 DEF ResourcesTypeOK
  <2>4. <<id[r], r>>[1] \in Ids
      BY <2>2, <2>3, <1>1
  <2> QED
      BY <2>1, <2>2, <2>3, <2>4 DEF Ids
<1>3. ASSUME NEW r \in Resources, NEW s \in Resources, id[r] = id[s], id[r] # 0
      PROVE  r = s
  <2>1. /\ <<id[r], r>> \in resources[manager[r]] /\ manager[r] \in Managers
        /\ <<id[s], s>> \in resources[manager[s]] /\ manager[s] \in Managers
      BY <1>2, <1>3
  <2>2. <<id[r], r>>[2] = <<id[s], s>>[2]
      BY <2>1, <1>3 DEF UniqueIds
  <2> QED
      BY <2>2
<1> QED
    BY <1>1, <1>2, <1>3
-----------------------------------------------------------------------------
(* manage()                                                                 *)

\* What _manage does to the maps: the resource leaves the map it was in and
\* enters the one of its new manager, under an id that nobody has.
LEMMA ManagesMaps ==
    ASSUME IInv, NEW m \in Managers, NEW r \in Resources,
           Manages(m, r, NextId(currentId)), m \in managers
    PROVE  /\ NextId(currentId) = currentId + 1 /\ currentId + 1 \in Ids
           /\ currentId' = currentId + 1
           /\ \A s \in Resources : id[s] <= currentId
           /\ resources' \in [Managers -> SUBSET (Ids \X Resources)]
           /\ id' \in [Resources -> 0..MaxId]
           /\ manager' \in [Resources -> Managers \cup {NoManager}]
           /\ \A s \in Resources : /\ id'[s] = IF s = r THEN currentId + 1 ELSE id[s]
                                   /\ manager'[s] = IF s = r THEN m ELSE manager[s]
           /\ \A n \in Managers : resources'[n] =
                {q \in resources[n] : q[2] # r}
                    \cup (IF n = m THEN {<<currentId + 1, r>>} ELSE {})
<1>1. /\ NextId(currentId) = currentId + 1 /\ currentId + 1 \in Ids
      /\ currentId' = currentId + 1
    BY MaxIdAssumption DEF Manages, HasNextId, NextId, IInv, ResourcesTypeOK, Ids
<1>2. /\ id' \in [Resources -> 0..MaxId]
      /\ manager' \in [Resources -> Managers \cup {NoManager}]
      /\ \A s \in Resources : /\ id'[s] = IF s = r THEN currentId + 1 ELSE id[s]
                              /\ manager'[s] = IF s = r THEN m ELSE manager[s]
    BY <1>1 DEF Manages, IInv, ResourcesTypeOK, Ids
<1>3. ASSUME NEW s \in Resources
      PROVE  id[s] <= currentId
  <2>1. CASE id[s] = 0
      BY <2>1 DEF IInv, ResourcesTypeOK
  <2>2. CASE id[s] # 0
    <3>1. <<id[s], s>> \in resources[manager[s]] /\ manager[s] \in Managers
        BY <2>2, OwnerFact DEF IInv
    <3> QED
        BY <3>1 DEF IInv, IdsAreGiven
  <2> QED
      BY <2>1, <2>2
<1>4. ASSUME NEW n \in Managers
      PROVE  Released(r)[n] = {q \in resources[n] : q[2] # r}
  <2>1. CASE manager[r] = NoManager
    <3>1. \A q \in resources[n] : q[2] # r
        BY <2>1, OwnerFact, Distinct DEF IInv
    <3> QED
        BY <2>1, <3>1 DEF Released
  <2>2. CASE manager[r] # NoManager /\ manager[r] # n
    <3>1. \A q \in resources[n] : q[2] # r
        BY <2>2, OwnerFact DEF IInv
    <3> QED
        BY <2>2, <3>1 DEF Released, IInv, ResourcesTypeOK
  <2>3. CASE manager[r] # NoManager /\ manager[r] = n
    <3>1. \A q \in resources[n] : q[1] = id[r] <=> q[2] = r
      <4>1. id[r] # 0 /\ <<id[r], r>> \in resources[n]
          BY <2>3, OwnerFact DEF IInv
      <4> QED
          BY <4>1, OwnerFact DEF IInv
    <3> QED
        BY <2>3, <3>1 DEF Released, EraseId, IInv, ResourcesTypeOK
  <2> QED
      BY <2>1, <2>2, <2>3
<1>5. Released(r) \in [Managers -> SUBSET (Ids \X Resources)]
    BY DEF Released, EraseId, IInv, ResourcesTypeOK
<1>6. resources' = [Released(r) EXCEPT ![m] = @ \cup {<<currentId + 1, r>>}]
    BY <1>1 DEF Manages
<1>7. resources' \in [Managers -> SUBSET (Ids \X Resources)]
    BY <1>1, <1>5, <1>6
<1>8. \A n \in Managers : resources'[n] =
                {q \in resources[n] : q[2] # r}
                    \cup (IF n = m THEN {<<currentId + 1, r>>} ELSE {})
    BY <1>4, <1>5, <1>6
<1> QED
    BY <1>1, <1>2, <1>3, <1>7, <1>8

LEMMA ManagesInvariant ==
    ASSUME IInv, NEW m \in Managers, NEW r \in Resources,
           Manages(m, r, NextId(currentId)), m \in managers, managers' = managers,
           r \in held \/ (r \notin live /\ PartsOf[r] \subseteq live)
    PROVE  OneOwner' /\ UniqueIds' /\ LiveAreHeld' /\ held' \in SUBSET live' /\ live' \in SUBSET Resources
<1> DEFINE i == currentId + 1
<1>1. /\ i \in Ids /\ currentId' = i
      /\ \A s \in Resources : id[s] <= currentId
      /\ resources' \in [Managers -> SUBSET (Ids \X Resources)]
      /\ \A s \in Resources : /\ id'[s] = IF s = r THEN i ELSE id[s]
                              /\ manager'[s] = IF s = r THEN m ELSE manager[s]
      /\ \A n \in Managers : resources'[n] =
           {q \in resources[n] : q[2] # r} \cup (IF n = m THEN {<<i, r>>} ELSE {})
      /\ currentId \in Nat /\ i > currentId
    BY ManagesMaps DEF IInv, ResourcesTypeOK
<1>2. held' = held \cup {r} /\ live' = live \cup {r}
    BY DEF Manages
<1>3. held' \in SUBSET live' /\ live' \in SUBSET Resources
    BY <1>2 DEF IInv, ResourcesTypeOK
<1> HIDE DEF i
<1>4. ASSUME NEW n \in Managers, NEW q \in resources'[n]
      PROVE  /\ n \in managers' /\ q[2] \in live' /\ manager'[q[2]] = n /\ id'[q[2]] = q[1]
             /\ q[2] \in Resources /\ q = <<q[1], q[2]>> /\ q[1] # 0
             /\ q = <<i, r>> \/ (q[2] # r /\ q[1] # i)
  <2>1. CASE n = m /\ q = <<i, r>>
      BY <1>1, <1>2, <2>1 DEF Ids
  <2>2. CASE q \in resources[n] /\ q[2] # r
    <3>1. /\ q[1] \in Ids /\ q[2] \in Resources /\ q = <<q[1], q[2]>>
          /\ q[1] = id[q[2]] /\ n = manager[q[2]] /\ n \in managers /\ q[2] \in live
        BY <2>2, OwnerFact DEF IInv
    <3> QED
        BY <1>1, <1>2, <2>2, <3>1 DEF Ids
  <2> QED
      BY <1>1, <2>1, <2>2
<1>5. ASSUME NEW s \in live'
      PROVE  \/ id'[s] = 0 /\ manager'[s] = NoManager
             \/ manager'[s] \in managers' /\ <<id'[s], s>> \in resources'[manager'[s]]
  <2>1. CASE s = r
      BY <1>1, <2>1
  <2>2. CASE s # r /\ s \in live /\ s \in Resources
    <3>1. CASE id[s] = 0 /\ manager[s] = NoManager
        BY <1>1, <2>2, <3>1
    <3>2. CASE manager[s] \in managers /\ <<id[s], s>> \in resources[manager[s]]
        BY <1>1, <2>2, <3>2 DEF IInv, ResourcesTypeOK
    <3> QED
        BY <2>2, <3>1, <3>2 DEF IInv, OneOwner
  <2> QED
      BY <1>2, <2>1, <2>2 DEF IInv, ResourcesTypeOK
<1>6. OneOwner'
    BY <1>4, <1>5 DEF OneOwner
<1>7. UniqueIds'
  <2> SUFFICES ASSUME NEW n1 \in Managers, NEW n2 \in Managers,
                      NEW q \in resources'[n1], NEW t \in resources'[n2], q[1] = t[1]
               PROVE  n1 = n2 /\ q[2] = t[2]
      BY DEF UniqueIds
  <2>1. manager'[q[2]] = n1 /\ manager'[t[2]] = n2
      BY <1>4
  <2>2. CASE q = <<i, r>>
      BY <1>4, <2>1, <2>2
  <2>3. CASE t = <<i, r>>
      BY <1>4, <2>1, <2>3
  <2>4. CASE q # <<i, r>> /\ t # <<i, r>>
    <3>1. q \in resources[n1] /\ t \in resources[n2]
        BY <1>1, <2>4
    <3> QED
        BY <3>1 DEF IInv, UniqueIds
  <2> QED
      BY <2>2, <2>3, <2>4
<1>8. LiveAreHeld'
  <2>1. live = Survivors(resources, held)
      BY DEF IInv, LiveAreHeld
  <2> DEFINE live2 == Survivors(resources', held')
  <2>2. live2 \subseteq live'
    <3>1. \A s \in held' : s \in live'
        BY <1>3
    <3>2. \A s \in live' : PartsOf[s] \subseteq live'
        BY <2>1, <1>2, SurvivorsFact DEF IInv, ResourcesTypeOK
    <3>3. \A n \in Managers : \A q \in resources'[n] : q[2] \in live'
        BY <1>4
    <3> QED
        BY <3>1, <3>2, <3>3 DEF Survivors
  <2>3. ASSUME NEW s \in live
        PROVE  s \in live2
    <3> DEFINE roots(owners, clients) == clients \cup UNION {{q[2] : q \in owners[n]} : n \in Managers}
    <3>1. roots(resources, held) \subseteq roots(resources', held')
      <4>1. ASSUME NEW n \in Managers, NEW q \in resources[n]
            PROVE  q[2] \in roots(resources', held')
          BY <1>1, <1>2
      <4> QED
          BY <4>1, <1>2
    <3> QED
        BY <2>1, <3>1 DEF Survivors
  <2>4. r \in live2
      BY <1>2, <1>1, <1>3, SurvivorsFact DEF IInv, ResourcesTypeOK
  <2> QED
      BY <1>2, <2>2, <2>3, <2>4 DEF LiveAreHeld
<1> QED
    BY <1>3, <1>6, <1>7, <1>8
\* What the steps that number a resource keep of the rest: its id is new to the
\* managers, to the paths and to loadId.
LEMMA ManageInvariant ==
    ASSUME IInv, NEW m \in Managers, NEW r \in Resources, Manage(m, r)
    PROVE  IInv'
<1> DEFINE i == currentId + 1
<1>1. /\ i \in Ids /\ currentId' = i
      /\ \A s \in Resources : id[s] <= currentId
      /\ resources' \in [Managers -> SUBSET (Ids \X Resources)]
      /\ id' \in [Resources -> 0..MaxId]
      /\ manager' \in [Resources -> Managers \cup {NoManager}]
      /\ \A s \in Resources : /\ id'[s] = IF s = r THEN i ELSE id[s]
                              /\ manager'[s] = IF s = r THEN m ELSE manager[s]
      /\ \A n \in Managers : resources'[n] =
           {q \in resources[n] : q[2] # r} \cup (IF n = m THEN {<<i, r>>} ELSE {})
      /\ currentId \in Nat /\ i > currentId /\ i \in 0..MaxId
    BY ManagesMaps DEF Manage, IInv, ResourcesTypeOK, Ids
<1>2. held' = held \cup {r} /\ live' = live \cup {r} /\ r \in live
    BY DEF Manage, Manages, IInv, ResourcesTypeOK
<1>3. OneOwner' /\ UniqueIds' /\ LiveAreHeld' /\ held' \in SUBSET live' /\ live' \in SUBSET Resources
    BY ManagesInvariant DEF Manage
<1>4. UNCHANGED <<managers, dirs, source, loadId>>
    BY DEF Manage
<1> HIDE DEF i
<1>5. /\ byPath' \in [Managers -> SUBSET (Paths \X Ids)]
      /\ \A n \in Managers : byPath'[n] = {k \in byPath[n] : k[2] # id[r]}
  <2>1. byPath' = PathsReleased(r)
      BY DEF Manage
  <2>2. ASSUME NEW n \in Managers, NEW k \in byPath[n], k[2] = id[r]
        PROVE  manager[r] = n
    <3>1. PICK q \in resources[n] : q[1] = k[2]
        BY DEF IInv, PathsResolve
    <3>2. q[1] \in Ids /\ q[1] = id[q[2]] /\ n = manager[q[2]] /\ q[2] \in Resources
        BY OwnerFact DEF IInv
    <3>3. id[r] = id[q[2]] /\ id[r] # 0
        BY <2>2, <3>1, <3>2 DEF Ids
    <3>4. r = q[2]
        BY <3>2, <3>3, OwnerFact DEF IInv
    <3> QED
        BY <3>2, <3>4
  <2>3. CASE manager[r] = NoManager
    <3>1. byPath' = byPath
        BY <2>1, <2>3 DEF PathsReleased
    <3>2. \A n \in Managers : \A k \in byPath[n] : k[2] # id[r]
        BY <2>2, <2>3, Distinct
    <3> QED
        BY <3>1, <3>2 DEF IInv, ResourcesTypeOK
  <2>4. CASE manager[r] # NoManager
    <3>1. byPath' = [byPath EXCEPT ![manager[r]] = {k \in @ : k[2] \notin {id[r]}}]
        BY <2>1, <2>4 DEF PathsReleased, EraseRight
    <3>2. byPath' \in [Managers -> SUBSET (Paths \X Ids)]
        BY <3>1 DEF IInv, ResourcesTypeOK
    <3>3. \A n \in Managers : byPath'[n] =
              IF n = manager[r] THEN {k \in byPath[n] : k[2] # id[r]} ELSE byPath[n]
        BY <3>1 DEF IInv, ResourcesTypeOK
    <3>4. \A n \in Managers \ {manager[r]} : \A k \in byPath[n] : k[2] # id[r]
        BY <2>2
    <3> QED
        BY <3>2, <3>3, <3>4
  <2> QED
      BY <2>3, <2>4
<1>6. ResourcesTypeOK'
    BY <1>1, <1>3, <1>4, <1>5 DEF ResourcesTypeOK, IInv
<1>7. IdsAreGiven'
  <2>1. \A n \in Managers : \A q \in resources[n] : q[1] \in Ids /\ q[1] <= i
      BY <1>1, OwnerFact DEF IInv, IdsAreGiven, Ids
  <2>2. \A s \in Resources : loadId[s] <= i
      BY <1>1 DEF IInv, IdsAreGiven, ResourcesTypeOK
  <2> QED
      BY <1>1, <1>4, <2>1, <2>2 DEF IdsAreGiven, Ids
<1>8. DeadAreBlank'
    BY <1>1, <1>2, <1>4 DEF IInv, DeadAreBlank
<1>9. PathsResolve'
  <2> SUFFICES ASSUME NEW n \in Managers, NEW k \in byPath'[n]
               PROVE  \E q \in resources'[n] : q[1] = k[2]
      BY DEF PathsResolve
  <2>1. k \in byPath[n] /\ k[2] # id[r]
      BY <1>5
  <2>2. PICK q \in resources[n] : q[1] = k[2]
      BY <2>1 DEF IInv, PathsResolve
  <2>3. q[2] # r
      BY <2>1, <2>2, OwnerFact DEF IInv
  <2> QED
      BY <1>1, <2>2, <2>3
<1>10. CacheTellsTruth'
  <2> SUFFICES ASSUME NEW n \in Managers, NEW k \in byPath'[n], NEW q \in resources'[n],
                      IsAbsolute(k[1]), q[1] = k[2]
               PROVE  source[q[2]] = k[1]
      BY <1>4 DEF CacheTellsTruth
  <2>1. k \in byPath[n]
      BY <1>5
  <2>2. PICK t \in resources[n] : t[1] = k[2]
      BY <2>1 DEF IInv, PathsResolve
  <2>3. t[1] <= currentId /\ t[1] \in Ids
      BY <2>2, OwnerFact DEF IInv, IdsAreGiven
  <2>4. q # <<i, r>>
      BY <1>1, <2>2, <2>3 DEF Ids
  <2>5. q \in resources[n]
      BY <1>1, <2>4
  <2> QED
      BY <2>1, <2>5 DEF IInv, CacheTellsTruth
<1>11. OneIdPerPath'
    BY <1>5 DEF IInv, OneIdPerPath
<1>12. Remembered'
  <2> SUFFICES ASSUME NEW s \in Resources, loadId[s] # 0, loadId[s] = id'[s]
               PROVE  <<source[s], id'[s]>> \in byPath'[manager'[s]]
      BY <1>4 DEF Remembered
  <2>1. s # r
      BY <1>1 DEF IInv, IdsAreGiven, ResourcesTypeOK
  <2>2. id'[s] = id[s] /\ manager'[s] = manager[s] /\ id[s] # 0
      BY <1>1, <2>1
  <2>3. <<source[s], id[s]>> \in byPath[manager[s]] /\ manager[s] \in Managers
      BY <2>2, OwnerFact DEF IInv, Remembered
  <2>4. id[s] # id[r]
      BY <2>1, <2>2, OwnerFact DEF IInv
  <2> QED
      BY <1>5, <2>2, <2>3, <2>4
<1> QED
    BY <1>3, <1>6, <1>7, <1>8, <1>9, <1>10, <1>11, <1>12 DEF IInv
-----------------------------------------------------------------------------
(* load()                                                                   *)

LEMMA FoundFact ==
    ASSUME NEW m \in Managers, NEW p \in Paths
    PROVE  /\ Found(m, p) \subseteq Files /\ Files \subseteq Paths
           /\ IsAbsolute(p) => Found(m, p) \subseteq {p}
           /\ \A a \in Files : IsAbsolute(a)
    BY FilesAssumption, Distinct DEF Found, IsAbsolute, Paths

\* A resource made from a, numbered, and remembered under the path c: a itself
\* when C++ loads it, what was asked for when Python does.
LEMMA LoadInvariant ==
    ASSUME IInv, NEW m \in managers, NEW r \in Resources, NEW a \in Files, NEW c \in Paths,
           Create(r, a), Manages(m, r, NextId(currentId)),
           byPath' = [byPath EXCEPT ![m] = BimapInsert(@, c, id'[r])],
           IsAbsolute(c) => c = a,
           \/ loadId' = [loadId EXCEPT ![r] = 0]
           \/ /\ loadId' = [loadId EXCEPT ![r] = id'[r]]
              /\ c = a /\ Lookup(m, a) = {},
           UNCHANGED <<managers, dirs>>
    PROVE  IInv'
<1> DEFINE i == currentId + 1
<1>0. m \in Managers
    BY DEF IInv, ResourcesTypeOK
<1>1. /\ i \in Ids /\ currentId' = i
      /\ \A s \in Resources : id[s] <= currentId
      /\ resources' \in [Managers -> SUBSET (Ids \X Resources)]
      /\ id' \in [Resources -> 0..MaxId]
      /\ manager' \in [Resources -> Managers \cup {NoManager}]
      /\ \A s \in Resources : /\ id'[s] = IF s = r THEN i ELSE id[s]
                              /\ manager'[s] = IF s = r THEN m ELSE manager[s]
      /\ \A n \in Managers : resources'[n] =
           {q \in resources[n] : q[2] # r} \cup (IF n = m THEN {<<i, r>>} ELSE {})
      /\ currentId \in Nat /\ i > currentId /\ i \in 0..MaxId
    BY <1>0, ManagesMaps DEF IInv, ResourcesTypeOK, Ids
<1>2. /\ r \notin live /\ PartsOf[r] \subseteq live
      /\ source' \in [Resources -> {<<>>} \cup Files]
      /\ \A s \in Resources : source'[s] = IF s = r THEN a ELSE source[s]
    BY DEF Create, IInv, ResourcesTypeOK
<1>3. live' = live \cup {r}
    BY DEF Manages
<1>4. OneOwner' /\ UniqueIds' /\ LiveAreHeld' /\ held' \in SUBSET live' /\ live' \in SUBSET Resources
    BY <1>0, <1>2, ManagesInvariant
<1> HIDE DEF i
<1>5. /\ loadId' \in [Resources -> 0..MaxId]
      /\ \A s \in Resources \ {r} : loadId'[s] = loadId[s]
      /\ loadId'[r] \in {0, i}
      /\ loadId'[r] # 0 => c = a /\ Lookup(m, a) = {}
  <2>1. loadId \in [Resources -> 0..MaxId] /\ 0 \in 0..MaxId /\ id'[r] = i
      BY <1>1, MaxIdAssumption DEF IInv, ResourcesTypeOK
  <2>2. CASE loadId' = [loadId EXCEPT ![r] = 0]
      BY <2>1, <2>2
  <2>3. CASE loadId' = [loadId EXCEPT ![r] = id'[r]] /\ c = a /\ Lookup(m, a) = {}
    <3>1. loadId' = [loadId EXCEPT ![r] = i]
        BY <2>1, <2>3
    <3> QED
        BY <1>1, <2>1, <2>3, <3>1
  <2> QED
      BY <2>2, <2>3
<1>6. \A n \in Managers : \A k \in byPath[n] : k[2] # i
  <2> SUFFICES ASSUME NEW n \in Managers, NEW k \in byPath[n]
               PROVE  k[2] # i
      OBVIOUS
  <2>1. PICK q \in resources[n] : q[1] = k[2]
      BY DEF IInv, PathsResolve
  <2>2. q[1] \in Ids /\ q[1] <= currentId
      BY OwnerFact DEF IInv, IdsAreGiven
  <2> QED
      BY <1>1, <2>1, <2>2 DEF Ids
<1>7. /\ byPath' \in [Managers -> SUBSET (Paths \X Ids)]
      /\ \A n \in Managers : byPath[n] \subseteq byPath'[n]
      /\ \A n \in Managers : \A k \in byPath'[n] :
            \/ k \in byPath[n]
            \/ n = m /\ k = <<c, i>> /\ \A l \in byPath[m] : l[1] # c
      /\ (\A l \in byPath[m] : l[1] # c) => <<c, i>> \in byPath'[m]
  <2>1. byPath' = [byPath EXCEPT ![m] =
                     IF \E q \in byPath[m] : q[1] = c \/ q[2] = i
                     THEN byPath[m] ELSE byPath[m] \cup {<<c, i>>}]
      BY <1>1 DEF BimapInsert
  <2>2. <<c, i>> \in Paths \X Ids /\ byPath \in [Managers -> SUBSET (Paths \X Ids)]
      BY <1>1 DEF IInv, ResourcesTypeOK
  <2>3. byPath' \in [Managers -> SUBSET (Paths \X Ids)]
      BY <1>0, <2>1, <2>2
  <2>4. \A n \in Managers : byPath'[n] =
           IF n = m /\ ~(\E q \in byPath[m] : q[1] = c \/ q[2] = i)
           THEN byPath[n] \cup {<<c, i>>} ELSE byPath[n]
      BY <1>0, <2>1, <2>2
  <2> HIDE DEF i
  <2>5. ASSUME NEW n \in Managers
        PROVE  /\ byPath[n] \subseteq byPath'[n]
               /\ \A k \in byPath'[n] :
                    \/ k \in byPath[n]
                    \/ n = m /\ k = <<c, i>> /\ \A l \in byPath[m] : l[1] # c
    <3>1. CASE byPath'[n] = byPath[n]
        BY <3>1
    <3>2. CASE /\ n = m /\ byPath'[n] = byPath[n] \cup {<<c, i>>}
               /\ ~ \E q \in byPath[m] : q[1] = c \/ q[2] = i
        BY <3>2
    <3> QED
        BY <2>4, <3>1, <3>2
  <2>6. ASSUME \A l \in byPath[m] : l[1] # c
        PROVE  <<c, i>> \in byPath'[m]
    <3>1. ~ \E q \in byPath[m] : q[1] = c \/ q[2] = i
        BY <1>0, <1>6, <2>6
    <3>2. byPath'[m] = byPath[m] \cup {<<c, i>>}
        BY <1>0, <2>4, <3>1
    <3> QED
        BY <3>2
  <2> QED
      BY <2>3, <2>5, <2>6
<1>8. ResourcesTypeOK'
    BY <1>1, <1>2, <1>4, <1>5, <1>7 DEF ResourcesTypeOK, IInv
<1>9. IdsAreGiven'
  <2>1. \A n \in Managers : \A q \in resources[n] : q[1] \in Ids /\ q[1] <= i
      BY <1>1, OwnerFact DEF IInv, IdsAreGiven, Ids
  <2>2. \A s \in Resources : loadId[s] <= i
      BY <1>1 DEF IInv, IdsAreGiven, ResourcesTypeOK
  <2> QED
      BY <1>1, <1>5, <2>1, <2>2 DEF IdsAreGiven, Ids
<1>10. DeadAreBlank'
    BY <1>1, <1>2, <1>3, <1>5 DEF IInv, DeadAreBlank
<1>11. \A n \in Managers : resources[n] \subseteq resources'[n]
    BY <1>1, <1>2, OwnerFact DEF IInv
<1>12. PathsResolve'
  <2> SUFFICES ASSUME NEW n \in Managers, NEW k \in byPath'[n]
               PROVE  \E q \in resources'[n] : q[1] = k[2]
      BY DEF PathsResolve
  <2>1. CASE k \in byPath[n]
      BY <1>11, <2>1 DEF IInv, PathsResolve
  <2>2. CASE n = m /\ k = <<c, i>>
    <3>1. <<i, r>> \in resources'[n] /\ <<i, r>>[1] = k[2]
        BY <1>1, <2>2
    <3> QED
        BY <3>1
  <2> QED
      BY <1>7, <2>1, <2>2
<1>13. CacheTellsTruth'
  <2> SUFFICES ASSUME NEW n \in Managers, NEW k \in byPath'[n], NEW q \in resources'[n],
                      IsAbsolute(k[1]), q[1] = k[2]
               PROVE  source'[q[2]] = k[1]
      BY DEF CacheTellsTruth
  <2>1. CASE k \in byPath[n]
    <3>1. q # <<i, r>>
        BY <1>6, <2>1
    <3>2. q \in resources[n] /\ q[2] # r
        BY <1>1, <3>1
    <3>3. q[2] \in Resources
        BY <3>2, OwnerFact DEF IInv
    <3> QED
        BY <1>2, <2>1, <3>2, <3>3 DEF IInv, CacheTellsTruth
  <2>2. CASE n = m /\ k = <<c, i>>
    <3>1. q \notin resources[n]
        BY <1>1, <2>2, OwnerFact DEF IInv, IdsAreGiven, Ids
    <3>2. q = <<i, r>>
        BY <1>1, <3>1
    <3> QED
        BY <1>2, <2>2, <3>2
  <2> QED
      BY <1>7, <2>1, <2>2
<1>14. OneIdPerPath'
    BY <1>7 DEF IInv, OneIdPerPath
<1>15. Remembered'
  <2> SUFFICES ASSUME NEW s \in Resources, loadId'[s] # 0, loadId'[s] = id'[s]
               PROVE  <<source'[s], id'[s]>> \in byPath'[manager'[s]]
      BY DEF Remembered
  <2>1. CASE s = r
    <3>1. c = a /\ \A l \in byPath[m] : l[1] # c
        BY <1>5, <2>1 DEF Lookup
    <3> QED
        BY <1>1, <1>2, <1>7, <2>1, <3>1
  <2>2. CASE s # r
    <3>1. loadId[s] # 0 /\ loadId[s] = id[s]
        BY <1>1, <1>5, <2>2
    <3>2. <<source[s], id[s]>> \in byPath[manager[s]] /\ manager[s] \in Managers
        BY <3>1, OwnerFact DEF IInv, Remembered
    <3> QED
        BY <1>1, <1>2, <1>7, <2>2, <3>2
  <2> QED
      BY <2>1, <2>2
<1> QED
    BY <1>4, <1>8, <1>9, <1>10, <1>12, <1>13, <1>14, <1>15 DEF IInv
-----------------------------------------------------------------------------
(* Steps after which less exists: drop, forget, flush, ~Manager.            *)

LEMMA ShrinkInvariant ==
    ASSUME IInv,
           managers' \subseteq managers,
           dirs' \in [Managers -> Seq(Dirs)],
           resources' \in [Managers -> SUBSET (Ids \X Resources)],
           byPath' \in [Managers -> SUBSET (Paths \X Ids)],
           id' \in [Resources -> 0..MaxId],
           manager' \in [Resources -> Managers \cup {NoManager}],
           held' \subseteq held,
           currentId' = currentId,
           live' = Survivors(resources', held'),
           source' = OfLive(source, <<>>),
           loadId' = OfLive(loadId, 0),
           \A n \in Managers :
              /\ resources'[n] \subseteq resources[n]
              /\ resources'[n] # {} => n \in managers'
              /\ \A k : k \in byPath'[n] <=>
                           k \in byPath[n] /\ \E q \in resources'[n] : q[1] = k[2],
           \A s \in Resources :
              \/ id'[s] = id[s] /\ manager'[s] = manager[s]
                 /\ (id[s] # 0 => <<id[s], s>> \in resources'[manager[s]])
              \/ id'[s] = 0 /\ manager'[s] = NoManager
                 /\ \A n \in Managers : <<id[s], s>> \notin resources'[n]
    PROVE  IInv'
<1>1. live' \subseteq live
  <2>1. held' \in SUBSET Resources /\ live \in SUBSET Resources
      BY DEF IInv, ResourcesTypeOK
  <2>2. \A s \in held' : s \in live
      BY DEF IInv, ResourcesTypeOK
  <2>3. \A n \in Managers : \A q \in resources'[n] : q[2] \in live
      BY OwnerFact DEF IInv
  <2>4. \A s \in live : PartsOf[s] \subseteq live
      BY SurvivorsFact DEF IInv, ResourcesTypeOK, LiveAreHeld
  <2> QED
      BY <2>2, <2>3, <2>4 DEF Survivors
<1>2. /\ live' \in SUBSET Resources /\ held' \in SUBSET live'
      /\ \A n \in Managers : \A q \in resources'[n] : q[2] \in live'
    BY SurvivorsFact DEF IInv, ResourcesTypeOK
<1>3. /\ source' \in [Resources -> {<<>>} \cup Files]
      /\ loadId' \in [Resources -> 0..MaxId]
      /\ \A s \in Resources : /\ source'[s] = IF s \in live' THEN source[s] ELSE <<>>
                              /\ loadId'[s] = IF s \in live' THEN loadId[s] ELSE 0
  <2>1. 0 \in 0..MaxId
      BY MaxIdAssumption
  <2> QED
      BY <2>1 DEF OfLive, IInv, ResourcesTypeOK
<1>4. ResourcesTypeOK'
    BY <1>2, <1>3 DEF IInv, ResourcesTypeOK
<1>5. LiveAreHeld'
    BY DEF LiveAreHeld
<1>6. ASSUME NEW n \in Managers, NEW q \in resources'[n]
      PROVE  /\ n \in managers' /\ q[2] \in live' /\ manager'[q[2]] = n /\ id'[q[2]] = q[1]
             /\ q[2] \in Resources
  <2>1. q \in resources[n]
      OBVIOUS
  <2>2. /\ q[1] \in Ids /\ q[2] \in Resources /\ q = <<q[1], q[2]>>
        /\ q[1] = id[q[2]] /\ n = manager[q[2]]
      BY <2>1, OwnerFact DEF IInv
  <2>3. <<id[q[2]], q[2]>> \in resources'[n]
    <3>1. <<id[q[2]], q[2]>> = q
        BY <2>2
    <3> QED
        BY <3>1
  <2> QED
      BY <1>2, <2>2, <2>3
<1>7. OneOwner'
  <2>1. ASSUME NEW s \in live'
        PROVE  \/ id'[s] = 0 /\ manager'[s] = NoManager
               \/ manager'[s] \in managers' /\ <<id'[s], s>> \in resources'[manager'[s]]
    <3>1. s \in Resources /\ s \in live
        BY <1>1, <1>2
    <3>2. CASE id'[s] = id[s] /\ manager'[s] = manager[s] /\ id[s] = 0
        BY <3>1, <3>2, OwnerFact DEF IInv
    <3>3. CASE id'[s] = id[s] /\ manager'[s] = manager[s] /\ id[s] # 0
                  /\ <<id[s], s>> \in resources'[manager[s]]
        BY <3>1, <3>3, OwnerFact DEF IInv
    <3> QED
        BY <3>1, <3>2, <3>3
  <2> QED
      BY <1>6, <2>1 DEF OneOwner
<1>8. UniqueIds'
    BY DEF IInv, UniqueIds
<1>9. IdsAreGiven'
  <2>1. \A s \in Resources : loadId'[s] \in {0, loadId[s]}
      BY <1>3
  <2>2. 0 <= currentId /\ \A s \in Resources : loadId[s] <= currentId
      BY DEF IInv, IdsAreGiven, ResourcesTypeOK
  <2>3. \A s \in Resources : loadId'[s] <= currentId
      BY <2>1, <2>2
  <2> QED
      BY <2>3 DEF IInv, IdsAreGiven
<1>10. DeadAreBlank'
  <2> SUFFICES ASSUME NEW s \in Resources, s \notin live'
               PROVE  id'[s] = 0 /\ manager'[s] = NoManager
      BY <1>3 DEF DeadAreBlank
  <2>1. CASE id'[s] = id[s] /\ manager'[s] = manager[s] /\ id[s] # 0
                /\ <<id[s], s>> \in resources'[manager[s]]
    <3>1. manager[s] \in Managers /\ <<id[s], s>>[2] = s
        BY <2>1, OwnerFact DEF IInv
    <3> QED
        BY <1>2, <2>1, <3>1
  <2>2. CASE id'[s] = id[s] /\ manager'[s] = manager[s] /\ id[s] = 0
      BY <2>2, OwnerFact DEF IInv
  <2> QED
      BY <2>1, <2>2
<1>11. PathsResolve'
    BY DEF PathsResolve
<1>12. CacheTellsTruth'
  <2> SUFFICES ASSUME NEW n \in Managers, NEW k \in byPath'[n], NEW q \in resources'[n],
                      IsAbsolute(k[1]), q[1] = k[2]
               PROVE  source'[q[2]] = k[1]
      BY DEF CacheTellsTruth
  <2>1. source'[q[2]] = source[q[2]]
      BY <1>3, <1>6
  <2>2. k \in byPath[n] /\ q \in resources[n]
      OBVIOUS
  <2> QED
      BY <2>1, <2>2 DEF IInv, CacheTellsTruth
<1>13. OneIdPerPath'
    BY DEF IInv, OneIdPerPath
<1>14. Remembered'
  <2> SUFFICES ASSUME NEW s \in Resources, loadId'[s] # 0, loadId'[s] = id'[s]
               PROVE  <<source'[s], id'[s]>> \in byPath'[manager'[s]]
      BY DEF Remembered
  <2>1. s \in live' /\ loadId[s] = id[s] /\ loadId[s] # 0 /\ source'[s] = source[s]
        /\ id'[s] = id[s] /\ manager'[s] = manager[s]
        /\ <<id[s], s>> \in resources'[manager[s]]
      BY <1>3
  <2>2. <<source[s], id[s]>> \in byPath[manager[s]] /\ manager[s] \in Managers
      BY <2>1, OwnerFact DEF IInv, Remembered
  <2>3. <<id[s], s>>[1] = <<source[s], id[s]>>[2]
      OBVIOUS
  <2> QED
      BY <2>1, <2>2, <2>3
<1> QED
    BY <1>4, <1>5, <1>7, <1>8, <1>9, <1>10, <1>11, <1>12, <1>13, <1>14 DEF IInv

LEMMA DropInvariant ==
    ASSUME IInv, NEW r \in Resources, Drop(r)
    PROVE  IInv'
<1>1. /\ held' = held \ {r} /\ live' = Survivors(resources', held')
      /\ source' = OfLive(source, <<>>) /\ loadId' = OfLive(loadId, 0)
      /\ UNCHANGED <<managers, dirs, resources, byPath, currentId, id, manager>>
    BY DEF Drop
<1>2. \A n \in Managers :
         /\ resources'[n] # {} => n \in managers'
         /\ \A k : k \in byPath'[n] <=>
                      k \in byPath[n] /\ \E q \in resources'[n] : q[1] = k[2]
    BY <1>1 DEF IInv, OneOwner, PathsResolve
<1>3. \A s \in Resources : id[s] # 0 => <<id[s], s>> \in resources'[manager[s]]
    BY <1>1, OwnerFact DEF IInv
<1> QED
    BY <1>1, <1>2, <1>3, ShrinkInvariant DEF IInv, ResourcesTypeOK

\* The pairs and the paths of the ids that leave the map of one manager.
LEMMA EraseFact ==
    ASSUME IInv, NEW m \in Managers, NEW gone \in SUBSET resources[m],
           resources' = [resources EXCEPT ![m] = @ \ gone],
           byPath' = [byPath EXCEPT ![m] = EraseRight(@, {q[1] : q \in gone})]
    PROVE  /\ resources' \in [Managers -> SUBSET (Ids \X Resources)]
           /\ byPath' \in [Managers -> SUBSET (Paths \X Ids)]
           /\ \A n \in Managers :
                 /\ resources'[n] = IF n = m THEN resources[n] \ gone ELSE resources[n]
                 /\ \A k : k \in byPath'[n] <=>
                              k \in byPath[n] /\ \E q \in resources'[n] : q[1] = k[2]
<1>1. resources' \in [Managers -> SUBSET (Ids \X Resources)]
    BY DEF IInv, ResourcesTypeOK
<1>2. \A n \in Managers :
         resources'[n] = IF n = m THEN resources[n] \ gone ELSE resources[n]
    BY DEF IInv, ResourcesTypeOK
<1>3. byPath' = [byPath EXCEPT ![m] = {k \in @ : k[2] \notin {q[1] : q \in gone}}]
    BY DEF EraseRight
<1>4. byPath' \in [Managers -> SUBSET (Paths \X Ids)]
    BY <1>3 DEF IInv, ResourcesTypeOK
<1>5. \A n \in Managers : byPath'[n] =
         IF n = m THEN {k \in byPath[n] : k[2] \notin {q[1] : q \in gone}} ELSE byPath[n]
    BY <1>3 DEF IInv, ResourcesTypeOK
<1>7. ASSUME NEW k
      PROVE  k \in byPath'[m] <=> k \in byPath[m] /\ \A q \in gone : q[1] # k[2]
  <2>1. byPath'[m] = {l \in byPath[m] : l[2] \notin {q[1] : q \in gone}}
      BY <1>5
  <2>2. k[2] \in {q[1] : q \in gone} <=> \E q \in gone : q[1] = k[2]
      OBVIOUS
  <2> QED
      BY <2>1, <2>2
<1>6. ASSUME NEW n \in Managers, NEW k
      PROVE  k \in byPath'[n] <=>
                k \in byPath[n] /\ \E q \in resources'[n] : q[1] = k[2]
  <2>1. CASE n # m
      BY <1>2, <1>5, <2>1 DEF IInv, PathsResolve
  <2>2. CASE n = m
    <3>1. ASSUME k \in byPath'[m]
          PROVE  k \in byPath[m] /\ \E q \in resources'[m] : q[1] = k[2]
      <4>1. k \in byPath[m] /\ \A q \in gone : q[1] # k[2]
          BY <1>7, <3>1
      <4>2. PICK q \in resources[m] : q[1] = k[2]
          BY <4>1 DEF IInv, PathsResolve
      <4> QED
          BY <1>2, <4>1, <4>2
    <3>2. ASSUME k \in byPath[m], NEW q \in resources'[m], q[1] = k[2]
          PROVE  k \in byPath'[m]
      <4>1. q \in resources[m] /\ q \notin gone
          BY <1>2
      <4>2. ASSUME NEW t \in gone
            PROVE  t[1] # k[2]
        <5>1. SUFFICES ASSUME t[1] = q[1]
                       PROVE  t = q
            BY <3>2, <4>1
        <5>2. t[2] = q[2]
            BY <4>1, <5>1 DEF IInv, UniqueIds
        <5> QED
            BY <4>1, <5>1, <5>2, OwnerFact DEF IInv
      <4> QED
          BY <1>7, <3>2, <4>2
    <3> QED
        BY <2>2, <3>1, <3>2
  <2> QED
      BY <2>1, <2>2
<1> QED
    BY <1>1, <1>2, <1>4, <1>6

LEMMA ForgetInvariant ==
    ASSUME IInv, NEW m \in Managers, NEW r \in Resources, Forget(m, r)
    PROVE  IInv'
<1>1. /\ m \in managers /\ r \in held /\ id[r] # 0
      /\ \E q \in resources[m] : q[1] = id[r]
      /\ resources' = [resources EXCEPT ![m] = EraseId(@, id[r])]
      /\ byPath' = [byPath EXCEPT ![m] = EraseRight(@, {id[r]})]
      /\ manager' = [manager EXCEPT ![r] = NoManager]
      /\ id' = [id EXCEPT ![r] = 0]
      /\ live' = Survivors(resources', held)
      /\ UNCHANGED <<managers, dirs, currentId, held, source, loadId>>
    BY DEF Forget
<1>2. /\ <<id[r], r>> \in resources[m] /\ m = manager[r]
      /\ \A q \in resources[m] : q[1] = id[r] => q = <<id[r], r>>
    BY <1>1, OwnerFact DEF IInv
<1> DEFINE gone == {<<id[r], r>>}
<1>3. resources' = [resources EXCEPT ![m] = @ \ gone]
  <2>1. EraseId(resources[m], id[r]) = resources[m] \ gone
      BY <1>2 DEF EraseId
  <2> QED
      BY <1>1, <2>1
<1>4. byPath' = [byPath EXCEPT ![m] = EraseRight(@, {q[1] : q \in gone})]
  <2>1. {q[1] : q \in gone} = {id[r]}
      OBVIOUS
  <2> QED
      BY <1>1, <2>1
<1>5. gone \in SUBSET resources[m]
    BY <1>2
<1> HIDE DEF gone
<1>6. /\ resources' \in [Managers -> SUBSET (Ids \X Resources)]
      /\ byPath' \in [Managers -> SUBSET (Paths \X Ids)]
      /\ \A n \in Managers :
            /\ resources'[n] = IF n = m THEN resources[n] \ gone ELSE resources[n]
            /\ \A k : k \in byPath'[n] <=>
                         k \in byPath[n] /\ \E q \in resources'[n] : q[1] = k[2]
    BY <1>3, <1>4, <1>5, EraseFact
<1>7. /\ id' \in [Resources -> 0..MaxId]
      /\ manager' \in [Resources -> Managers \cup {NoManager}]
      /\ \A s \in Resources : /\ id'[s] = IF s = r THEN 0 ELSE id[s]
                              /\ manager'[s] = IF s = r THEN NoManager ELSE manager[s]
    BY <1>1, MaxIdAssumption DEF IInv, ResourcesTypeOK
<1>8. live' = live
  <2> DEFINE roots(owners) == held \cup UNION {{q[2] : q \in owners[n]} : n \in Managers}
  <2>1. roots(resources') = roots(resources)
    <3>1. ASSUME NEW n \in Managers, NEW q \in resources[n]
          PROVE  q[2] \in roots(resources')
      <4>1. CASE q \in gone
          BY <1>1, <4>1 DEF gone
      <4>2. CASE q \notin gone
          BY <1>6, <4>2
      <4> QED
          BY <4>1, <4>2
    <3>2. ASSUME NEW n \in Managers, NEW q \in resources'[n]
          PROVE  q[2] \in roots(resources)
      <4>1. q \in resources[n]
          BY <1>6
      <4> QED
          BY <4>1
    <3> QED
        BY <3>1, <3>2
  <2> QED
      BY <1>1, <2>1 DEF Survivors, IInv, LiveAreHeld
<1>9. source' = OfLive(source, <<>>) /\ loadId' = OfLive(loadId, 0)
  <2>1. source = [s \in Resources |-> IF s \in live THEN source[s] ELSE <<>>]
      BY DEF IInv, ResourcesTypeOK, DeadAreBlank
  <2>2. loadId = [s \in Resources |-> IF s \in live THEN loadId[s] ELSE 0]
      BY DEF IInv, ResourcesTypeOK, DeadAreBlank
  <2> QED
      BY <1>1, <1>8, <2>1, <2>2 DEF OfLive
<1>10. \A n \in Managers : resources'[n] \subseteq resources[n]
                             /\ (resources'[n] # {} => n \in managers')
  <2>1. \A n \in Managers : resources'[n] \subseteq resources[n]
      BY <1>6
  <2>2. \A n \in Managers : resources[n] # {} => n \in managers
      BY OwnerFact DEF IInv
  <2> QED
      BY <1>1, <2>1, <2>2
<1>11. ASSUME NEW s \in Resources
       PROVE  \/ id'[s] = id[s] /\ manager'[s] = manager[s]
                 /\ (id[s] # 0 => <<id[s], s>> \in resources'[manager[s]])
              \/ id'[s] = 0 /\ manager'[s] = NoManager
                 /\ \A n \in Managers : <<id[s], s>> \notin resources'[n]
  <2>1. CASE s = r
    <3>1. ASSUME NEW n \in Managers, <<id[r], r>> \in resources'[n]
          PROVE  FALSE
      <4>1. <<id[r], r>> \in resources[n]
          BY <1>6, <3>1
      <4>2. n = m
          BY <1>2, <4>1 DEF IInv, UniqueIds
      <4> QED
          BY <1>6, <3>1, <4>2 DEF gone
    <3> QED
        BY <1>7, <2>1, <3>1
  <2>2. CASE s # r
    <3>1. ASSUME id[s] # 0
          PROVE  <<id[s], s>> \in resources'[manager[s]]
      <4>1. <<id[s], s>> \in resources[manager[s]] /\ manager[s] \in Managers
          BY <3>1, OwnerFact DEF IInv
      <4>2. <<id[s], s>> \notin gone
          BY <2>2 DEF gone
      <4> QED
          BY <1>6, <4>1, <4>2
    <3> QED
        BY <1>7, <2>2, <3>1
  <2> QED
      BY <2>1, <2>2
<1> QED
    BY <1>1, <1>6, <1>7, <1>9, <1>10, <1>11, ShrinkInvariant DEF IInv, ResourcesTypeOK

LEMMA FlushInvariant ==
    ASSUME IInv, NEW m \in Managers, Flush(m)
    PROVE  IInv'
<1> DEFINE gone == Unused(m)
<1>1. /\ m \in managers
      /\ resources' = [resources EXCEPT ![m] = @ \ gone]
      /\ byPath' = [byPath EXCEPT ![m] = EraseRight(@, {q[1] : q \in gone})]
      /\ live' = Survivors(resources', held)
      /\ id' = OfLive(id, 0) /\ manager' = OfLive(manager, NoManager)
      /\ source' = OfLive(source, <<>>) /\ loadId' = OfLive(loadId, 0)
      /\ UNCHANGED <<managers, dirs, currentId, held>>
    BY DEF Flush
<1>2. /\ gone \in SUBSET resources[m]
      /\ \A q \in resources[m] : q \in gone <=> ~ UsedElsewhere(q[2])
    BY DEF Unused
<1> HIDE DEF gone
<1>3. /\ resources' \in [Managers -> SUBSET (Ids \X Resources)]
      /\ byPath' \in [Managers -> SUBSET (Paths \X Ids)]
      /\ \A n \in Managers :
            /\ resources'[n] = IF n = m THEN resources[n] \ gone ELSE resources[n]
            /\ \A k : k \in byPath'[n] <=>
                         k \in byPath[n] /\ \E q \in resources'[n] : q[1] = k[2]
    BY <1>1, <1>2, EraseFact
<1>4. /\ id' \in [Resources -> 0..MaxId]
      /\ manager' \in [Resources -> Managers \cup {NoManager}]
      /\ \A s \in Resources :
            /\ id'[s] = IF s \in live' THEN id[s] ELSE 0
            /\ manager'[s] = IF s \in live' THEN manager[s] ELSE NoManager
    BY <1>1, MaxIdAssumption DEF OfLive, IInv, ResourcesTypeOK
<1>5. \A n \in Managers : resources'[n] \subseteq resources[n]
                             /\ (resources'[n] # {} => n \in managers')
  <2>1. \A n \in Managers : resources'[n] \subseteq resources[n]
      BY <1>3
  <2>2. \A n \in Managers : resources[n] # {} => n \in managers
      BY OwnerFact DEF IInv
  <2> QED
      BY <1>1, <2>1, <2>2
<1>6. /\ live' \in SUBSET Resources
      /\ \A n \in Managers : \A q \in resources'[n] : q[2] \in live'
      /\ \A s \in live' :
            \/ s \in held
            \/ \E n \in Managers : \E q \in resources'[n] : q[2] = s
            \/ \E t \in live' : s \in PartsOf[t]
  <2>1. live \in SUBSET Resources /\ held \in SUBSET Resources
      BY DEF IInv, ResourcesTypeOK
  <2> QED
      BY <1>1, <1>3, <2>1, SurvivorsFact
<1>7. live' \subseteq live
  <2>1. \A s \in held : s \in live
      BY DEF IInv, ResourcesTypeOK
  <2>2. \A n \in Managers : \A q \in resources'[n] : q[2] \in live
      BY <1>5, OwnerFact DEF IInv
  <2>3. \A s \in live : PartsOf[s] \subseteq live
      BY SurvivorsFact DEF IInv, ResourcesTypeOK, LiveAreHeld
  <2> QED
      BY <1>1, <2>1, <2>2, <2>3 DEF Survivors
<1>8. ASSUME NEW q \in gone
      PROVE  q[2] \notin live'
  <2>1. q[2] \notin held /\ \A s \in live : q[2] \notin PartsOf[s]
      BY <1>2 DEF UsedElsewhere
  <2>2. ASSUME NEW n \in Managers, NEW t \in resources'[n], t[2] = q[2]
        PROVE  FALSE
    <3>1. t \in resources[n] /\ q \in resources[m]
        BY <1>2, <1>5
    <3>2. t = q /\ n = m
        BY <2>2, <3>1, OwnerFact DEF IInv
    <3> QED
        BY <1>3, <3>2
  <2> QED
      BY <1>6, <1>7, <2>1, <2>2
<1>9. ASSUME NEW s \in Resources
      PROVE  \/ id'[s] = id[s] /\ manager'[s] = manager[s]
                /\ (id[s] # 0 => <<id[s], s>> \in resources'[manager[s]])
             \/ id'[s] = 0 /\ manager'[s] = NoManager
                /\ \A n \in Managers : <<id[s], s>> \notin resources'[n]
  <2>1. CASE s \in live'
    <3>1. ASSUME id[s] # 0
          PROVE  <<id[s], s>> \in resources'[manager[s]]
      <4>1. <<id[s], s>> \in resources[manager[s]] /\ manager[s] \in Managers
          BY <3>1, OwnerFact DEF IInv
      <4>2. <<id[s], s>>[2] = s
          OBVIOUS
      <4>3. <<id[s], s>> \notin gone
          BY <1>8, <2>1, <4>2
      <4> QED
          BY <1>3, <4>1, <4>3
    <3> QED
        BY <1>4, <2>1, <3>1
  <2>2. CASE s \notin live'
    <3>1. \A n \in Managers : <<id[s], s>> \notin resources'[n]
      <4>1. <<id[s], s>>[2] = s
          OBVIOUS
      <4> QED
          BY <1>6, <2>2, <4>1
    <3> QED
        BY <1>4, <2>2, <3>1
  <2> QED
      BY <2>1, <2>2
<1> QED
    BY <1>1, <1>3, <1>4, <1>5, <1>9, ShrinkInvariant DEF IInv, ResourcesTypeOK

LEMMA DestroyInvariant ==
    ASSUME IInv, NEW m \in Managers, Destroy(m)
    PROVE  IInv'
<1> DEFINE owned == {q[2] : q \in resources[m]}
<1>1. /\ m \in managers /\ managers' = managers \ {m}
      /\ id' = [r \in Resources |-> IF r \in owned THEN 0 ELSE id[r]]
      /\ manager' = [r \in Resources |-> IF r \in owned THEN NoManager ELSE manager[r]]
      /\ resources' = [resources EXCEPT ![m] = {}]
      /\ byPath' = [byPath EXCEPT ![m] = {}]
      /\ live' = Survivors(resources', held)
      /\ source' = OfLive(source, <<>>) /\ loadId' = OfLive(loadId, 0)
      /\ dirs' = [dirs EXCEPT ![m] = <<>>]
      /\ UNCHANGED <<currentId, held>>
    BY DEF Destroy
<1>2. \A r \in Resources : r \in owned <=> id[r] # 0 /\ manager[r] = m
  <2> SUFFICES ASSUME NEW r \in Resources
               PROVE  r \in owned <=> id[r] # 0 /\ manager[r] = m
      OBVIOUS
  <2>1. ASSUME NEW q \in resources[m], q[2] = r
        PROVE  id[r] # 0 /\ manager[r] = m
      BY <2>1, OwnerFact DEF IInv, Ids
  <2>2. ASSUME id[r] # 0, manager[r] = m
        PROVE  \E q \in resources[m] : q[2] = r
    <3>1. <<id[r], r>> \in resources[m] /\ <<id[r], r>>[2] = r
        BY <2>2, OwnerFact DEF IInv
    <3> QED
        BY <3>1
  <2> QED
      BY <2>1, <2>2
<1> HIDE DEF owned
<1>3. /\ resources' \in [Managers -> SUBSET (Ids \X Resources)]
      /\ byPath' \in [Managers -> SUBSET (Paths \X Ids)]
      /\ dirs' \in [Managers -> Seq(Dirs)]
      /\ managers' \subseteq managers
      /\ \A n \in Managers :
            /\ resources'[n] = IF n = m THEN {} ELSE resources[n]
            /\ byPath'[n] = IF n = m THEN {} ELSE byPath[n]
    BY <1>1 DEF IInv, ResourcesTypeOK
<1>4. \A n \in Managers :
         /\ resources'[n] \subseteq resources[n]
         /\ resources'[n] # {} => n \in managers'
         /\ \A k : k \in byPath'[n] <=>
                      k \in byPath[n] /\ \E q \in resources'[n] : q[1] = k[2]
  <2>1. \A n \in Managers : resources[n] # {} => n \in managers
      BY OwnerFact DEF IInv
  <2>2. \A n \in Managers : \A k \in byPath[n] : \E q \in resources[n] : q[1] = k[2]
      BY DEF IInv, PathsResolve
  <2> QED
      BY <1>1, <1>3, <2>1, <2>2
<1>5. /\ id' \in [Resources -> 0..MaxId]
      /\ manager' \in [Resources -> Managers \cup {NoManager}]
    BY <1>1, MaxIdAssumption DEF IInv, ResourcesTypeOK
<1>6. ASSUME NEW s \in Resources
      PROVE  \/ id'[s] = id[s] /\ manager'[s] = manager[s]
                /\ (id[s] # 0 => <<id[s], s>> \in resources'[manager[s]])
             \/ id'[s] = 0 /\ manager'[s] = NoManager
                /\ \A n \in Managers : <<id[s], s>> \notin resources'[n]
  <2>1. CASE s \in owned
    <3>1. ASSUME NEW n \in Managers, <<id[s], s>> \in resources'[n]
          PROVE  FALSE
      <4>1. <<id[s], s>> \in resources[n] /\ n # m
          BY <1>3, <3>1
      <4>2. n = manager[s]
          BY <4>1, OwnerFact DEF IInv
      <4> QED
          BY <1>2, <2>1, <4>1, <4>2
    <3> QED
        BY <1>1, <2>1, <3>1
  <2>2. CASE s \notin owned
    <3>1. id'[s] = id[s] /\ manager'[s] = manager[s]
        BY <1>1, <2>2
    <3>2. id[s] # 0 => manager[s] # m /\ manager[s] \in Managers
                          /\ <<id[s], s>> \in resources[manager[s]]
        BY <1>2, <2>2, OwnerFact DEF IInv
    <3> QED
        BY <1>3, <3>1, <3>2
  <2> QED
      BY <2>1, <2>2
<1> QED
    BY <1>1, <1>3, <1>4, <1>5, <1>6, ShrinkInvariant

-----------------------------------------------------------------------------
(* The invariant.                                                           *)

LEMMA ResourcesInitInvariant == ResourcesInit => IInv
<1> SUFFICES ASSUME ResourcesInit
             PROVE  IInv
    OBVIOUS
<1> USE DEF ResourcesInit
<1>1. ResourcesTypeOK
    BY MaxIdAssumption DEF ResourcesTypeOK
<1>2. OneOwner /\ UniqueIds /\ PathsResolve /\ CacheTellsTruth /\ OneIdPerPath
    BY DEF OneOwner, UniqueIds, PathsResolve, CacheTellsTruth, OneIdPerPath
<1>3. IdsAreGiven /\ DeadAreBlank /\ Remembered
    BY DEF IdsAreGiven, DeadAreBlank, Remembered
<1>4. LiveAreHeld
  <2>1. \A m \in Managers : {q[2] : q \in resources[m]} = {}
      OBVIOUS
  <2> QED
      BY <2>1 DEF LiveAreHeld, Survivors
<1> QED
    BY <1>1, <1>2, <1>3, <1>4 DEF IInv

LEMMA ResourcesStepInvariant == IInv /\ [ResourcesNext]_resourceVars => IInv'
<1> SUFFICES ASSUME IInv, [ResourcesNext]_resourceVars
             PROVE  IInv'
    OBVIOUS
<1>1. ASSUME UNCHANGED <<managers, resources, byPath, currentId, id, manager, live,
                         held, source, loadId>>,
             dirs' \in [Managers -> Seq(Dirs)]
      PROVE  IInv'
  <2>1. ResourcesTypeOK'
      BY <1>1 DEF IInv, ResourcesTypeOK
  <2>2. LiveAreHeld'
      BY <1>1 DEF IInv, LiveAreHeld, Survivors
  <2>3. OneOwner' /\ UniqueIds' /\ IdsAreGiven' /\ DeadAreBlank'
      BY <1>1 DEF IInv, OneOwner, UniqueIds, IdsAreGiven, DeadAreBlank
  <2>4. PathsResolve' /\ OneIdPerPath'
      BY <1>1 DEF IInv, PathsResolve, OneIdPerPath
  <2>5. CacheTellsTruth' /\ Remembered'
      BY <1>1 DEF IInv, CacheTellsTruth, Remembered
  <2> QED
      BY <2>1, <2>2, <2>3, <2>4, <2>5 DEF IInv
<1>2. ASSUME NEW m \in Managers, NEW d \in Dirs, AddPath(m, d)
      PROVE  IInv'
  <2>1. dirs' \in [Managers -> Seq(Dirs)]
      BY <1>2 DEF AddPath, IInv, ResourcesTypeOK
  <2> QED
      BY <1>1, <1>2, <2>1 DEF AddPath
<1>3. ASSUME NEW r \in Resources, NewResource(r)
      PROVE  IInv'
  <2>1. /\ r \notin live /\ PartsOf[r] \subseteq live
        /\ source' = [source EXCEPT ![r] = <<>>]
        /\ live' = live \cup {r} /\ held' = held \cup {r}
        /\ UNCHANGED <<managers, dirs, resources, byPath, currentId, id, manager, loadId>>
      BY <1>3 DEF NewResource, Create
  <2>2. source' = source
      BY <2>1 DEF IInv, ResourcesTypeOK, DeadAreBlank
  <2>3. LiveAreHeld'
    <3>1. live = Survivors(resources, held)
        BY DEF IInv, LiveAreHeld
    <3> QED
        BY <2>1, <3>1 DEF LiveAreHeld, Survivors
  <2>4. OneOwner'
      BY <2>1 DEF IInv, OneOwner, DeadAreBlank
  <2>5. ResourcesTypeOK' /\ DeadAreBlank'
      BY <2>1, <2>2 DEF IInv, ResourcesTypeOK, DeadAreBlank
  <2>6. UniqueIds' /\ IdsAreGiven' /\ PathsResolve'
      BY <2>1, <2>2 DEF IInv, UniqueIds, IdsAreGiven, PathsResolve
  <2>7. CacheTellsTruth' /\ OneIdPerPath'
      BY <2>1, <2>2 DEF IInv, CacheTellsTruth, OneIdPerPath
  <2>8. Remembered'
      BY <2>1, <2>2 DEF IInv, Remembered
  <2> QED
      BY <2>3, <2>4, <2>5, <2>6, <2>7, <2>8 DEF IInv
<1>4. ASSUME NEW m \in Managers, NEW p \in Paths, LoadHit(m, p)
      PROVE  IInv'
  <2>1. PICK q \in resources[m] : held' = held \cup {q[2]}
      BY <1>4 DEF LoadHit
  <2>2. q[2] \in live
      BY OwnerFact DEF IInv
  <2>3. UNCHANGED <<managers, dirs, resources, byPath, currentId, id, manager, live,
                    source, loadId>>
      BY <1>4 DEF LoadHit
  <2>4. LiveAreHeld'
    <3>1. live = Survivors(resources, held)
        BY DEF IInv, LiveAreHeld
    <3> QED
        BY <2>1, <2>3, <3>1 DEF LiveAreHeld, Survivors
  <2>5. ResourcesTypeOK'
      BY <2>1, <2>2, <2>3 DEF IInv, ResourcesTypeOK
  <2>6. OneOwner' /\ UniqueIds' /\ IdsAreGiven' /\ DeadAreBlank' /\ PathsResolve'
          /\ CacheTellsTruth' /\ OneIdPerPath' /\ Remembered'
      BY <2>3 DEF IInv, OneOwner, UniqueIds, IdsAreGiven, DeadAreBlank, PathsResolve,
                  CacheTellsTruth, OneIdPerPath, Remembered
  <2> QED
      BY <2>4, <2>5, <2>6 DEF IInv
<1>5. ASSUME NEW m \in Managers, NEW p \in Paths, NEW r \in Resources, LoadMiss(m, p, r)
      PROVE  IInv'
  <2>1. PICK a \in Found(m, p) :
          /\ Lookup(m, a) = {} /\ Create(r, a) /\ Manages(m, r, NextId(currentId))
          /\ byPath' = [byPath EXCEPT ![m] = BimapInsert(@, a, id'[r])]
          /\ loadId' = [loadId EXCEPT ![r] = id'[r]]
      BY <1>5 DEF LoadMiss, CacheKey, RememberedAs
  <2>2. m \in managers /\ UNCHANGED <<managers, dirs>> /\ a \in Files /\ a \in Paths
      BY <1>5, FoundFact DEF LoadMiss
  <2> QED
      BY <2>1, <2>2, LoadInvariant
<1>6. ASSUME NEW m \in Managers, NEW p \in Paths, NEW r \in Resources, PyLoadMiss(m, p, r)
      PROVE  IInv'
  <2>1. PICK a \in Found(m, p) :
          /\ Create(r, a) /\ Manages(m, r, NextId(currentId))
          /\ byPath' = [byPath EXCEPT ![m] = BimapInsert(@, p, id'[r])]
          /\ loadId' = [loadId EXCEPT ![r] = 0]
      BY <1>6 DEF PyLoadMiss
  <2>2. /\ m \in managers /\ UNCHANGED <<managers, dirs>> /\ a \in Files
        /\ IsAbsolute(p) => p = a
      BY <1>6, FoundFact DEF PyLoadMiss
  <2> QED
      BY <2>1, <2>2, LoadInvariant
<1>7. CASE UNCHANGED resourceVars
    BY <1>1, <1>7 DEF resourceVars, IInv, ResourcesTypeOK
<1> QED
    BY <1>2, <1>3, <1>4, <1>5, <1>6, <1>7, DropInvariant, ManageInvariant, ForgetInvariant,
       FlushInvariant, DestroyInvariant DEF ResourcesNext

LEMMA ResourcesInvariant == ResourcesSpec => []IInv
BY ResourcesInitInvariant, ResourcesStepInvariant, PTL DEF ResourcesSpec

\* The maps of the managers and the resources agree, ids are unique, every
\* remembered path leads to the resource made from that file (Manager.cpp:26-188,
\* Resource.cpp:12-30), however many managers, resources and files there are.
THEOREM ManagersTellTheTruth == ResourcesSpec => []ManagersAreTrue
<1>1. IInv => ManagersAreTrue
    BY DEF IInv, ManagersAreTrue, OwnersAgree, CacheIsTrue
<1> QED
    BY <1>1, ResourcesInvariant, PTL

\* A file is loaded once while its resource is managed, and a remembered path is
\* lost only with the id it leads to (Manager.hpp:41-61, Manager.cpp:190-215).
THEOREM FilesAreLoadedOnce == ResourcesSpec => OneLoadPerFile
<1>1. ASSUME IInv
      PROVE  \A r, s \in live : SameFile(r, s) => r = s
  <2> SUFFICES ASSUME NEW r \in live, NEW s \in live, SameFile(r, s)
               PROVE  r = s
      OBVIOUS
  <2>1. /\ r \in Resources /\ s \in Resources
        /\ id[r] # 0 /\ loadId[r] = id[r] /\ loadId[s] = id[s]
        /\ manager[r] = manager[s] /\ source[r] = source[s]
      BY <1>1 DEF SameFile, IInv, ResourcesTypeOK
  <2>2. manager[r] \in Managers /\ manager[r] # NoManager
      BY <1>1, <2>1, OwnerFact, Distinct DEF IInv
  <2>3. id[s] # 0
      BY <1>1, <2>1, <2>2, OwnerFact DEF IInv
  <2>4. /\ <<source[r], id[r]>> \in byPath[manager[r]]
        /\ <<source[r], id[s]>> \in byPath[manager[r]]
      BY <1>1, <2>1, <2>3 DEF IInv, Remembered
  <2>5. id[r] = id[s]
    <3>1. <<source[r], id[r]>> = <<source[r], id[s]>>
        BY <1>1, <2>2, <2>4 DEF IInv, OneIdPerPath
    <3> QED
        BY <3>1
  <2> QED
      BY <1>1, <2>1, <2>5, OwnerFact DEF IInv
<1> DEFINE Kept == \A m \in Managers : \A k \in byPath[m] :
                      k \in byPath'[m] \/ \A r \in live : id[r] = k[2] => id'[r] # k[2]
<1>2. ASSUME IInv, [ResourcesNext]_resourceVars
      PROVE  [Kept]_resourceVars
  <2> SUFFICES ASSUME ResourcesNext, NEW m \in Managers, NEW k \in byPath[m], k \notin byPath'[m],
                      NEW r \in live, id[r] = k[2]
               PROVE  id'[r] # k[2]
      BY <1>2
  <2>1. /\ r \in Resources /\ k[2] # 0 /\ id \in [Resources -> 0..MaxId]
        /\ byPath \in [Managers -> SUBSET (Paths \X Ids)]
      BY <1>2 DEF IInv, ResourcesTypeOK, Ids
  <2>2. <<id[r], r>> \in resources[m] /\ manager[r] = m
    <3>1. PICK q \in resources[m] : q[1] = k[2]
        BY <1>2 DEF IInv, PathsResolve
    <3>2. q[2] \in Resources /\ q = <<q[1], q[2]>> /\ q[1] = id[q[2]] /\ m = manager[q[2]]
        BY <1>2, OwnerFact DEF IInv
    <3>3. q[2] = r
        BY <1>2, <2>1, <3>1, <3>2, OwnerFact DEF IInv
    <3> QED
        BY <3>1, <3>2, <3>3
  <2>3. ASSUME NEW n \in Managers, NEW s \in Resources, Manage(n, s)
        PROVE  id'[r] # k[2]
    <3>1. byPath' = [byPath EXCEPT ![manager[s]] = EraseRight(@, {id[s]})] /\ manager[s] # NoManager
        BY <2>3 DEF Manage, PathsReleased
    <3>2. k[2] = id[s] /\ manager[s] = m
        BY <2>1, <3>1 DEF EraseRight
    <3>3. s = r
        BY <1>2, <2>1, <3>2, OwnerFact DEF IInv
    <3>4. id'[r] = currentId + 1 /\ id[r] <= currentId /\ currentId \in Nat
        BY <1>2, <2>1, <2>3, <3>3, ManagesMaps DEF Manage, IInv, ResourcesTypeOK
    <3> QED
        BY <2>1, <3>4
  <2>4. ASSUME NEW n \in Managers, NEW s \in Resources, Forget(n, s)
        PROVE  id'[r] # k[2]
    <3>1. byPath' = [byPath EXCEPT ![n] = EraseRight(@, {id[s]})] /\ id' = [id EXCEPT ![s] = 0]
            /\ id[s] # 0
        BY <2>4 DEF Forget
    <3>2. k[2] = id[s]
        BY <2>1, <3>1 DEF EraseRight
    <3>3. s = r
        BY <1>2, <2>1, <3>2, OwnerFact DEF IInv
    <3> QED
        BY <2>1, <3>1, <3>3
  <2>5. ASSUME NEW n \in Managers, Flush(n)
        PROVE  id'[r] # k[2]
    <3>1. /\ byPath' = [byPath EXCEPT ![n] = EraseRight(@, {q[1] : q \in Unused(n)})]
          /\ resources' = [resources EXCEPT ![n] = @ \ Unused(n)]
          /\ id' = OfLive(id, 0)
        BY <2>5 DEF Flush
    <3>2. n = m /\ \E q \in Unused(n) : q[1] = k[2]
        BY <2>1, <3>1 DEF EraseRight
    <3>3. PICK q \in Unused(m) : q[1] = k[2]
        BY <3>2
    <3>4. q \in resources[m] /\ q \notin resources'[m]
      <4>1. q \in resources[m]
          BY <3>3 DEF Unused
      <4>2. resources' = [resources EXCEPT ![m] = resources[m] \ Unused(m)]
          BY <3>1, <3>2
      <4>3. resources \in [Managers -> SUBSET (Ids \X Resources)]
          BY <1>2 DEF IInv, ResourcesTypeOK
      <4> QED
          BY <4>1, <4>2, <4>3, <3>3
    <3>5. q = <<id[r], r>>
      <4>1. /\ q[2] \in Resources /\ q = <<q[1], q[2]>> /\ q[1] = id[q[2]] /\ q[1] # 0
          BY <1>2, <3>4, OwnerFact DEF IInv, Ids
      <4>2. q[2] = r
          BY <1>2, <2>1, <3>3, <4>1, OwnerFact DEF IInv
      <4> QED
          BY <4>1, <4>2
    <3>6. IInv'
        BY <1>2, ResourcesStepInvariant
    <3>7. ASSUME id'[r] = k[2]
          PROVE  FALSE
      <4>1. r \in live' /\ id'[r] = id[r] /\ manager'[r] = manager[r]
          BY <2>1, <2>5, <3>1, <3>7 DEF OfLive, Flush
      <4>2. <<id'[r], r>> \in resources'[manager'[r]]
          BY <2>1, <3>6, <3>7, <4>1 DEF IInv, OneOwner
      <4> QED
          BY <2>2, <3>4, <3>5, <4>1, <4>2
    <3> QED
        BY <3>7
  <2>6. ASSUME NEW n \in Managers, Destroy(n)
        PROVE  id'[r] # k[2]
    <3>1. /\ byPath' = [byPath EXCEPT ![n] = {}]
          /\ id' = [s \in Resources |-> IF s \in {q[2] : q \in resources[n]} THEN 0 ELSE id[s]]
        BY <2>6 DEF Destroy
    <3>2. n = m
        BY <2>1, <3>1
    <3>3. r \in {q[2] : q \in resources[n]}
      <4>1. <<id[r], r>>[2] = r
          OBVIOUS
      <4> QED
          BY <2>2, <3>2, <4>1
    <3> QED
        BY <2>1, <3>1, <3>3
  <2>7. ASSUME NEW n \in Managers, NEW p, NEW s \in Resources,
               LoadMiss(n, p, s) \/ PyLoadMiss(n, p, s)
        PROVE  FALSE
    <3>1. \E c : byPath' = [byPath EXCEPT ![n] = BimapInsert(@, c, id'[s])]
        BY <2>7 DEF LoadMiss, PyLoadMiss, RememberedAs
    <3> QED
        BY <2>1, <3>1 DEF BimapInsert
  <2> QED
      BY <2>3, <2>4, <2>5, <2>6, <2>7 DEF ResourcesNext, AddPath, NewResource, Drop, LoadHit
<1>3. IInv /\ [ResourcesNext]_resourceVars => [Kept]_resourceVars
    BY <1>2
<1> QED
    BY <1>1, <1>3, ResourcesInvariant, PTL DEF ResourcesSpec, OneLoadPerFile, StaysCached

-----------------------------------------------------------------------------
(* Meshes: an element is appended *)

\* A mesh of elements of S.
MeshOf(S) == [kind : MeshKinds, mode : MeshModes,
              data : [Channels -> Seq(S)], indice : [MeshModes -> Seq(Nat)]]

LEMMA PlaceFact ==
    \A type \in DOMAIN Place : \A kind \in DOMAIN Place[type] :
        Place[type][kind] \in Channels /\ (Place[type][kind] = "vertices" <=> kind = "vertex")
<1>1. DOMAIN Place = {"vec3", "vec2", "color3", "color4"}
  BY DEF Place
<1>2. /\ Place["vec3"] = [vertex |-> "vertices", normal |-> "normals"]
      /\ Place["vec2"] = [tex_coord0 |-> "tex_coords0", tex_coord1 |-> "tex_coords1", tex_coord2 |-> "tex_coords2"]
      /\ Place["color3"] = [color |-> "colors3"]
      /\ Place["color4"] = [color |-> "colors4"]
  BY DEF Place
<1>3. ASSUME NEW kind \in DOMAIN Place["vec3"]
      PROVE  Place["vec3"][kind] \in Channels /\ (Place["vec3"][kind] = "vertices" <=> kind = "vertex")
  <2>1. kind = "vertex" \/ kind = "normal"
    BY <1>2
  <2> QED BY <1>2, <2>1 DEF Channels
<1>4. ASSUME NEW kind \in DOMAIN Place["vec2"]
      PROVE  Place["vec2"][kind] \in Channels /\ (Place["vec2"][kind] = "vertices" <=> kind = "vertex")
  <2>1. kind = "tex_coord0" \/ kind = "tex_coord1" \/ kind = "tex_coord2"
    BY <1>2
  <2> QED BY <1>2, <2>1 DEF Channels
<1>5. ASSUME NEW kind \in DOMAIN Place["color3"]
      PROVE  Place["color3"][kind] \in Channels /\ (Place["color3"][kind] = "vertices" <=> kind = "vertex")
  BY <1>2 DEF Channels
<1>6. ASSUME NEW kind \in DOMAIN Place["color4"]
      PROVE  Place["color4"][kind] \in Channels /\ (Place["color4"][kind] = "vertices" <=> kind = "vertex")
  BY <1>2 DEF Channels
<1> QED BY <1>1, <1>3, <1>4, <1>5, <1>6

\* t is s with e in the channel c, and the index of a vertex.
IsPushed(t, s, c, e) ==
    /\ t.kind = s.kind /\ t.mode = s.mode
    /\ t.data = [s.data EXCEPT ![c] = Append(@, e)]
    /\ t.indice = IF c = "vertices"
                   THEN [s.indice EXCEPT ![s.mode] = Append(@, Len(s.data["vertices"]))] ELSE s.indice

LEMMA PushedIs ==
    ASSUME NEW S, NEW s \in MeshOf(S), NEW type \in DOMAIN Place, s.kind \in DOMAIN Place[type], NEW e \in S,
           NEW c, c = Place[type][s.kind]
    PROVE  c \in Channels /\ Pushed(s, type, e) \in MeshOf(S) /\ IsPushed(Pushed(s, type, e), s, c, e)
<1>1. c \in Channels
  BY PlaceFact
<1>2. /\ s.kind \in MeshKinds /\ s.mode \in MeshModes /\ s.data \in [Channels -> Seq(S)]
      /\ s.indice \in [MeshModes -> Seq(Nat)]
      /\ s = [kind |-> s.kind, mode |-> s.mode, data |-> s.data, indice |-> s.indice]
  BY DEF MeshOf
<1> DEFINE t == Pushed(s, type, e)
           d == [s.data EXCEPT ![c] = Append(@, e)]
           i == IF c = "vertices" THEN [s.indice EXCEPT ![s.mode] = Append(@, Len(s.data.vertices))] ELSE s.indice
<1>3. t = [s EXCEPT !.data[c] = Append(@, e),
                    !.indice[s.mode] = IF c = "vertices" THEN Append(@, Len(s.data.vertices)) ELSE @]
  BY DEF Pushed, NextIndex
<1>4. t = [kind |-> s.kind, mode |-> s.mode, data |-> d,
           indice |-> [s.indice EXCEPT ![s.mode] = IF c = "vertices" THEN Append(@, Len(s.data.vertices)) ELSE @]]
  BY <1>2, <1>3
<1>5. [s.indice EXCEPT ![s.mode] = IF c = "vertices" THEN Append(@, Len(s.data.vertices)) ELSE @] = i
  <2>1. CASE c = "vertices"
    BY <2>1
  <2>2. CASE c # "vertices"
    <3>1. [s.indice EXCEPT ![s.mode] = s.indice[s.mode]] = s.indice
      BY <1>2
    <3> QED BY <2>2, <3>1
  <2> QED BY <2>1, <2>2
<1>6. d \in [Channels -> Seq(S)]
  <2>1. Append(s.data[c], e) \in Seq(S)
    BY <1>1, <1>2
  <2> QED BY <1>1, <1>2, <2>1
<1>7. i \in [MeshModes -> Seq(Nat)]
  <2>1. "vertices" \in Channels
    BY DEF Channels
  <2>2. s.data.vertices \in Seq(S)
    BY <1>2, <2>1
  <2>3. Append(s.indice[s.mode], Len(s.data.vertices)) \in Seq(Nat)
    BY <1>2, <2>2
  <2> QED BY <1>2, <2>3
<1> HIDE DEF t, d, i
<1>8. t = [kind |-> s.kind, mode |-> s.mode, data |-> d, indice |-> i]
  BY <1>4, <1>5
<1>9. t \in MeshOf(S) /\ t.kind = s.kind /\ t.mode = s.mode /\ t.data = d /\ t.indice = i
  BY <1>2, <1>6, <1>7, <1>8 DEF MeshOf
<1> QED BY <1>1, <1>9 DEF t, d, i, IsPushed

-----------------------------------------------------------------------------
(* Meshes: what is drawn *)

MeshView == [vb : UNION {[sh -> Seq(Elements)] : sh \in SUBSET Channels},
             ibs : UNION {[ms -> Seq(Nat)] : ms \in SUBSET MeshModes},
             appended : [MeshModes -> Seq(Elements)]]

\* What the indices of a mode lead to is what was appended in it.
LeadTo(s, sent) ==
    \A m \in MeshModes :
        /\ Len(s.indice[m]) = Len(sent[m])
        /\ \A i \in 1..Len(sent[m]) :
              /\ s.indice[m][i] < Len(s.data["vertices"])
              /\ s.data["vertices"][s.indice[m][i] + 1] = sent[m][i]

DrawnInv ==
    /\ mesh \in MeshOf(Elements) /\ appended \in [MeshModes -> Seq(Elements)]
    /\ views \in Seq(MeshView)
    /\ LeadTo(mesh, appended) /\ ViewsAreWhole

LEMMA DrawnBegins == MeshInit => DrawnInv
<1> SUFFICES ASSUME MeshInit PROVE DrawnInv
  OBVIOUS
<1>1. /\ mesh = [kind |-> "vertex", mode |-> "triangle_strip",
                 data |-> [c \in Channels |-> <<>>], indice |-> [m \in MeshModes |-> <<>>]]
      /\ appended = [m \in MeshModes |-> <<>>] /\ views = <<>>
  BY DEF MeshInit, NewMesh
<1>2. "vertex" \in MeshKinds
  <2>1. "vec3" \in DOMAIN Place /\ "vertex" \in DOMAIN Place["vec3"]
    BY DEF Place
  <2> QED BY <2>1 DEF MeshKinds
<1>3. "triangle_strip" \in MeshModes
  BY MeshesAssumption
<1>4. <<>> \in Seq(Elements) /\ <<>> \in Seq(Nat) /\ <<>> \in Seq(MeshView) /\ Len(<<>>) = 0
  OBVIOUS
<1>5. mesh \in MeshOf(Elements)
  <2>1. [c \in Channels |-> <<>>] \in [Channels -> Seq(Elements)]
    BY <1>4
  <2>2. [m \in MeshModes |-> <<>>] \in [MeshModes -> Seq(Nat)]
    BY <1>4
  <2> QED BY <1>1, <1>2, <1>3, <2>1, <2>2 DEF MeshOf
<1>6. appended \in [MeshModes -> Seq(Elements)]
  BY <1>1, <1>4
<1>7. LeadTo(mesh, appended)
  BY <1>1, <1>4 DEF LeadTo
<1>8. ViewsAreWhole
  BY <1>1 DEF ViewsAreWhole
<1> QED BY <1>1, <1>4, <1>5, <1>6, <1>7, <1>8 DEF DrawnInv

LEMMA AppendElementKeeps ==
    ASSUME DrawnInv, NEW type \in DOMAIN Place, NEW e \in Elements, AppendElement(type, e)
    PROVE  DrawnInv'
<1> DEFINE c == Place[type][mesh.kind]
           l == Len(mesh.data["vertices"])
<1>1. /\ mesh.kind \in DOMAIN Place[type] /\ mesh' = Pushed(mesh, type, e)
      /\ appended' = (IF mesh.kind = "vertex" THEN [appended EXCEPT ![mesh.mode] = Append(@, e)] ELSE appended)
      /\ views' = views
  BY DEF AppendElement
<1>2. /\ mesh \in MeshOf(Elements) /\ appended \in [MeshModes -> Seq(Elements)]
      /\ views \in Seq(MeshView) /\ LeadTo(mesh, appended) /\ ViewsAreWhole
  BY DEF DrawnInv
<1>3. /\ mesh' \in MeshOf(Elements) /\ c \in Channels
      /\ mesh'.data = [mesh.data EXCEPT ![c] = Append(@, e)]
      /\ mesh'.indice = IF c = "vertices" THEN [mesh.indice EXCEPT ![mesh.mode] = Append(@, l)] ELSE mesh.indice
  <2>1. c \in Channels /\ mesh' \in MeshOf(Elements) /\ IsPushed(mesh', mesh, c, e)
    BY <1>1, <1>2, PushedIs
  <2> QED BY <2>1 DEF IsPushed
<1>4. c = "vertices" <=> mesh.kind = "vertex"
  BY <1>1, PlaceFact
<1>5. /\ mesh.mode \in MeshModes /\ mesh.data \in [Channels -> Seq(Elements)]
      /\ mesh.indice \in [MeshModes -> Seq(Nat)] /\ "vertices" \in Channels
  BY <1>2 DEF MeshOf, Channels
<1> HIDE DEF c, l
<1>6. CASE c # "vertices"
  <2>1. appended' = appended /\ mesh'.indice = mesh.indice /\ mesh'.data["vertices"] = mesh.data["vertices"]
    BY <1>1, <1>3, <1>4, <1>5, <1>6
  <2>2. LeadTo(mesh, appended)'
    BY <1>2, <2>1 DEF LeadTo
  <2>3. ViewsAreWhole'
    BY <1>1, <1>2 DEF ViewsAreWhole, DrawnAs
  <2> QED BY <1>1, <1>2, <1>3, <2>1, <2>2, <2>3 DEF DrawnInv
<1>7. CASE c = "vertices"
  <2>1. /\ appended' = [appended EXCEPT ![mesh.mode] = Append(@, e)]
        /\ mesh'.indice = [mesh.indice EXCEPT ![mesh.mode] = Append(@, l)]
        /\ mesh'.data["vertices"] = Append(mesh.data["vertices"], e)
    BY <1>1, <1>3, <1>4, <1>5, <1>7
  <2>2. mesh.data["vertices"] \in Seq(Elements) /\ l \in Nat
    BY <1>5 DEF l
  <2>3. /\ Len(mesh'.data["vertices"]) = l + 1 /\ mesh'.data["vertices"][l + 1] = e
        /\ \A j \in 1..l : mesh'.data["vertices"][j] = mesh.data["vertices"][j]
    BY <2>1, <2>2 DEF l
  <2>4. appended' \in [MeshModes -> Seq(Elements)]
    <3>1. Append(appended[mesh.mode], e) \in Seq(Elements)
      BY <1>2, <1>5
    <3> QED BY <1>2, <2>1, <3>1
  <2>5. LeadTo(mesh, appended)'
    <3> SUFFICES ASSUME NEW m \in MeshModes
                 PROVE  /\ Len(mesh'.indice[m]) = Len(appended'[m])
                        /\ \A i \in 1..Len(appended'[m]) :
                              /\ mesh'.indice[m][i] < Len(mesh'.data["vertices"])
                              /\ mesh'.data["vertices"][mesh'.indice[m][i] + 1] = appended'[m][i]
      BY DEF LeadTo
    <3>1. /\ Len(mesh.indice[m]) = Len(appended[m])
          /\ \A i \in 1..Len(appended[m]) :
                /\ mesh.indice[m][i] < l
                /\ mesh.data["vertices"][mesh.indice[m][i] + 1] = appended[m][i]
      BY <1>2 DEF LeadTo, l
    <3>2. mesh.indice[m] \in Seq(Nat) /\ appended[m] \in Seq(Elements)
      BY <1>2, <1>5
    <3>3. ASSUME NEW i \in 1..Len(appended[m])
          PROVE  /\ mesh.indice[m][i] < l + 1
                 /\ mesh'.data["vertices"][mesh.indice[m][i] + 1] = appended[m][i]
      <4>1. mesh.indice[m][i] \in Nat /\ mesh.indice[m][i] < l
        BY <3>1, <3>2, <3>3
      <4>2. mesh.indice[m][i] + 1 \in 1..l
        BY <2>2, <4>1
      <4>3. mesh'.data["vertices"][mesh.indice[m][i] + 1] = mesh.data["vertices"][mesh.indice[m][i] + 1]
        BY <2>3, <4>2
      <4>4. mesh.data["vertices"][mesh.indice[m][i] + 1] = appended[m][i]
        BY <3>1, <3>3
      <4>5. mesh.indice[m][i] < l + 1
        BY <2>2, <4>1
      <4> QED BY <4>3, <4>4, <4>5
    <3>4. CASE m # mesh.mode
      <4>1. mesh'.indice[m] = mesh.indice[m] /\ appended'[m] = appended[m]
        BY <1>2, <1>5, <2>1, <3>4
      <4> QED BY <2>3, <3>1, <3>3, <4>1
    <3>5. CASE m = mesh.mode
      <4>1. mesh'.indice[m] = Append(mesh.indice[m], l) /\ appended'[m] = Append(appended[m], e)
        BY <1>2, <1>5, <2>1, <3>5
      <4>2. Len(mesh'.indice[m]) = Len(appended[m]) + 1 /\ Len(appended'[m]) = Len(appended[m]) + 1
        BY <3>1, <3>2, <4>1
      <4>3. ASSUME NEW i \in 1..Len(appended'[m])
            PROVE  /\ mesh'.indice[m][i] < Len(mesh'.data["vertices"])
                   /\ mesh'.data["vertices"][mesh'.indice[m][i] + 1] = appended'[m][i]
        <5>1. CASE i = Len(appended[m]) + 1
          <6>1. mesh'.indice[m][i] = l /\ appended'[m][i] = e
            BY <3>1, <3>2, <4>1, <5>1
          <6> QED BY <2>2, <2>3, <6>1
        <5>2. CASE i # Len(appended[m]) + 1
          <6>1. i \in 1..Len(appended[m])
            BY <3>2, <4>2, <4>3, <5>2
          <6>2. mesh'.indice[m][i] = mesh.indice[m][i] /\ appended'[m][i] = appended[m][i]
            BY <3>1, <3>2, <4>1, <6>1
          <6> QED BY <2>3, <3>3, <6>1, <6>2
        <5> QED BY <5>1, <5>2
      <4> QED BY <4>2, <4>3
    <3> QED BY <3>4, <3>5
  <2>6. ViewsAreWhole'
    BY <1>1, <1>2 DEF ViewsAreWhole, DrawnAs
  <2> QED BY <1>1, <1>2, <1>3, <2>4, <2>5, <2>6 DEF DrawnInv
<1> QED BY <1>6, <1>7

LEMMA DrawableKeeps ==
    ASSUME DrawnInv, Drawable
    PROVE  DrawnInv'
<1> DEFINE shown == {c \in Channels : mesh.data[c] # <<>>}
           modes == {m \in MeshModes : mesh.indice[m] # <<>>}
           v == [vb |-> [c \in shown |-> mesh.data[c]], ibs |-> [m \in modes |-> mesh.indice[m]],
                 appended |-> appended]
<1>1. mesh.data["vertices"] # <<>> /\ views' = Append(views, v) /\ UNCHANGED <<mesh, appended>>
  BY DEF Drawable
<1>2. /\ mesh \in MeshOf(Elements) /\ appended \in [MeshModes -> Seq(Elements)]
      /\ views \in Seq(MeshView) /\ LeadTo(mesh, appended) /\ ViewsAreWhole
  BY DEF DrawnInv
<1>3. /\ mesh.data \in [Channels -> Seq(Elements)]
      /\ mesh.indice \in [MeshModes -> Seq(Nat)] /\ "vertices" \in Channels
  BY <1>2 DEF MeshOf, Channels
<1>4. v \in MeshView
  <2>1. [c \in shown |-> mesh.data[c]] \in [shown -> Seq(Elements)] /\ shown \in SUBSET Channels
    BY <1>3
  <2>2. [m \in modes |-> mesh.indice[m]] \in [modes -> Seq(Nat)] /\ modes \in SUBSET MeshModes
    BY <1>3
  <2> HIDE DEF shown, modes
  <2> QED BY <1>2, <2>1, <2>2 DEF MeshView
<1>5. ASSUME NEW m \in MeshModes PROVE DrawnAs(v, m) = v.appended[m]
  <2>1. mesh.indice[m] \in Seq(Nat) /\ appended[m] \in Seq(Elements) /\ mesh.data["vertices"] \in Seq(Elements)
    BY <1>2, <1>3
  <2>2. /\ Len(mesh.indice[m]) = Len(appended[m])
        /\ \A i \in 1..Len(appended[m]) : mesh.data["vertices"][mesh.indice[m][i] + 1] = appended[m][i]
    BY <1>2 DEF LeadTo
  <2>3. v.vb["vertices"] = mesh.data["vertices"]
    BY <1>1, <1>3
  <2>4. CASE mesh.indice[m] = <<>>
    <3>1. appended[m] = <<>>
      BY <2>1, <2>2, <2>4
    <3>2. m \notin DOMAIN v.ibs
      BY <2>4
    <3> QED BY <3>1, <3>2 DEF DrawnAs
  <2>5. CASE mesh.indice[m] # <<>>
    <3>1. m \in DOMAIN v.ibs /\ v.ibs[m] = mesh.indice[m]
      BY <2>5
    <3>2. DrawnAs(v, m) = [i \in DOMAIN v.ibs[m] |-> v.vb["vertices"][v.ibs[m][i] + 1]]
      BY <3>1 DEF DrawnAs
    <3>3. DOMAIN v.ibs[m] = 1..Len(appended[m])
      BY <2>1, <2>2, <3>1
    <3> HIDE DEF v
    <3>4. DrawnAs(v, m) = [i \in 1..Len(appended[m]) |-> appended[m][i]]
      BY <2>2, <2>3, <3>1, <3>2, <3>3
    <3>5. appended[m] = [i \in 1..Len(appended[m]) |-> appended[m][i]]
      BY <2>1
    <3> QED BY <3>4, <3>5 DEF v
  <2> QED BY <2>4, <2>5
<1> HIDE DEF v
<1>6. /\ views' \in Seq(MeshView) /\ DOMAIN views' = 1..(Len(views) + 1) /\ DOMAIN views = 1..Len(views)
      /\ views'[Len(views) + 1] = v /\ \A i \in 1..Len(views) : views'[i] = views[i]
  BY <1>1, <1>2, <1>4
<1>7. ViewsAreWhole'
  <2> SUFFICES ASSUME NEW i \in DOMAIN views', NEW m \in MeshModes
               PROVE  DrawnAs(views'[i], m) = views'[i].appended[m]
    BY DEF ViewsAreWhole, DrawnAs
  <2>1. CASE i = Len(views) + 1
    BY <1>5, <1>6, <2>1
  <2>2. CASE i # Len(views) + 1
    <3>1. i \in DOMAIN views /\ views'[i] = views[i]
      BY <1>6, <2>2
    <3> QED BY <1>2, <3>1 DEF ViewsAreWhole
  <2> QED BY <2>1, <2>2
<1> QED BY <1>1, <1>2, <1>6, <1>7 DEF DrawnInv

LEMMA DrawnKeeps == DrawnInv /\ [MeshNext \/ LoadNext]_meshVars => DrawnInv'
<1> SUFFICES ASSUME DrawnInv, [MeshNext \/ LoadNext]_meshVars PROVE DrawnInv'
  OBVIOUS
<1>1. /\ mesh \in MeshOf(Elements) /\ appended \in [MeshModes -> Seq(Elements)]
      /\ views \in Seq(MeshView) /\ LeadTo(mesh, appended) /\ ViewsAreWhole
  BY DEF DrawnInv
<1>2. /\ mesh.kind \in MeshKinds /\ mesh.mode \in MeshModes
      /\ mesh = [kind |-> mesh.kind, mode |-> mesh.mode, data |-> mesh.data, indice |-> mesh.indice]
      /\ mesh.data \in [Channels -> Seq(Elements)] /\ mesh.indice \in [MeshModes -> Seq(Nat)]
  BY <1>1 DEF MeshOf
<1>3. ASSUME mesh'.data = mesh.data, mesh'.indice = mesh.indice, mesh' \in MeshOf(Elements), UNCHANGED <<appended, views>>
      PROVE  DrawnInv'
  BY <1>1, <1>3 DEF DrawnInv, LeadTo, ViewsAreWhole, DrawnAs
<1>4. ASSUME NEW m \in MeshModes, SetMode(m) PROVE DrawnInv'
  <2>1. mesh' = [kind |-> mesh.kind, mode |-> m, data |-> mesh.data, indice |-> mesh.indice] /\ UNCHANGED <<appended, views>>
    BY <1>2, <1>4 DEF SetMode
  <2> QED BY <1>2, <1>3, <1>4, <2>1 DEF MeshOf
<1>5. ASSUME NEW k \in MeshKinds, SetKind(k) PROVE DrawnInv'
  <2>1. mesh' = [kind |-> k, mode |-> mesh.mode, data |-> mesh.data, indice |-> mesh.indice] /\ UNCHANGED <<appended, views>>
    BY <1>2, <1>5 DEF SetKind
  <2> QED BY <1>2, <1>3, <1>5, <2>1 DEF MeshOf
<1>6. ASSUME NEW type \in DOMAIN Place, NEW e \in Elements, AppendElement(type, e) PROVE DrawnInv'
  BY <1>6, AppendElementKeeps
<1>7. CASE Drawable
  BY <1>7, DrawableKeeps
<1>8. CASE LoadNext \/ UNCHANGED meshVars
  <2>1. UNCHANGED drawnVars
    BY <1>8 DEF LoadNext, LoadMaterial, MaterialsDone, LoadFace, LoadMesh, MeshesDone, LoadNode, NodesDone, Fails, meshVars
  <2> QED BY <1>1, <1>3, <2>1 DEF drawnVars
<1> QED BY <1>4, <1>5, <1>6, <1>7, <1>8 DEF MeshNext

-----------------------------------------------------------------------------
(* Meshes: a face is loaded *)

\* Every corner of a face of a file, and what is appended for it.
Corners == UNION {ToSet(face) : face \in UNION {ToSet(m.faces) : m \in UNION {ToSet(f.meshes) : f \in SceneFiles}}}
FileElements == {"position", "texcoord", "normal", "color"} \X Corners

What(c) == CASE c = "vertices" -> "position" [] c = "normals" -> "normal"
             [] c \in {"colors3", "colors4"} -> "color" [] OTHER -> "texcoord"

App3(q, a, b, c) == Append(Append(Append(q, a), b), c)

\* r is q and then a, b and c.
EndsWith(r, q, a, b, c) ==
    /\ Len(r) = Len(q) + 3 /\ \A j \in 1..Len(q) : r[j] = q[j]
    /\ r[Len(q) + 1] = a /\ r[Len(q) + 2] = b /\ r[Len(q) + 3] = c

LEMMA App3Fact ==
    ASSUME NEW S, NEW q \in Seq(S), NEW a \in S, NEW b \in S, NEW c \in S
    PROVE  EndsWith(App3(q, a, b, c), q, a, b, c)
<1> DEFINE r1 == Append(q, a)
           r2 == Append(r1, b)
           r3 == Append(r2, c)
<1>1. /\ r1 \in Seq(S) /\ Len(r1) = Len(q) + 1 /\ r1[Len(q) + 1] = a /\ Len(q) \in Nat
      /\ \A j \in 1..Len(q) : r1[j] = q[j]
  OBVIOUS
<1> HIDE DEF r1
<1>2. /\ r2 \in Seq(S) /\ Len(r2) = Len(q) + 2 /\ r2[Len(q) + 2] = b
      /\ \A j \in 1..(Len(q) + 1) : r2[j] = r1[j]
  BY <1>1
<1> HIDE DEF r2
<1>3. /\ r3 \in Seq(S) /\ Len(r3) = Len(q) + 3 /\ r3[Len(q) + 3] = c
      /\ \A j \in 1..(Len(q) + 2) : r3[j] = r2[j]
  BY <1>1, <1>2
<1> HIDE DEF r3
<1>4. App3(q, a, b, c) = r3
  BY DEF App3, r1, r2, r3
<1>5. /\ \A j \in 1..Len(q) : r3[j] = q[j]
      /\ r3[Len(q) + 1] = a /\ r3[Len(q) + 2] = b
  BY <1>1, <1>2, <1>3
<1> QED BY <1>3, <1>4, <1>5 DEF EndsWith

\* t is s with the corners of a face in the channel c, and indices of vertices.
IsCornered(t, s, c, what, face) ==
    LET l == Len(s.data["vertices"]) IN
    /\ t.mode = s.mode
    /\ \A d \in Channels :
          t.data[d] = IF d = c THEN App3(s.data[d], <<what, face[1]>>, <<what, face[2]>>, <<what, face[3]>>)
                      ELSE s.data[d]
    /\ \A m \in MeshModes :
          t.indice[m] = IF c = "vertices" /\ m = s.mode THEN App3(s.indice[m], l, l + 1, l + 2) ELSE s.indice[m]

LEMMA CorneredIs ==
    ASSUME NEW S, NEW s \in MeshOf(S), NEW type \in DOMAIN Place, NEW kind \in DOMAIN Place[type],
           NEW what, NEW face, \A k \in 1..3 : <<what, face[k]>> \in S,
           NEW c, c = Place[type][kind]
    PROVE  /\ c \in Channels /\ Cornered(s, kind, type, what, face) \in MeshOf(S)
           /\ IsCornered(Cornered(s, kind, type, what, face), s, c, what, face)
<1> DEFINE s0 == [s EXCEPT !.kind = kind]
           e1 == <<what, face[1]>>
           e2 == <<what, face[2]>>
           e3 == <<what, face[3]>>
           s1 == Pushed(s0, type, e1)
           s2 == Pushed(s1, type, e2)
           s3 == Pushed(s2, type, e3)
           l == Len(s.data["vertices"])
<1>1. Cornered(s, kind, type, what, face) = s3
  BY DEF Cornered
<1>2. /\ s.kind \in MeshKinds /\ s.mode \in MeshModes /\ s.data \in [Channels -> Seq(S)]
      /\ s.indice \in [MeshModes -> Seq(Nat)]
      /\ s = [kind |-> s.kind, mode |-> s.mode, data |-> s.data, indice |-> s.indice]
  BY DEF MeshOf
<1>3. kind \in MeshKinds
  BY DEF MeshKinds
<1>4. /\ s0 \in MeshOf(S) /\ s0.kind = kind /\ s0.mode = s.mode /\ s0.data = s.data /\ s0.indice = s.indice
  <2>1. s0 = [kind |-> kind, mode |-> s.mode, data |-> s.data, indice |-> s.indice]
    BY ONLY <1>2
  <2> QED BY <1>2, <1>3, <2>1 DEF MeshOf
<1>5. e1 \in S /\ e2 \in S /\ e3 \in S
  OBVIOUS
<1> HIDE DEF s0, e1, e2, e3
<1>6. c \in Channels /\ s1 \in MeshOf(S) /\ IsPushed(s1, s0, c, e1)
  BY <1>4, <1>5, PushedIs
<1> HIDE DEF s1
<1>7. s1.kind = kind
  BY <1>4, <1>6 DEF IsPushed
<1>8. s2 \in MeshOf(S) /\ IsPushed(s2, s1, c, e2)
  BY <1>5, <1>6, <1>7, PushedIs
<1> HIDE DEF s2
<1>9. s2.kind = kind
  BY <1>7, <1>8 DEF IsPushed
<1>10. s3 \in MeshOf(S) /\ IsPushed(s3, s2, c, e3)
  BY <1>5, <1>8, <1>9, PushedIs
<1> HIDE DEF s3
<1>11. /\ s1.data \in [Channels -> Seq(S)] /\ s1.indice \in [MeshModes -> Seq(Nat)]
       /\ s2.data \in [Channels -> Seq(S)] /\ s2.indice \in [MeshModes -> Seq(Nat)]
  BY <1>6, <1>8 DEF MeshOf
<1>12. s1.mode = s.mode /\ s2.mode = s.mode /\ s3.mode = s.mode
  BY <1>4, <1>6, <1>8, <1>10 DEF IsPushed
<1>13. ASSUME NEW d \in Channels
       PROVE  s3.data[d] = IF d = c THEN App3(s.data[d], e1, e2, e3) ELSE s.data[d]
  <2>1. /\ s1.data = [s.data EXCEPT ![c] = Append(@, e1)]
        /\ s2.data = [s1.data EXCEPT ![c] = Append(@, e2)]
        /\ s3.data = [s2.data EXCEPT ![c] = Append(@, e3)]
    BY <1>4, <1>6, <1>8, <1>10 DEF IsPushed
  <2> QED BY <1>2, <1>6, <1>11, <2>1 DEF App3
<1>14. ASSUME c = "vertices"
       PROVE  Len(s1.data["vertices"]) = l + 1 /\ Len(s2.data["vertices"]) = l + 2
  <2>1. /\ s1.data = [s.data EXCEPT ![c] = Append(@, e1)]
        /\ s2.data = [s1.data EXCEPT ![c] = Append(@, e2)]
    BY <1>4, <1>6, <1>8 DEF IsPushed
  <2>2. s1.data[c] = Append(s.data[c], e1) /\ s2.data[c] = Append(s1.data[c], e2)
    BY <1>2, <1>6, <1>11, <2>1
  <2>3. s.data[c] \in Seq(S) /\ s1.data[c] \in Seq(S)
    BY <1>2, <1>6, <1>11
  <2>4. Len(s1.data[c]) = Len(s.data[c]) + 1 /\ Len(s2.data[c]) = Len(s1.data[c]) + 1 /\ Len(s.data[c]) \in Nat
    BY <2>2, <2>3
  <2> QED BY <1>14, <2>4
<1>15. ASSUME NEW m \in MeshModes
       PROVE  s3.indice[m] = IF c = "vertices" /\ m = s.mode THEN App3(s.indice[m], l, l + 1, l + 2) ELSE s.indice[m]
  <2>1. CASE c # "vertices"
    <3>1. s1.indice = s.indice /\ s2.indice = s1.indice /\ s3.indice = s2.indice
      BY <1>4, <1>6, <1>8, <1>10, <2>1 DEF IsPushed
    <3> QED BY <2>1, <3>1
  <2>2. CASE c = "vertices"
    <3>1. /\ s1.indice = [s.indice EXCEPT ![s.mode] = Append(@, l)]
          /\ s2.indice = [s1.indice EXCEPT ![s.mode] = Append(@, l + 1)]
          /\ s3.indice = [s2.indice EXCEPT ![s.mode] = Append(@, l + 2)]
      BY <1>4, <1>6, <1>8, <1>10, <1>12, <1>14, <2>2 DEF IsPushed
    <3> HIDE DEF l
    <3> QED BY <1>2, <1>11, <2>2, <3>1 DEF App3
  <2> QED BY <2>1, <2>2
<1> QED BY <1>1, <1>6, <1>10, <1>12, <1>13, <1>15 DEF IsCornered, e1, e2, e3

\* t is s with a face of m: all its corners in the channels that m has.
IsFaced(t, s, m, face) ==
    LET l == Len(s.data["vertices"]) IN
    /\ \A c \in Channels :
          t.data[c] = IF HasChannel(m, c)
                      THEN App3(s.data[c], <<What(c), face[1]>>, <<What(c), face[2]>>, <<What(c), face[3]>>)
                      ELSE s.data[c]
    /\ t.indice["triangles"] = App3(s.indice["triangles"], l, l + 1, l + 2)

LEMMA FaceIs ==
    ASSUME NEW s \in MeshOf(FileElements), NEW m, m.normals \in BOOLEAN,
           NEW face, \A k \in 1..3 : face[k] \in Corners
    PROVE  FacePushed(s, m, face) \in MeshOf(FileElements) /\ IsFaced(FacePushed(s, m, face), s, m, face)
<1> DEFINE M == MeshOf(FileElements)
           Cor(t, kind, type, what) == Cornered(t, kind, type, what, face)
           s0 == [s EXCEPT !.mode = "triangles"]
           s1 == Cornered(s0, "vertex", "vec3", "position", face)
           s2 == IF Textured(m, 0) THEN Cornered(s1, "tex_coord0", "vec2", "texcoord", face) ELSE s1
           s3 == IF Textured(m, 1) THEN Cornered(s2, "tex_coord1", "vec2", "texcoord", face) ELSE s2
           s4 == IF Textured(m, 2) THEN Cornered(s3, "tex_coord2", "vec2", "texcoord", face) ELSE s3
           s5 == IF m.normals THEN Cornered(s4, "normal", "vec3", "normal", face) ELSE s4
           s6 == IF m.colored > 0 THEN Cornered(s5, "color", "color4", "color", face) ELSE s5
           l == Len(s.data["vertices"])
           e1(c) == <<What(c), face[1]>>
           e2(c) == <<What(c), face[2]>>
           e3(c) == <<What(c), face[3]>>
<1>1. FacePushed(s, m, face) = s6
  BY DEF FacePushed
<1>2. /\ s.kind \in MeshKinds /\ s.mode \in MeshModes /\ s.data \in [Channels -> Seq(FileElements)]
      /\ s.indice \in [MeshModes -> Seq(Nat)]
      /\ s = [kind |-> s.kind, mode |-> s.mode, data |-> s.data, indice |-> s.indice]
  BY DEF MeshOf
<1>3. "triangles" \in MeshModes
  BY MeshesAssumption
<1>4. s0 \in M /\ s0.mode = "triangles" /\ s0.data = s.data /\ s0.indice = s.indice
  <2>1. s0 = [kind |-> s.kind, mode |-> "triangles", data |-> s.data, indice |-> s.indice]
    BY <1>2
  <2> QED BY <1>2, <1>3, <2>1 DEF MeshOf
<1>5. \A what \in {"position", "texcoord", "normal", "color"} : \A k \in 1..3 : <<what, face[k]>> \in FileElements
  BY DEF FileElements
<1>6. /\ "vec3" \in DOMAIN Place /\ "vec2" \in DOMAIN Place /\ "color4" \in DOMAIN Place
      /\ "vertex" \in DOMAIN Place["vec3"] /\ Place["vec3"]["vertex"] = "vertices"
      /\ "normal" \in DOMAIN Place["vec3"] /\ Place["vec3"]["normal"] = "normals"
      /\ "color" \in DOMAIN Place["color4"] /\ Place["color4"]["color"] = "colors4"
  BY DEF Place
<1>7. /\ "tex_coord0" \in DOMAIN Place["vec2"] /\ Place["vec2"]["tex_coord0"] = "tex_coords0"
      /\ "tex_coord1" \in DOMAIN Place["vec2"] /\ Place["vec2"]["tex_coord1"] = "tex_coords1"
      /\ "tex_coord2" \in DOMAIN Place["vec2"] /\ Place["vec2"]["tex_coord2"] = "tex_coords2"
  BY DEF Place
<1> HIDE DEF M, s0
<1>8. s1 \in M /\ IsCornered(s1, s0, "vertices", "position", face)
  BY <1>4, <1>5, <1>6, CorneredIs DEF M
<1> HIDE DEF s1
<1>9. s2 \in M /\ IF Textured(m, 0) THEN IsCornered(s2, s1, "tex_coords0", "texcoord", face) ELSE s2 = s1
  BY <1>5, <1>6, <1>7, <1>8, CorneredIs DEF M
<1> HIDE DEF s2
<1>10. s3 \in M /\ IF Textured(m, 1) THEN IsCornered(s3, s2, "tex_coords1", "texcoord", face) ELSE s3 = s2
  BY <1>5, <1>6, <1>7, <1>9, CorneredIs DEF M
<1> HIDE DEF s3
<1>11. s4 \in M /\ IF Textured(m, 2) THEN IsCornered(s4, s3, "tex_coords2", "texcoord", face) ELSE s4 = s3
  BY <1>5, <1>6, <1>7, <1>10, CorneredIs DEF M
<1> HIDE DEF s4
<1>12. s5 \in M /\ IF m.normals THEN IsCornered(s5, s4, "normals", "normal", face) ELSE s5 = s4
  BY <1>5, <1>6, <1>11, CorneredIs DEF M
<1> HIDE DEF s5
<1>13. s6 \in M /\ IF m.colored > 0 THEN IsCornered(s6, s5, "colors4", "color", face) ELSE s6 = s5
  BY <1>5, <1>6, <1>12, CorneredIs DEF M
<1> HIDE DEF s6
<1>14. /\ s1.indice["triangles"] = App3(s.indice["triangles"], l, l + 1, l + 2)
       /\ s2.indice["triangles"] = s1.indice["triangles"] /\ s3.indice["triangles"] = s2.indice["triangles"]
       /\ s4.indice["triangles"] = s3.indice["triangles"] /\ s5.indice["triangles"] = s4.indice["triangles"]
       /\ s6.indice["triangles"] = s5.indice["triangles"]
  <2> HIDE DEF l
  <2>1. s1.indice["triangles"] = App3(s.indice["triangles"], l, l + 1, l + 2)
    BY <1>3, <1>4, <1>8 DEF IsCornered, l
  <2>2. s2.indice["triangles"] = s1.indice["triangles"]
    BY <1>3, <1>9 DEF IsCornered
  <2>3. s3.indice["triangles"] = s2.indice["triangles"]
    BY <1>3, <1>10 DEF IsCornered
  <2>4. s4.indice["triangles"] = s3.indice["triangles"]
    BY <1>3, <1>11 DEF IsCornered
  <2>5. s5.indice["triangles"] = s4.indice["triangles"]
    BY <1>3, <1>12 DEF IsCornered
  <2>6. s6.indice["triangles"] = s5.indice["triangles"]
    BY <1>3, <1>13 DEF IsCornered
  <2> QED BY <2>1, <2>2, <2>3, <2>4, <2>5, <2>6
<1>15. ASSUME NEW c \in Channels
       PROVE  s6.data[c] = IF HasChannel(m, c) THEN App3(s.data[c], e1(c), e2(c), e3(c)) ELSE s.data[c]
  <2> HIDE DEF e1, e2, e3
  <2> DEFINE p3(what) == App3(s.data[c], <<what, face[1]>>, <<what, face[2]>>, <<what, face[3]>>)
  <2>1. s1.data[c] = IF c = "vertices" THEN p3("position") ELSE s.data[c]
    BY <1>4, <1>8 DEF IsCornered
  <2>2. s2.data[c] = IF c = "tex_coords0" /\ Textured(m, 0) THEN p3("texcoord") ELSE s1.data[c]
    BY <1>9, <2>1 DEF IsCornered
  <2>3. s3.data[c] = IF c = "tex_coords1" /\ Textured(m, 1) THEN p3("texcoord") ELSE s2.data[c]
    BY <1>10, <2>1, <2>2 DEF IsCornered
  <2>4. s4.data[c] = IF c = "tex_coords2" /\ Textured(m, 2) THEN p3("texcoord") ELSE s3.data[c]
    BY <1>11, <2>1, <2>2, <2>3 DEF IsCornered
  <2>5. s5.data[c] = IF c = "normals" /\ m.normals THEN p3("normal") ELSE s4.data[c]
    BY <1>12, <2>1, <2>2, <2>3, <2>4 DEF IsCornered
  <2>6. s6.data[c] = IF c = "colors4" /\ m.colored > 0 THEN p3("color") ELSE s5.data[c]
    BY <1>13, <2>1, <2>2, <2>3, <2>4, <2>5 DEF IsCornered
  <2>7. App3(s.data[c], e1(c), e2(c), e3(c)) = p3(What(c))
    BY DEF e1, e2, e3
  <2> HIDE DEF p3
  <2> QED BY <2>1, <2>2, <2>3, <2>4, <2>5, <2>6, <2>7 DEF Channels, HasChannel, What
<1> QED BY <1>1, <1>13, <1>14, <1>15 DEF IsFaced, M

-----------------------------------------------------------------------------
(* Meshes: the meshes and materials of a file *)

LEMMA IsSequenceFact ==
    ASSUME NEW s, IsSequence(s)
    PROVE  /\ Len(s) \in Nat /\ DOMAIN s = 1..Len(s) /\ s \in Seq(ToSet(s))
           /\ \A i \in DOMAIN s : s[i] \in ToSet(s)
BY DEF IsSequence, ToSet

\* What the assumption says of one file.
LEMMA FileFact ==
    ASSUME NEW f \in SceneFiles
    PROVE  /\ Len(f.meshes) \in Nat /\ DOMAIN f.meshes = 1..Len(f.meshes)
           /\ Len(f.materials) \in Nat /\ DOMAIN f.materials = 1..Len(f.materials)
           /\ \A i \in DOMAIN f.meshes :
                 /\ f.meshes[i] \in ToSet(f.meshes) /\ f.meshes[i].material \in DOMAIN f.materials
                 /\ f.meshes[i].normals \in BOOLEAN /\ f.meshes[i].colored \in Nat
                 /\ Len(f.meshes[i].faces) \in Nat /\ DOMAIN f.meshes[i].faces = 1..Len(f.meshes[i].faces)
                 /\ \A k \in 1..Len(f.meshes[i].faces) :
                       /\ f.meshes[i].faces[k] \in ToSet(f.meshes[i].faces)
                       /\ IsSequence(f.meshes[i].faces[k])
           /\ \A i \in DOMAIN f.materials : f.materials[i] \in ToSet(f.materials)
<1>1. IsSequence(f.meshes) /\ IsSequence(f.materials)
  BY MeshesAssumption
<1>2. ASSUME NEW i \in DOMAIN f.meshes
      PROVE  /\ f.meshes[i].material \in DOMAIN f.materials
             /\ f.meshes[i].normals \in BOOLEAN /\ f.meshes[i].colored \in Nat
             /\ IsSequence(f.meshes[i].faces) /\ \A face \in ToSet(f.meshes[i].faces) : IsSequence(face)
  BY MeshesAssumption
<1>3. ASSUME NEW i \in DOMAIN f.meshes
      PROVE  /\ Len(f.meshes[i].faces) \in Nat /\ DOMAIN f.meshes[i].faces = 1..Len(f.meshes[i].faces)
             /\ \A k \in 1..Len(f.meshes[i].faces) :
                   /\ f.meshes[i].faces[k] \in ToSet(f.meshes[i].faces)
                   /\ IsSequence(f.meshes[i].faces[k])
  BY <1>2, IsSequenceFact
<1> QED BY <1>1, <1>2, <1>3, IsSequenceFact

\* The first n faces of m are in s, and nothing else is.
HasFaces(s, m, n) ==
    /\ Len(s.indice["triangles"]) = 3 * n
    /\ \A j \in 1..(3 * n) : s.indice["triangles"][j] = j - 1
    /\ \A c \in Channels :
          IF HasChannel(m, c)
          THEN /\ Len(s.data[c]) = 3 * n
               /\ \A f \in 1..n, k \in 1..3 : s.data[c][3 * (f - 1) + k] = <<What(c), m.faces[f][k]>>
          ELSE s.data[c] = <<>>

LEMMA NoFaces ==
    /\ NewMesh \in MeshOf(FileElements)
    /\ \A m : HasFaces(NewMesh, m, 0)
<1>1. NewMesh = [kind |-> "vertex", mode |-> "triangle_strip",
                 data |-> [c \in Channels |-> <<>>], indice |-> [m \in MeshModes |-> <<>>]]
  BY DEF NewMesh
<1>2. "vertex" \in MeshKinds
  <2>1. "vec3" \in DOMAIN Place /\ "vertex" \in DOMAIN Place["vec3"]
    BY DEF Place
  <2> QED BY <2>1 DEF MeshKinds
<1>3. "triangle_strip" \in MeshModes /\ "triangles" \in MeshModes
  BY MeshesAssumption
<1>4. <<>> \in Seq(FileElements) /\ <<>> \in Seq(Nat) /\ Len(<<>>) = 0
  OBVIOUS
<1>5. NewMesh \in MeshOf(FileElements)
  <2>1. [c \in Channels |-> <<>>] \in [Channels -> Seq(FileElements)]
    BY <1>4
  <2>2. [m \in MeshModes |-> <<>>] \in [MeshModes -> Seq(Nat)]
    BY <1>4
  <2> QED BY <1>1, <1>2, <1>3, <2>1, <2>2 DEF MeshOf
<1>6. NewMesh.indice["triangles"] = <<>> /\ \A c \in Channels : NewMesh.data[c] = <<>>
  BY <1>1, <1>3
<1> QED BY <1>4, <1>5, <1>6 DEF HasFaces

LEMMA OneMoreFace ==
    ASSUME NEW s \in MeshOf(FileElements), NEW m, NEW n \in Nat, HasFaces(s, m, n),
           \A k \in 1..3 : m.faces[n + 1][k] \in Corners,
           NEW t, IsFaced(t, s, m, m.faces[n + 1])
    PROVE  HasFaces(t, m, n + 1)
<1> DEFINE l == Len(s.data["vertices"])
           q == s.indice["triangles"]
           face == m.faces[n + 1]
<1>1. /\ s.data \in [Channels -> Seq(FileElements)] /\ s.indice \in [MeshModes -> Seq(Nat)]
      /\ "vertices" \in Channels /\ "triangles" \in MeshModes
  BY MeshesAssumption DEF MeshOf, Channels
<1>2. q \in Seq(Nat) /\ Len(q) = 3 * n /\ \A j \in 1..(3 * n) : q[j] = j - 1
  BY <1>1 DEF HasFaces
<1>3. HasChannel(m, "vertices")
  BY DEF HasChannel
<1>4. l = 3 * n
  BY <1>1, <1>3 DEF HasFaces
<1>5. t.indice["triangles"] = App3(q, l, l + 1, l + 2)
  BY DEF IsFaced
<1>6. l \in Nat /\ l + 1 \in Nat /\ l + 2 \in Nat
  BY <1>4
<1> HIDE DEF l, q
<1>7. /\ Len(t.indice["triangles"]) = Len(q) + 3
      /\ \A j \in 1..Len(q) : t.indice["triangles"][j] = q[j]
      /\ t.indice["triangles"][Len(q) + 1] = l /\ t.indice["triangles"][Len(q) + 2] = l + 1
      /\ t.indice["triangles"][Len(q) + 3] = l + 2
  <2>1. EndsWith(t.indice["triangles"], q, l, l + 1, l + 2)
    BY <1>2, <1>5, <1>6, App3Fact
  <2> QED BY <2>1 DEF EndsWith
<1>8. /\ Len(t.indice["triangles"]) = 3 * (n + 1)
      /\ \A j \in 1..(3 * (n + 1)) : t.indice["triangles"][j] = j - 1
  <2>1. /\ Len(q) = 3 * n /\ l = 3 * n /\ Len(t.indice["triangles"]) = 3 * (n + 1)
    BY <1>2, <1>4, <1>7
  <2>2. ASSUME NEW j \in 1..(3 * (n + 1)) PROVE t.indice["triangles"][j] = j - 1
    <3>1. j \in 1..(3 * n) \/ j = 3 * n + 1 \/ j = 3 * n + 2 \/ j = 3 * n + 3
      OBVIOUS
    <3>2. CASE j \in 1..(3 * n)
      BY <1>2, <1>7, <2>1, <3>2
    <3>3. CASE j = 3 * n + 1
      BY <1>7, <2>1, <3>3
    <3>4. CASE j = 3 * n + 2
      BY <1>7, <2>1, <3>4
    <3>5. CASE j = 3 * n + 3
      BY <1>7, <2>1, <3>5
    <3> QED BY <3>1, <3>2, <3>3, <3>4, <3>5
  <2> QED BY <2>1, <2>2
<1>9. ASSUME NEW c \in Channels, ~ HasChannel(m, c)
      PROVE  t.data[c] = <<>>
  BY <1>9 DEF IsFaced, HasFaces
<1>10. ASSUME NEW c \in Channels, HasChannel(m, c)
       PROVE  /\ Len(t.data[c]) = 3 * (n + 1)
              /\ \A f \in 1..(n + 1), k \in 1..3 : t.data[c][3 * (f - 1) + k] = <<What(c), m.faces[f][k]>>
  <2> DEFINE p == s.data[c]
             r == t.data[c]
             w == What(c)
  <2>1. /\ p \in Seq(FileElements) /\ Len(p) = 3 * n
        /\ \A f \in 1..n, k \in 1..3 : p[3 * (f - 1) + k] = <<w, m.faces[f][k]>>
    BY <1>1, <1>10 DEF HasFaces
  <2>2. r = App3(p, <<w, face[1]>>, <<w, face[2]>>, <<w, face[3]>>)
    BY <1>10 DEF IsFaced
  <2>3. w \in {"position", "texcoord", "normal", "color"}
    BY DEF What
  <2>4. <<w, face[1]>> \in FileElements /\ <<w, face[2]>> \in FileElements /\ <<w, face[3]>> \in FileElements
    BY <2>3 DEF FileElements
  <2> HIDE DEF p, r, w, face
  <2>5. /\ Len(r) = Len(p) + 3
        /\ \A j \in 1..Len(p) : r[j] = p[j]
        /\ r[Len(p) + 1] = <<w, face[1]>> /\ r[Len(p) + 2] = <<w, face[2]>> /\ r[Len(p) + 3] = <<w, face[3]>>
    <3>1. EndsWith(r, p, <<w, face[1]>>, <<w, face[2]>>, <<w, face[3]>>)
      BY <2>1, <2>2, <2>4, App3Fact
    <3> QED BY <3>1 DEF EndsWith
  <2>6. ASSUME NEW f \in 1..(n + 1), NEW k \in 1..3
        PROVE  r[3 * (f - 1) + k] = <<w, m.faces[f][k]>>
    <3>1. CASE f = n + 1
      <4>1. 3 * (f - 1) + k = Len(p) + k
        BY <2>1, <3>1
      <4>2. k = 1 \/ k = 2 \/ k = 3
        OBVIOUS
      <4>3. r[Len(p) + k] = <<w, face[k]>>
        BY <2>5, <4>2
      <4> QED BY <3>1, <4>1, <4>3 DEF face
    <3>2. CASE f # n + 1
      <4>1. f \in 1..n
        BY <3>2
      <4>2. 3 * (f - 1) + k \in 1..Len(p)
        BY <2>1, <4>1
      <4> QED BY <2>1, <2>5, <4>1, <4>2
    <3> QED BY <3>1, <3>2
  <2>7. Len(r) = 3 * (n + 1)
    BY <2>1, <2>5
  <2> QED BY <2>6, <2>7 DEF r, w
<1> QED BY <1>8, <1>9, <1>10 DEF HasFaces

LoadStages == {"materials", "meshes", "nodes", "done", "failed"}

FacesInv ==
    /\ file \in SceneFiles /\ loading \in LoadStages /\ faces \in Nat
    /\ meshes \in Seq(MeshOf(FileElements)) /\ filled \in MeshOf(FileElements)
    /\ Len(meshes) <= Len(file.meshes)
    /\ \A i \in 1..Len(meshes) : HasFaces(meshes[i], file.meshes[i], Len(file.meshes[i].faces))
    /\ Len(meshes) < Len(file.meshes) => HasFaces(filled, file.meshes[Len(meshes) + 1], faces)

LEMMA FacesBegin == MeshInit => FacesInv
<1> SUFFICES ASSUME MeshInit PROVE FacesInv
  OBVIOUS
<1>1. file \in SceneFiles /\ loading = "materials" /\ meshes = <<>> /\ filled = NewMesh /\ faces = 0
  BY DEF MeshInit
<1>2. Len(file.meshes) \in Nat
  BY <1>1, FileFact
<1>3. meshes \in Seq(MeshOf(FileElements)) /\ Len(meshes) = 0
  BY <1>1
<1> QED BY <1>1, <1>2, <1>3, NoFaces DEF FacesInv, LoadStages

LEMMA LoadFaceKeeps ==
    ASSUME FacesInv, LoadFace
    PROVE  FacesInv'
<1> DEFINE m == file.meshes[Len(meshes) + 1]
           face == m.faces[faces + 1]
<1>1. /\ file \in SceneFiles /\ loading \in LoadStages /\ faces \in Nat
      /\ meshes \in Seq(MeshOf(FileElements)) /\ filled \in MeshOf(FileElements)
      /\ Len(meshes) <= Len(file.meshes)
      /\ \A i \in 1..Len(meshes) : HasFaces(meshes[i], file.meshes[i], Len(file.meshes[i].faces))
      /\ Len(meshes) < Len(file.meshes) => HasFaces(filled, m, faces)
  BY DEF FacesInv
<1>2. /\ Len(meshes) < Len(file.meshes) /\ faces < Len(m.faces) /\ UNCHANGED <<file, meshes>>
      /\ \/ FaceLoads(m, face) /\ filled' = FacePushed(filled, m, face) /\ faces' = faces + 1 /\ loading' = loading
         \/ loading' = "failed" /\ UNCHANGED <<filled, faces>>
  BY DEF LoadFace, Fails
<1>3. CASE UNCHANGED <<filled, faces>> /\ loading' = "failed"
  BY <1>1, <1>2, <1>3 DEF FacesInv, LoadStages
<1>4. CASE FaceLoads(m, face) /\ filled' = FacePushed(filled, m, face) /\ faces' = faces + 1 /\ loading' = loading
  <2>1. Len(meshes) + 1 \in DOMAIN file.meshes /\ Len(meshes) \in Nat
    BY <1>1, <1>2, FileFact
  <2>2. /\ m \in ToSet(file.meshes) /\ m.normals \in BOOLEAN
        /\ Len(m.faces) \in Nat
        /\ \A k \in 1..Len(m.faces) : m.faces[k] \in ToSet(m.faces) /\ IsSequence(m.faces[k])
    BY <1>1, <2>1, FileFact
  <2> HIDE DEF m
  <2>3. face \in ToSet(m.faces) /\ IsSequence(face)
    BY <1>1, <1>2, <2>2
  <2> HIDE DEF face
  <2>4. Len(face) = 3
    BY <1>4 DEF FaceLoads
  <2>5. \A k \in 1..3 : face[k] \in ToSet(face)
    BY <2>3, <2>4, IsSequenceFact
  <2>6. \A k \in 1..3 : face[k] \in Corners
    BY <1>1, <2>2, <2>3, <2>5 DEF Corners
  <2>7. filled' \in MeshOf(FileElements) /\ IsFaced(filled', filled, m, face)
    BY <1>1, <1>4, <2>2, <2>6, FaceIs
  <2>8. HasFaces(filled', m, faces + 1)
    BY <1>1, <1>2, <2>6, <2>7, OneMoreFace DEF face
  <2> QED BY <1>1, <1>2, <1>4, <2>7, <2>8 DEF FacesInv, m
<1> QED BY <1>2, <1>3, <1>4

LEMMA LoadMeshKeepsFaces ==
    ASSUME FacesInv, LoadMesh
    PROVE  FacesInv'
<1>1. /\ file \in SceneFiles /\ loading \in LoadStages /\ faces \in Nat
      /\ meshes \in Seq(MeshOf(FileElements)) /\ filled \in MeshOf(FileElements)
      /\ Len(meshes) <= Len(file.meshes)
      /\ \A i \in 1..Len(meshes) : HasFaces(meshes[i], file.meshes[i], Len(file.meshes[i].faces))
      /\ Len(meshes) < Len(file.meshes) => HasFaces(filled, file.meshes[Len(meshes) + 1], faces)
  BY DEF FacesInv
<1>2. /\ Len(meshes) < Len(file.meshes) /\ faces = Len(file.meshes[Len(meshes) + 1].faces)
      /\ UNCHANGED <<file, loading>> /\ meshes' = Append(meshes, filled) /\ filled' = NewMesh /\ faces' = 0
  BY DEF LoadMesh
<1>3. /\ meshes' \in Seq(MeshOf(FileElements)) /\ Len(meshes') = Len(meshes) + 1
      /\ meshes'[Len(meshes) + 1] = filled /\ \A i \in 1..Len(meshes) : meshes'[i] = meshes[i]
      /\ Len(meshes) \in Nat
  BY <1>1, <1>2
<1>4. Len(file.meshes) \in Nat
  BY <1>1, FileFact
<1>5. Len(meshes') <= Len(file.meshes)
  BY <1>2, <1>3, <1>4
<1>6. ASSUME NEW i \in 1..Len(meshes')
      PROVE  HasFaces(meshes'[i], file.meshes[i], Len(file.meshes[i].faces))
  <2>1. CASE i = Len(meshes) + 1
    BY <1>1, <1>2, <1>3, <2>1
  <2>2. CASE i # Len(meshes) + 1
    <3>1. i \in 1..Len(meshes)
      BY <1>3, <2>2
    <3> QED BY <1>1, <1>3, <3>1
  <2> QED BY <2>1, <2>2
<1> QED BY <1>1, <1>2, <1>3, <1>5, <1>6, NoFaces DEF FacesInv

LEMMA FacesKeep == FacesInv /\ [MeshNext \/ LoadNext]_meshVars => FacesInv'
<1> SUFFICES ASSUME FacesInv, [MeshNext \/ LoadNext]_meshVars PROVE FacesInv'
  OBVIOUS
<1>1. ASSUME UNCHANGED <<file, meshes, filled, faces>>, loading' \in LoadStages
      PROVE  FacesInv'
  BY <1>1 DEF FacesInv
<1>2. CASE LoadFace
  BY <1>2, LoadFaceKeeps
<1>3. CASE LoadMesh
  BY <1>3, LoadMeshKeepsFaces
<1>4. CASE MeshNext \/ UNCHANGED meshVars
  <2>1. UNCHANGED loadVars
    BY <1>4 DEF MeshNext, SetMode, SetKind, AppendElement, Drawable, meshVars
  <2> QED BY <1>1, <2>1 DEF loadVars, FacesInv
<1>5. CASE LoadMaterial \/ MaterialsDone \/ MeshesDone \/ LoadNode \/ NodesDone
  <2>1. UNCHANGED <<file, meshes, filled, faces>> /\ loading' \in LoadStages
    BY <1>5 DEF LoadMaterial, MaterialsDone, MeshesDone, LoadNode, NodesDone, Fails, FacesInv, LoadStages
  <2> QED BY <1>1, <2>1
<1> QED BY <1>2, <1>3, <1>4, <1>5 DEF LoadNext

LEMMA FacesGiveCorners == FacesInv => CornersAreKept
<1> SUFFICES ASSUME FacesInv PROVE CornersAreKept
  OBVIOUS
<1>1. /\ file \in SceneFiles /\ meshes \in Seq(MeshOf(FileElements)) /\ Len(meshes) <= Len(file.meshes)
      /\ \A i \in 1..Len(meshes) : HasFaces(meshes[i], file.meshes[i], Len(file.meshes[i].faces))
  BY DEF FacesInv
<1> SUFFICES ASSUME NEW i \in DOMAIN meshes
             PROVE  LET m == file.meshes[i]
                        triangles == meshes[i].indice["triangles"]
                        data == meshes[i].data
                    IN /\ Len(triangles) = 3 * Len(m.faces)
                       /\ \A f \in DOMAIN m.faces, k \in 1..3 :
                              data.vertices[triangles[3 * (f - 1) + k] + 1] = <<"position", m.faces[f][k]>>
                       /\ \A c \in Channels :
                              IF HasChannel(m, c)
                              THEN /\ Len(data[c]) = 3 * Len(m.faces)
                                   /\ \A f \in DOMAIN m.faces, k \in 1..3 :
                                          data[c][3 * (f - 1) + k][2] = m.faces[f][k]
                              ELSE data[c] = <<>>
  BY DEF CornersAreKept
<1> DEFINE m == file.meshes[i]
           n == Len(m.faces)
           triangles == meshes[i].indice["triangles"]
           data == meshes[i].data
<1>2. i \in 1..Len(meshes) /\ HasFaces(meshes[i], m, n) /\ i \in DOMAIN file.meshes
  BY <1>1, FileFact
<1>3. n \in Nat /\ DOMAIN m.faces = 1..n
  BY <1>1, <1>2, FileFact
<1> HIDE DEF m, n
<1>4. Len(triangles) = 3 * n /\ \A j \in 1..(3 * n) : triangles[j] = j - 1
  BY <1>2 DEF HasFaces
<1>5. ASSUME NEW c \in Channels
      PROVE  IF HasChannel(m, c)
             THEN /\ Len(data[c]) = 3 * n
                  /\ \A f \in 1..n, k \in 1..3 : data[c][3 * (f - 1) + k] = <<What(c), m.faces[f][k]>>
             ELSE data[c] = <<>>
  BY <1>2 DEF HasFaces
<1> HIDE DEF triangles, data
<1>6. "vertices" \in Channels /\ HasChannel(m, "vertices") /\ What("vertices") = "position"
  BY DEF Channels, HasChannel, What
<1>7. ASSUME NEW f \in 1..n, NEW k \in 1..3
      PROVE  data["vertices"][triangles[3 * (f - 1) + k] + 1] = <<"position", m.faces[f][k]>>
  <2>1. 3 * (f - 1) + k \in 1..(3 * n)
    BY <1>3
  <2>2. triangles[3 * (f - 1) + k] + 1 = 3 * (f - 1) + k
    BY <1>4, <2>1
  <2> QED BY <1>5, <1>6, <2>2
<1>8. ASSUME NEW c \in Channels, HasChannel(m, c), NEW f \in 1..n, NEW k \in 1..3
      PROVE  data[c][3 * (f - 1) + k][2] = m.faces[f][k]
  <2>1. data[c][3 * (f - 1) + k] = <<What(c), m.faces[f][k]>>
    BY <1>5, <1>8
  <2> QED BY <2>1
<1>9. /\ \A f \in DOMAIN m.faces, k \in 1..3 :
             data["vertices"][triangles[3 * (f - 1) + k] + 1] = <<"position", m.faces[f][k]>>
      /\ \A c \in Channels :
             IF HasChannel(m, c)
             THEN /\ Len(data[c]) = 3 * n
                  /\ \A f \in DOMAIN m.faces, k \in 1..3 : data[c][3 * (f - 1) + k][2] = m.faces[f][k]
             ELSE data[c] = <<>>
  <2>1. \A f \in DOMAIN m.faces, k \in 1..3 :
             data["vertices"][triangles[3 * (f - 1) + k] + 1] = <<"position", m.faces[f][k]>>
    BY <1>3, <1>7
  <2>2. ASSUME NEW c \in Channels
        PROVE  IF HasChannel(m, c)
               THEN /\ Len(data[c]) = 3 * n
                    /\ \A f \in DOMAIN m.faces, k \in 1..3 : data[c][3 * (f - 1) + k][2] = m.faces[f][k]
               ELSE data[c] = <<>>
    <3>1. CASE HasChannel(m, c)
      <4>1. Len(data[c]) = 3 * n
        BY <1>5, <3>1
      <4>2. \A f \in DOMAIN m.faces, k \in 1..3 : data[c][3 * (f - 1) + k][2] = m.faces[f][k]
        <5>1. SUFFICES ASSUME NEW f \in 1..n, NEW k \in 1..3
                       PROVE  data[c][3 * (f - 1) + k][2] = m.faces[f][k]
          BY <1>3
        <5> QED BY ONLY <1>8, <2>2, <3>1, <5>1
      <4> QED BY <3>1, <4>1, <4>2
    <3>2. CASE ~ HasChannel(m, c)
      BY <1>5, <3>2
    <3> QED BY <3>1, <3>2
  <2> QED BY <2>1, <2>2
<1> QED BY <1>4, <1>9 DEF m, n, triangles, data

-----------------------------------------------------------------------------
(* Meshes: the colours of a material *)

SceneMaterial ==
    [textures : {[i \in DOMAIN ts |-> Texture(ts[i])] : ts \in UNION {ToSet(f.materials) : f \in SceneFiles}},
     colors : Nat]

\* The colours that the first n meshes of f ask of material k.
AskedOf(f, n, k) == {f.meshes[i].colored : i \in {j \in 1..n : f.meshes[j].material = k}}

\* A material with cs colours has what is asked of it.
Declares(cs, asked) == cs \in asked \cup {0} /\ \A c \in asked : c <= cs

ColorsInv ==
    /\ materials \in Seq(SceneMaterial)
    /\ loading = "materials" => meshes = <<>>
    /\ loading = "meshes" => Len(materials) = Len(file.materials)
    /\ \A k \in 1..Len(materials) : Declares(materials[k].colors, AskedOf(file, Len(meshes), k))

LEMMA ColorsBegin == MeshInit => ColorsInv
<1> SUFFICES ASSUME MeshInit PROVE ColorsInv
  OBVIOUS
<1>1. file \in SceneFiles /\ loading = "materials" /\ meshes = <<>> /\ materials = <<>>
  BY DEF MeshInit
<1>2. materials \in Seq(SceneMaterial) /\ Len(materials) = 0
  BY <1>1
<1> QED BY <1>1, <1>2 DEF ColorsInv

LEMMA LoadMaterialKeeps ==
    ASSUME FacesInv, ColorsInv, LoadMaterial
    PROVE  ColorsInv'
<1> DEFINE textures == file.materials[Len(materials) + 1]
           new == [textures |-> [i \in DOMAIN textures |-> Texture(textures[i])], colors |-> 0]
<1>1. /\ materials \in Seq(SceneMaterial) /\ meshes = <<>>
      /\ \A k \in 1..Len(materials) : Declares(materials[k].colors, AskedOf(file, Len(meshes), k))
      /\ file \in SceneFiles
  BY DEF ColorsInv, FacesInv, LoadMaterial
<1>2. /\ loading = "materials" /\ Len(materials) < Len(file.materials) /\ UNCHANGED <<file, meshes>>
      /\ \/ materials' = Append(materials, new) /\ loading' = loading
         \/ materials' = materials /\ loading' = "failed"
  BY DEF LoadMaterial, Fails
<1>3. CASE materials' = materials /\ loading' = "failed"
  BY <1>1, <1>2, <1>3 DEF ColorsInv
<1>4. CASE materials' = Append(materials, new) /\ loading' = loading
  <2>1. Len(materials) \in Nat /\ Len(materials) + 1 \in DOMAIN file.materials
    BY <1>1, <1>2, FileFact
  <2>2. textures \in ToSet(file.materials)
    BY <1>1, <2>1, FileFact
  <2> HIDE DEF textures
  <2>3. new \in SceneMaterial /\ new.colors = 0
    BY <1>1, <2>2 DEF SceneMaterial
  <2> HIDE DEF new
  <2>4. /\ materials' \in Seq(SceneMaterial) /\ Len(materials') = Len(materials) + 1
        /\ materials'[Len(materials) + 1] = new /\ \A k \in 1..Len(materials) : materials'[k] = materials[k]
    BY <1>1, <1>4, <2>3
  <2>5. \A k \in 1..Len(materials') : AskedOf(file, Len(meshes), k) = {}
    <3>1. Len(meshes) = 0
      BY <1>1
    <3> QED BY <3>1 DEF AskedOf
  <2>6. ASSUME NEW k \in 1..Len(materials')
        PROVE  Declares(materials'[k].colors, AskedOf(file, Len(meshes), k))
    <3>1. CASE k = Len(materials) + 1
      BY <2>3, <2>4, <2>5, <3>1 DEF Declares
    <3>2. CASE k # Len(materials) + 1
      <4>1. k \in 1..Len(materials)
        BY <2>1, <2>4, <3>2
      <4> QED BY <1>1, <2>4, <4>1
    <3> QED BY <3>1, <3>2
  <2> QED BY <1>1, <1>2, <1>4, <2>4, <2>6 DEF ColorsInv
<1> QED BY <1>2, <1>3, <1>4

\* The material of the mesh gets its colours, if it has fewer.
Coloured(ms, k, n) == [ms EXCEPT ![k].colors = IF @ < n THEN n ELSE @]

LEMMA ColouredIs ==
    ASSUME NEW ms \in Seq(SceneMaterial), NEW k \in 1..Len(ms), NEW n \in Nat
    PROVE  /\ Coloured(ms, k, n) \in Seq(SceneMaterial) /\ Len(Coloured(ms, k, n)) = Len(ms)
           /\ \A i \in 1..Len(ms) :
                 Coloured(ms, k, n)[i].colors = IF i = k /\ ms[k].colors < n THEN n ELSE ms[i].colors
<1> DEFINE new == [ms[k] EXCEPT !.colors = IF @ < n THEN n ELSE @]
<1>1. ms[k] \in SceneMaterial
  OBVIOUS
<1>2. /\ ms[k] = [textures |-> ms[k].textures, colors |-> ms[k].colors] /\ ms[k].colors \in Nat
      /\ \A c \in Nat : [textures |-> ms[k].textures, colors |-> c] \in SceneMaterial
  BY <1>1 DEF SceneMaterial
<1>3. new = [textures |-> ms[k].textures, colors |-> IF ms[k].colors < n THEN n ELSE ms[k].colors]
  BY <1>2
<1>4. new \in SceneMaterial /\ new.colors = IF ms[k].colors < n THEN n ELSE ms[k].colors
  BY <1>2, <1>3
<1>5. Coloured(ms, k, n) = [ms EXCEPT ![k] = new]
  BY DEF Coloured
<1> HIDE DEF new
<1> QED BY <1>4, <1>5

LEMMA LoadMeshKeepsColors ==
    ASSUME FacesInv, ColorsInv, LoadMesh
    PROVE  ColorsInv'
<1> DEFINE n == Len(meshes)
           m == file.meshes[n + 1]
           asked(k) == AskedOf(file, n, k)
<1>1. /\ materials \in Seq(SceneMaterial) /\ Len(materials) = Len(file.materials)
      /\ \A k \in 1..Len(materials) : Declares(materials[k].colors, asked(k))
      /\ file \in SceneFiles /\ meshes \in Seq(MeshOf(FileElements)) /\ filled \in MeshOf(FileElements)
  BY DEF ColorsInv, FacesInv, LoadMesh
<1>2. /\ loading = "meshes" /\ n < Len(file.meshes) /\ UNCHANGED <<file, loading>>
      /\ materials' = Coloured(materials, m.material, m.colored) /\ meshes' = Append(meshes, filled)
  BY DEF LoadMesh, Coloured
<1>3. n \in Nat /\ Len(meshes') = n + 1 /\ n + 1 \in DOMAIN file.meshes
  BY <1>1, <1>2, FileFact
<1>4. m.material \in 1..Len(materials) /\ m.colored \in Nat
  BY <1>1, <1>3, FileFact
<1>5. /\ materials' \in Seq(SceneMaterial) /\ Len(materials') = Len(materials)
      /\ \A i \in 1..Len(materials) :
            materials'[i].colors = IF i = m.material /\ materials[i].colors < m.colored
                                   THEN m.colored ELSE materials[i].colors
  BY <1>1, <1>2, <1>4, ColouredIs
<1>6. ASSUME NEW k \in 1..Len(materials)
      PROVE  Declares(materials'[k].colors, AskedOf(file, n + 1, k))
  <2>1. Declares(materials[k].colors, asked(k))
    BY <1>1
  <2>2. /\ k # m.material => AskedOf(file, n + 1, k) = asked(k)
        /\ k = m.material => AskedOf(file, n + 1, k) = asked(k) \cup {m.colored}
    <3>1. 1..(n + 1) = (1..n) \cup {n + 1}
      BY <1>3
    <3> QED BY <3>1 DEF AskedOf
  <2>3. asked(k) \subseteq Nat
    <3>1. \A i \in 1..n : i \in DOMAIN file.meshes
      BY <1>1, <1>2, <1>3, FileFact
    <3>2. \A i \in 1..n : file.meshes[i].colored \in Nat
      BY <1>1, <3>1, FileFact
    <3> QED BY <3>2 DEF AskedOf
  <2>4. materials[k].colors \in Nat
    <3>1. materials[k] \in SceneMaterial
      BY <1>1
    <3> QED BY <3>1 DEF SceneMaterial
  <2> HIDE DEF asked, m, n
  <2>5. CASE k # m.material
    BY <1>5, <2>1, <2>2, <2>5
  <2>6. CASE k = m.material
    <3>1. CASE materials[k].colors < m.colored
      <4>1. materials'[k].colors = m.colored
        BY <1>5, <2>6, <3>1
      <4>2. \A c \in asked(k) : c <= m.colored
        BY <1>4, <2>1, <2>3, <2>4, <3>1 DEF Declares
      <4> QED BY <1>4, <2>2, <2>6, <4>1, <4>2 DEF Declares
    <3>2. CASE ~ (materials[k].colors < m.colored)
      <4>1. materials'[k].colors = materials[k].colors
        BY <1>5, <3>2
      <4>2. m.colored <= materials[k].colors
        BY <1>4, <2>4, <3>2
      <4> QED BY <2>1, <2>2, <2>6, <4>1, <4>2 DEF Declares
    <3> QED BY <3>1, <3>2
  <2> QED BY <2>5, <2>6
<1> QED BY <1>1, <1>2, <1>3, <1>5, <1>6 DEF ColorsInv

LEMMA ColorsKeep == FacesInv /\ ColorsInv /\ [MeshNext \/ LoadNext]_meshVars => ColorsInv'
<1> SUFFICES ASSUME FacesInv, ColorsInv, [MeshNext \/ LoadNext]_meshVars PROVE ColorsInv'
  OBVIOUS
<1>1. CASE LoadMaterial
  BY <1>1, LoadMaterialKeeps
<1>2. CASE LoadMesh
  BY <1>2, LoadMeshKeepsColors
<1>3. CASE MeshNext \/ UNCHANGED meshVars
  <2>1. UNCHANGED loadVars
    BY <1>3 DEF MeshNext, SetMode, SetKind, AppendElement, Drawable, meshVars
  <2> QED BY <2>1 DEF loadVars, ColorsInv
<1>4. CASE MaterialsDone \/ LoadFace \/ MeshesDone \/ LoadNode \/ NodesDone
  <2>1. /\ UNCHANGED <<file, meshes, materials>>
        /\ loading' = "materials" => loading = "materials"
        /\ loading' = "meshes" => loading = "meshes" \/ Len(materials) = Len(file.materials)
    BY <1>4 DEF MaterialsDone, LoadFace, MeshesDone, LoadNode, NodesDone, Fails
  <2> QED BY <2>1 DEF ColorsInv
<1> QED BY <1>1, <1>2, <1>3, <1>4 DEF LoadNext

LEMMA ColorsInvGives == FacesInv /\ ColorsInv => ColorsAreDeclared
<1> SUFFICES ASSUME FacesInv, ColorsInv PROVE ColorsAreDeclared
  OBVIOUS
<1>1. /\ DOMAIN materials = 1..Len(materials) /\ DOMAIN meshes = 1..Len(meshes)
      /\ \A k \in 1..Len(materials) : Declares(materials[k].colors, AskedOf(file, Len(meshes), k))
  BY DEF FacesInv, ColorsInv
<1> QED BY <1>1 DEF ColorsAreDeclared, Declares, AskedOf

-----------------------------------------------------------------------------
(* Meshes: the graph of a file *)

LEMMA NodesFact ==
    ASSUME NEW f \in SceneFiles
    PROVE  /\ Len(f.nodes) \in Nat /\ DOMAIN f.nodes = 1..Len(f.nodes)
           /\ \A n \in DOMAIN f.nodes :
                 /\ f.nodes[n].moved \in BOOLEAN
                 /\ Len(f.nodes[n].children) \in Nat /\ DOMAIN f.nodes[n].children = 1..Len(f.nodes[n].children)
                 /\ \A i \in DOMAIN f.nodes[n].children : f.nodes[n].children[i] \in ToSet(f.nodes[n].children)
                 /\ \A c \in ToSet(f.nodes[n].children) :
                       /\ c \in DOMAIN f.nodes /\ c > n
                       /\ \E i \in DOMAIN f.nodes[n].children : f.nodes[n].children[i] = c
                 /\ Len(f.nodes[n].meshes) \in Nat /\ DOMAIN f.nodes[n].meshes = 1..Len(f.nodes[n].meshes)
                 /\ n # 1 => \E p \in DOMAIN f.nodes : n \in ToSet(f.nodes[p].children)
           /\ \A p, q \in DOMAIN f.nodes :
                 \A i \in DOMAIN f.nodes[p].children, j \in DOMAIN f.nodes[q].children :
                    f.nodes[p].children[i] = f.nodes[q].children[j] => p = q /\ i = j
<1>1. IsSequence(f.nodes)
  BY MeshesAssumption
<1>2. ASSUME NEW n \in DOMAIN f.nodes
      PROVE  /\ f.nodes[n].moved \in BOOLEAN
             /\ IsSequence(f.nodes[n].children) /\ IsSequence(f.nodes[n].meshes)
             /\ \A c \in ToSet(f.nodes[n].children) : c \in DOMAIN f.nodes /\ c > n
             /\ n # 1 => \E p \in DOMAIN f.nodes : n \in ToSet(f.nodes[p].children)
  BY MeshesAssumption
<1>3. \A p, q \in DOMAIN f.nodes :
                 \A i \in DOMAIN f.nodes[p].children, j \in DOMAIN f.nodes[q].children :
                    f.nodes[p].children[i] = f.nodes[q].children[j] => p = q /\ i = j
  BY MeshesAssumption
<1>4. ASSUME NEW n \in DOMAIN f.nodes
      PROVE  /\ Len(f.nodes[n].children) \in Nat /\ DOMAIN f.nodes[n].children = 1..Len(f.nodes[n].children)
             /\ \A i \in DOMAIN f.nodes[n].children : f.nodes[n].children[i] \in ToSet(f.nodes[n].children)
             /\ Len(f.nodes[n].meshes) \in Nat /\ DOMAIN f.nodes[n].meshes = 1..Len(f.nodes[n].meshes)
  BY <1>2, IsSequenceFact
<1>5. ASSUME NEW n \in DOMAIN f.nodes, NEW c \in ToSet(f.nodes[n].children)
      PROVE  \E i \in DOMAIN f.nodes[n].children : f.nodes[n].children[i] = c
  BY DEF ToSet
<1> QED BY <1>1, <1>2, <1>3, <1>4, <1>5, IsSequenceFact

GraphNode == [parent : Nat, type : {"root", "group", "transform", "mesh"}, shows : Nat]

\* gs with what _load_node makes of the node x with k meshes, called with the
\* parent up: its place, what is under it and the graph.
Groups(gs, x, up) == IF x = 1 THEN gs ELSE Append(gs, Child(up, "group", x))
PlaceOf(gs, x) == IF x = 1 THEN 1 ELSE Len(gs) + 1
Moved(gs, x, up, mv) ==
    IF mv THEN Append(Groups(gs, x, up), Child(PlaceOf(gs, x), "transform", x)) ELSE Groups(gs, x, up)
TopOf(gs, x, mv) == Len(gs) + (IF x = 1 THEN 0 ELSE 1) + (IF mv THEN 1 ELSE 0)
UnderOf(gs, x, mv) == IF mv THEN TopOf(gs, x, mv) ELSE PlaceOf(gs, x)
Hung(gs, x, up, mv, k) ==
    Moved(gs, x, up, mv) \o [i \in 1..k |-> Child(UnderOf(gs, x, mv), "mesh", i)]

\* What gr has more than gs.
IsHung(gr, gs, x, up, mv, k) ==
    LET b == TopOf(gs, x, mv) IN
    /\ Len(gr) = b + k /\ \A g \in 1..Len(gs) : gr[g] = gs[g]
    /\ x # 1 => gr[Len(gs) + 1] = Child(up, "group", x)
    /\ mv => gr[b] = Child(PlaceOf(gs, x), "transform", x)
    /\ \A i \in 1..k : gr[b + i] = Child(UnderOf(gs, x, mv), "mesh", i)

LEMMA HungIs ==
    ASSUME NEW gs \in Seq(GraphNode), NEW x \in Nat, NEW up \in Nat, NEW mv \in BOOLEAN, NEW k \in Nat
    PROVE  Hung(gs, x, up, mv, k) \in Seq(GraphNode) /\ IsHung(Hung(gs, x, up, mv, k), gs, x, up, mv, k)
<1> DEFINE l == Len(gs)
           a == l + (IF x = 1 THEN 0 ELSE 1)
           b == TopOf(gs, x, mv)
           at == PlaceOf(gs, x)
           under == UnderOf(gs, x, mv)
           group == Groups(gs, x, up)
           moved == Moved(gs, x, up, mv)
           shown == [i \in 1..k |-> Child(under, "mesh", i)]
           gr == Hung(gs, x, up, mv, k)
<1>1. /\ l \in Nat /\ a \in Nat /\ b \in Nat /\ at \in Nat /\ under \in Nat
      /\ (mv => b = a + 1) /\ (~ mv => b = a) /\ (x = 1 => a = l) /\ (x # 1 => a = l + 1)
  <2>1. l \in Nat
    OBVIOUS
  <2>2. a \in Nat /\ (x = 1 => a = l) /\ (x # 1 => a = l + 1)
    BY <2>1
  <2>3. at \in Nat
    BY <2>1 DEF PlaceOf
  <2>4. b = a + (IF mv THEN 1 ELSE 0)
    BY <2>1 DEF TopOf
  <2> HIDE DEF a, b, l, at
  <2>5. CASE mv
    BY <2>1, <2>2, <2>3, <2>4, <2>5 DEF UnderOf, b
  <2>6. CASE ~ mv
    BY <2>1, <2>2, <2>3, <2>4, <2>6 DEF UnderOf, at
  <2> QED BY <2>5, <2>6
<1>2. \A p, n \in Nat : \A t \in {"root", "group", "transform", "mesh"} : Child(p, t, n) \in GraphNode
  BY DEF Child, GraphNode
<1>3. /\ group \in Seq(GraphNode) /\ Len(group) = a /\ \A g \in 1..l : group[g] = gs[g]
      /\ x # 1 => group[l + 1] = Child(up, "group", x)
  <2>1. Child(up, "group", x) \in GraphNode
    BY <1>2
  <2> QED BY <1>1, <2>1 DEF Groups
<1> HIDE DEF group
<1>4. /\ moved \in Seq(GraphNode) /\ Len(moved) = b /\ \A g \in 1..a : moved[g] = group[g]
      /\ mv => moved[b] = Child(at, "transform", x)
  <2>1. Child(at, "transform", x) \in GraphNode
    BY <1>1, <1>2
  <2>2. moved = IF mv THEN Append(group, Child(at, "transform", x)) ELSE group
    BY DEF Moved, group
  <2> HIDE DEF moved, a, b, at
  <2> QED BY <1>1, <1>3, <2>1, <2>2
<1>5. shown \in Seq(GraphNode) /\ Len(shown) = k /\ \A i \in 1..k : shown[i] = Child(under, "mesh", i)
  BY <1>1, <1>2
<1>6. gr = moved \o shown
  BY DEF Hung
<1> HIDE DEF moved, shown, gr, a, b, at, under, l
<1>7. /\ gr \in Seq(GraphNode) /\ Len(gr) = b + k
      /\ \A g \in 1..b : gr[g] = moved[g]
      /\ \A i \in 1..k : gr[b + i] = shown[i]
  <2>1. /\ moved \o shown \in Seq(GraphNode) /\ Len(moved \o shown) = Len(moved) + Len(shown)
        /\ \A i \in 1..Len(moved) : (moved \o shown)[i] = moved[i]
        /\ \A i \in 1..Len(shown) : (moved \o shown)[Len(moved) + i] = shown[i]
    <3>1. moved \in Seq(GraphNode) /\ shown \in Seq(GraphNode)
      BY <1>4, <1>5
    <3> QED BY ONLY <3>1
  <2> QED BY <1>4, <1>5, <1>6, <2>1
<1>8. ASSUME NEW g \in 1..l PROVE gr[g] = gs[g]
  <2>1. g \in 1..a /\ g \in 1..b
    BY <1>1
  <2> QED BY <1>3, <1>4, <1>7, <2>1
<1>9. x # 1 => gr[l + 1] = Child(up, "group", x)
  <2>1. ASSUME x # 1 PROVE l + 1 = a /\ l + 1 \in 1..a /\ l + 1 \in 1..b
    BY <1>1, <2>1
  <2> QED BY <1>3, <1>4, <1>7, <2>1
<1>10. mv => gr[b] = Child(at, "transform", x)
  BY <1>1, <1>4, <1>7
<1>11. \A i \in 1..k : gr[b + i] = Child(under, "mesh", i)
  BY <1>5, <1>7
<1> QED BY <1>7, <1>8, <1>9, <1>10, <1>11 DEF IsHung, gr, b, at, under, l

\* What was made of a node or a mesh in gs.
MadeIn(gs, type, n) == {g \in DOMAIN gs : gs[g].type = type /\ gs[g].shows = n}

\* What is in gr and was not in gs, whose length is l, when b is where the meshes
\* begin.
HasMade(gr, gs, x, mv, k, l, b) ==
    /\ l <= b
    /\ \A n : n # x => MadeIn(gr, "group", n) = MadeIn(gs, "group", n)
    /\ x # 1 => MadeIn(gr, "group", x) = MadeIn(gs, "group", x) \cup {l + 1}
    /\ \A n : n # x => MadeIn(gr, "transform", n) = MadeIn(gs, "transform", n)
    /\ mv => MadeIn(gr, "transform", x) = MadeIn(gs, "transform", x) \cup {b}
    /\ \A i : MadeIn(gr, "mesh", i) =
                 MadeIn(gs, "mesh", i) \cup (IF i \in 1..k THEN {b + i} ELSE {})
    /\ \A g \in DOMAIN gr :
          \/ g \in DOMAIN gs /\ gr[g] = gs[g]
          \/ x # 1 /\ g = l + 1
          \/ mv /\ g = b
          \/ \E i \in 1..k : g = b + i

LEMMA HungMakes ==
    ASSUME NEW gs \in Seq(GraphNode), NEW x \in Nat, NEW up \in Nat, NEW mv \in BOOLEAN, NEW k \in Nat,
           NEW gr \in Seq(GraphNode), IsHung(gr, gs, x, up, mv, k),
           NEW l, l = Len(gs), NEW b, b = TopOf(gs, x, mv)
    PROVE  HasMade(gr, gs, x, mv, k, l, b)
<1> DEFINE at == PlaceOf(gs, x)
           under == UnderOf(gs, x, mv)
<1> DEFINE a == l + (IF x = 1 THEN 0 ELSE 1)
<1>1. /\ l \in Nat /\ b \in Nat
      /\ a \in Nat
      /\ (mv => b = a + 1) /\ (~ mv => b = a) /\ (x = 1 => a = l) /\ (x # 1 => a = l + 1)
      /\ DOMAIN gs = 1..l /\ DOMAIN gr = 1..(b + k)
  <2>1. l \in Nat /\ DOMAIN gs = 1..l
    OBVIOUS
  <2>2. a \in Nat /\ (x = 1 => a = l) /\ (x # 1 => a = l + 1)
    <3>1. l \in Nat /\ a = l + (IF x = 1 THEN 0 ELSE 1)
      BY <2>1
    <3> HIDE DEF a
    <3>2. CASE x = 1
      BY <3>1, <3>2
    <3>3. CASE x # 1
      BY <3>1, <3>3
    <3> QED BY <3>2, <3>3
  <2>3. b = a + (IF mv THEN 1 ELSE 0)
    BY <2>1 DEF TopOf
  <2>4. Len(gr) = b + k /\ DOMAIN gr = 1..Len(gr)
    BY DEF IsHung
  <2> HIDE DEF a
  <2>5. CASE mv
    BY <2>1, <2>2, <2>3, <2>4, <2>5
  <2>6. CASE ~ mv
    BY <2>1, <2>2, <2>3, <2>4, <2>6
  <2> QED BY <2>5, <2>6
<1>2. /\ \A g \in 1..l : gr[g] = gs[g]
      /\ x # 1 => gr[l + 1].type = "group" /\ gr[l + 1].shows = x
      /\ mv => gr[b].type = "transform" /\ gr[b].shows = x
      /\ \A i \in 1..k : gr[b + i].type = "mesh" /\ gr[b + i].shows = i
  <2>1. /\ \A g \in 1..l : gr[g] = gs[g]
        /\ x # 1 => gr[l + 1] = Child(up, "group", x)
        /\ mv => gr[b] = Child(at, "transform", x)
        /\ \A i \in 1..k : gr[b + i] = Child(under, "mesh", i)
    BY DEF IsHung
  <2>2. \A p, t, n : Child(p, t, n).type = t /\ Child(p, t, n).shows = n
    BY DEF Child
  <2> HIDE DEF at, under
  <2> QED BY ONLY <2>1, <2>2
<1> HIDE DEF a
<1>3. ASSUME NEW g \in DOMAIN gr
      PROVE  \/ g \in DOMAIN gs /\ gr[g] = gs[g]
             \/ x # 1 /\ g = l + 1
             \/ mv /\ g = b
             \/ \E i \in 1..k : g = b + i
  <2>1. g \in 1..l \/ (x # 1 /\ g = l + 1) \/ (mv /\ g = b) \/ g - b \in 1..k
    <3>1. g \in Nat /\ 1 <= g /\ g <= b + k
      BY <1>1
    <3>2. a = l \/ a = l + 1
      BY ONLY <1>1
    <3>3. g <= l \/ (g = a /\ a = l + 1) \/ (g = b /\ b = a + 1) \/ g > b
      <4>1. b = a \/ b = a + 1
        BY <1>1
      <4> QED BY ONLY <1>1, <3>1, <3>2, <4>1
    <3>4. (g = a /\ a = l + 1) => x # 1
      BY ONLY <1>1
    <3>5. (g = b /\ b = a + 1) => mv
      BY <1>1
    <3>6. g > b => g - b \in 1..k
      BY ONLY <1>1, <3>1, k \in Nat
    <3>7. g <= l => g \in 1..l
      BY ONLY <1>1, <3>1
    <3> QED BY <3>3, <3>4, <3>5, <3>6, <3>7
  <2>2. g = b + (g - b)
    BY <1>1
  <2> QED BY <1>1, <1>2, <2>1, <2>2
<1>4. /\ DOMAIN gs \subseteq DOMAIN gr /\ l <= b
      /\ x # 1 => l + 1 \in DOMAIN gr
      /\ mv => b \in DOMAIN gr
      /\ \A i \in 1..k : b + i \in DOMAIN gr
      /\ \A i \in 1..k, j \in Nat : b + i = b + j => i = j
  <2>1. l <= b /\ (x # 1 => l + 1 <= b) /\ (mv => b >= 1)
    <3>1. b = a \/ b = a + 1
      BY <1>1
    <3>2. l <= b /\ (x # 1 => l + 1 <= b)
      BY ONLY <1>1, <3>1
    <3>3. ASSUME mv PROVE b >= 1
      <4>1. b = a + 1
        BY <1>1, <3>3
      <4>2. a >= 0
        BY ONLY <1>1
      <4> QED BY ONLY <1>1, <4>1, <4>2
    <3> QED BY <3>2, <3>3
  <2>2. /\ 1..l \subseteq 1..(b + k) /\ \A i \in 1..k : b + i \in 1..(b + k)
        /\ l + 1 <= b => l + 1 \in 1..(b + k)
        /\ b >= 1 => b \in 1..(b + k)
    BY ONLY <1>1, <2>1, k \in Nat
  <2>3. \A i \in 1..k, j \in Nat : b + i = b + j => i = j
    BY ONLY <1>1, k \in Nat
  <2>4. DOMAIN gs = 1..l /\ DOMAIN gr = 1..(b + k)
    BY <1>1
  <2> QED BY <2>1, <2>2, <2>3, <2>4
<1>5. ASSUME NEW n, NEW g \in MadeIn(gr, "group", n)
      PROVE  g \in MadeIn(gs, "group", n) \/ (x # 1 /\ n = x /\ g = l + 1)
  <2>1. g \in DOMAIN gr /\ gr[g].type = "group" /\ gr[g].shows = n
    BY <1>5 DEF MadeIn
  <2> QED BY <1>2, <1>3, <2>1 DEF MadeIn
<1>6. ASSUME NEW n PROVE MadeIn(gs, "group", n) \subseteq MadeIn(gr, "group", n)
  BY <1>1, <1>2, <1>4 DEF MadeIn
<1>7. x # 1 => l + 1 \in MadeIn(gr, "group", x)
  BY <1>2, <1>4 DEF MadeIn
<1>8. /\ \A n : n # x => MadeIn(gr, "group", n) = MadeIn(gs, "group", n)
      /\ x # 1 => MadeIn(gr, "group", x) = MadeIn(gs, "group", x) \cup {l + 1}
  <2>1. ASSUME NEW n, n # x PROVE MadeIn(gr, "group", n) = MadeIn(gs, "group", n)
    <3>1. MadeIn(gr, "group", n) \subseteq MadeIn(gs, "group", n)
      BY <1>5, <2>1
    <3> QED BY <1>6, <3>1
  <2>2. ASSUME x # 1 PROVE MadeIn(gr, "group", x) = MadeIn(gs, "group", x) \cup {l + 1}
    BY <1>5, <1>6, <1>7, <2>2
  <2> QED BY <2>1, <2>2
<1>9. ASSUME NEW n, NEW g \in MadeIn(gr, "transform", n)
      PROVE  g \in MadeIn(gs, "transform", n) \/ (mv /\ n = x /\ g = b)
  <2>1. g \in DOMAIN gr /\ gr[g].type = "transform" /\ gr[g].shows = n
    BY <1>9 DEF MadeIn
  <2> QED BY <1>2, <1>3, <2>1 DEF MadeIn
<1>10. ASSUME NEW n PROVE MadeIn(gs, "transform", n) \subseteq MadeIn(gr, "transform", n)
  BY <1>1, <1>2, <1>4 DEF MadeIn
<1>11. mv => b \in MadeIn(gr, "transform", x)
  BY <1>2, <1>4 DEF MadeIn
<1>12. /\ \A n : n # x => MadeIn(gr, "transform", n) = MadeIn(gs, "transform", n)
       /\ mv => MadeIn(gr, "transform", x) = MadeIn(gs, "transform", x) \cup {b}
  <2>1. ASSUME NEW n, n # x PROVE MadeIn(gr, "transform", n) = MadeIn(gs, "transform", n)
    <3>1. MadeIn(gr, "transform", n) \subseteq MadeIn(gs, "transform", n)
      BY <1>9, <2>1
    <3> QED BY <1>10, <3>1
  <2>2. ASSUME mv PROVE MadeIn(gr, "transform", x) = MadeIn(gs, "transform", x) \cup {b}
    BY <1>9, <1>10, <1>11, <2>2
  <2> QED BY <2>1, <2>2
<1>13. ASSUME NEW i
      PROVE  MadeIn(gr, "mesh", i) = MadeIn(gs, "mesh", i) \cup (IF i \in 1..k THEN {b + i} ELSE {})
  <2>1. ASSUME NEW g \in MadeIn(gr, "mesh", i)
        PROVE  g \in MadeIn(gs, "mesh", i) \/ (i \in 1..k /\ g = b + i)
    <3>1. g \in DOMAIN gr /\ gr[g].type = "mesh" /\ gr[g].shows = i
      BY DEF MadeIn
    <3> QED BY <1>2, <1>3, <3>1 DEF MadeIn
  <2>2. ASSUME NEW g \in MadeIn(gs, "mesh", i)
        PROVE  g \in MadeIn(gr, "mesh", i)
    BY <1>1, <1>2, <1>4 DEF MadeIn
  <2>3. ASSUME i \in 1..k PROVE b + i \in MadeIn(gr, "mesh", i)
    BY <1>2, <1>4, <2>3 DEF MadeIn
  <2> QED BY <2>1, <2>2, <2>3
<1>14. \A g \in DOMAIN gr :
          \/ g \in DOMAIN gs /\ gr[g] = gs[g]
          \/ x # 1 /\ g = l + 1
          \/ mv /\ g = b
          \/ \E i \in 1..k : g = b + i
  BY <1>3
<1>15. \A i : MadeIn(gr, "mesh", i) = MadeIn(gs, "mesh", i) \cup (IF i \in 1..k THEN {b + i} ELSE {})
  BY <1>13
<1>16. l <= b
  BY <1>4
<1> QED BY ONLY <1>8, <1>12, <1>14, <1>15, <1>16 DEF HasMade

PendingCall == [node : Nat, parent : Nat]
IsPending(n) == \E i \in 1..Len(pending) : pending[i].node = n
IsChild(n, p) == n \in ToSet(file.nodes[p].children)

\* D are the nodes that are loaded: the calls to come are about others, each with
\* what was made of its parent.
CallsAreTrue(D) ==
    /\ \A i, j \in 1..Len(pending) : pending[i].node = pending[j].node => i = j
    /\ \A i \in 1..Len(pending) :
          /\ pending[i].node \in DOMAIN file.nodes \ D
          /\ pending[i].node # 1 =>
                \E p \in D : IsChild(pending[i].node, p) /\ Under(p) = {pending[i].parent}

NoneIsLost(D) ==
    \A n \in DOMAIN file.nodes :
        /\ n = 1 => n \in D \/ IsPending(n)
        /\ \A p \in D : IsChild(n, p) => n \in D \/ IsPending(n)

Made(D) ==
    \A n \in D :
        /\ IsOne(PlacesOf(n))
        /\ file.nodes[n].moved => IsOne(Of("transform", n))
        /\ \A i \in DOMAIN file.nodes[n].meshes : IsOne(MeshesOf(n, i))

NotMade(D) ==
    \A n \in DOMAIN file.nodes \ D : Of("group", n) = {} /\ Of("transform", n) = {}

IsJustified(g, D) ==
    LET s == graph[g].shows
        up == {graph[g].parent}
    IN \/ graph[g].type = "root" /\ g = 1
       \/ /\ graph[g].type = "group" /\ s \in D /\ s # 1
          /\ \E p \in D : IsChild(s, p) /\ up = Under(p)
       \/ /\ graph[g].type = "transform"
          /\ \E n \in D : s = n /\ file.nodes[n].moved /\ up = PlacesOf(n)
       \/ /\ graph[g].type = "mesh"
          /\ \E n \in D : s \in DOMAIN file.nodes[n].meshes /\ up = Under(n)

Justified(D) == \A g \in DOMAIN graph : IsJustified(g, D)

TreeSoFar(D) == CallsAreTrue(D) /\ NoneIsLost(D) /\ Made(D) /\ NotMade(D) /\ Justified(D)

\* What a node makes changes nothing for the nodes that are loaded.
Frames(D, x, mv, k, at, b, under) ==
    /\ \A n \in DOMAIN file.nodes : n # x =>
          /\ PlacesOf(n)' = PlacesOf(n) /\ Under(n)' = Under(n)
          /\ Of("group", n)' = Of("group", n) /\ Of("transform", n)' = Of("transform", n)
    /\ PlacesOf(x)' = {at} /\ Under(x)' = {under}
    /\ mv => Of("transform", x)' = {b}
    /\ \A n \in D : \A i : MeshesOf(n, i)' = MeshesOf(n, i)
    /\ \A i \in 1..k : MeshesOf(x, i)' = {b + i}

LEMMA HungFrames ==
    ASSUME file \in SceneFiles, graph \in Seq(GraphNode), 1 \in DOMAIN graph, graph[1].type = "root",
           file' = file, graph' \in Seq(GraphNode),
           NEW D, D \subseteq DOMAIN file.nodes, NEW x \in DOMAIN file.nodes, x \notin D,
           NotMade(D), Justified(D),
           NEW up \in Nat, NEW mv, mv = file.nodes[x].moved, NEW k, k = Len(file.nodes[x].meshes),
           IsHung(graph', graph, x, up, mv, k),
           NEW at, at = PlaceOf(graph, x), NEW b, b = TopOf(graph, x, mv), NEW under, under = UnderOf(graph, x, mv)
    PROVE  Frames(D, x, mv, k, at, b, under)
<1>1. x \in Nat /\ mv \in BOOLEAN /\ k \in Nat
  BY NodesFact
<1>2. /\ Len(graph) <= b
      /\ \A n : n # x => MadeIn(graph', "group", n) = MadeIn(graph, "group", n)
      /\ x # 1 => MadeIn(graph', "group", x) = MadeIn(graph, "group", x) \cup {Len(graph) + 1}
      /\ \A n : n # x => MadeIn(graph', "transform", n) = MadeIn(graph, "transform", n)
      /\ mv => MadeIn(graph', "transform", x) = MadeIn(graph, "transform", x) \cup {b}
      /\ \A i : MadeIn(graph', "mesh", i) = MadeIn(graph, "mesh", i) \cup (IF i \in 1..k THEN {b + i} ELSE {})
      /\ \A g \in 1..Len(graph) : graph'[g] = graph[g]
      /\ \A i \in 1..k : graph'[b + i].parent = under
  <2>1. /\ Len(graph) <= b
        /\ \A n : n # x => MadeIn(graph', "group", n) = MadeIn(graph, "group", n)
        /\ x # 1 => MadeIn(graph', "group", x) = MadeIn(graph, "group", x) \cup {Len(graph) + 1}
        /\ \A n : n # x => MadeIn(graph', "transform", n) = MadeIn(graph, "transform", n)
        /\ mv => MadeIn(graph', "transform", x) = MadeIn(graph, "transform", x) \cup {b}
        /\ \A i : MadeIn(graph', "mesh", i) = MadeIn(graph, "mesh", i) \cup (IF i \in 1..k THEN {b + i} ELSE {})
    <3>1. HasMade(graph', graph, x, mv, k, Len(graph), b)
      BY <1>1, HungMakes
    <3> QED BY <3>1 DEF HasMade
  <2>2. /\ \A g \in 1..Len(graph) : graph'[g] = graph[g]
        /\ \A i \in 1..k : graph'[b + i] = Child(under, "mesh", i)
    BY DEF IsHung
  <2>3. \A p, t, n : Child(p, t, n).parent = p
    BY DEF Child
  <2> QED BY <2>1, <2>2, <2>3
<1>3. /\ \A n : Of("group", n)' = MadeIn(graph', "group", n) /\ Of("group", n) = MadeIn(graph, "group", n)
      /\ \A n : Of("transform", n)' = MadeIn(graph', "transform", n) /\ Of("transform", n) = MadeIn(graph, "transform", n)
      /\ \A n : Of("mesh", n)' = MadeIn(graph', "mesh", n) /\ Of("mesh", n) = MadeIn(graph, "mesh", n)
  BY DEF Of, MadeIn
<1>4. ASSUME NEW n \in DOMAIN file.nodes, n # x
      PROVE  /\ PlacesOf(n)' = PlacesOf(n) /\ Under(n)' = Under(n)
             /\ Of("group", n)' = Of("group", n) /\ Of("transform", n)' = Of("transform", n)
  <2>1. Of("group", n)' = Of("group", n) /\ Of("transform", n)' = Of("transform", n)
    <3>1. MadeIn(graph', "transform", n) = MadeIn(graph, "transform", n)
      BY <1>2, <1>4
    <3>2. MadeIn(graph', "group", n) = MadeIn(graph, "group", n)
      BY <1>2, <1>4
    <3> QED BY <1>3, <3>1, <3>2
  <2>2. PlacesOf(n)' = PlacesOf(n)
    BY <2>1 DEF PlacesOf
  <2> QED BY <2>1, <2>2 DEF Under
<1>5. Of("group", x) = {} /\ Of("transform", x) = {}
  BY DEF NotMade
<1>6. PlacesOf(x)' = {at}
  <2>1. CASE x = 1
    BY <2>1 DEF PlacesOf, PlaceOf
  <2>2. CASE x # 1
    <3>1. Of("group", x)' = {Len(graph) + 1}
      BY <1>2, <1>3, <1>5, <2>2
    <3> QED BY <2>2, <3>1 DEF PlacesOf, PlaceOf
  <2> QED BY <2>1, <2>2
<1>7. ASSUME mv PROVE Of("transform", x)' = {b}
  <2>1. MadeIn(graph', "transform", x) = MadeIn(graph, "transform", x) \cup {b}
    BY <1>2, <1>7
  <2> QED BY <1>3, <1>5, <2>1
<1>8. Under(x)' = {under}
  BY <1>6, <1>7 DEF Under, UnderOf
<1>9. ASSUME NEW n \in D PROVE under \notin Under(n)
  <2>1. n # x
    OBVIOUS
  <2>2. Of("group", n) \subseteq 2..Len(graph) /\ Of("transform", n) \subseteq 2..Len(graph)
    BY DEF Of
  <2>3. Under(n) \subseteq 1..Len(graph) /\ (n # 1 => 1 \notin Under(n))
    <3>1. 1 \in 1..Len(graph) /\ 1 \notin 2..Len(graph) /\ 2..Len(graph) \subseteq 1..Len(graph)
      OBVIOUS
    <3> QED BY <2>2, <3>1 DEF Under, PlacesOf
  <2>4. CASE under \notin 1..Len(graph)
    BY <2>3, <2>4
  <2>5. CASE under \in 1..Len(graph)
    <3>1. Len(graph) \in Nat /\ ~ mv
      <4>1. Len(graph) \in Nat
        OBVIOUS
      <4>2. ASSUME mv PROVE FALSE
        <5>1. under = b
          BY <4>2 DEF UnderOf
        <5>2. b > Len(graph)
          BY <4>1, <4>2 DEF TopOf
        <5> QED BY <2>5, <4>1, <5>1, <5>2
      <4> QED BY <1>1, <4>1, <4>2
    <3>2. under = PlaceOf(graph, x)
      BY <3>1 DEF UnderOf
    <3>3. x = 1 /\ under = 1
      BY <2>5, <3>1, <3>2 DEF PlaceOf
    <3> QED BY <2>1, <2>3, <3>3
  <2> QED BY <2>4, <2>5
<1>10. ASSUME NEW n \in D, NEW i PROVE MeshesOf(n, i)' = MeshesOf(n, i)
  <2>1. Under(n)' = Under(n)
    BY <1>4
  <2>2. Of("mesh", i) \subseteq 1..Len(graph)
    BY DEF Of
  <2>3. Of("mesh", i)' = Of("mesh", i) \cup (IF i \in 1..k THEN {b + i} ELSE {})
    BY <1>2, <1>3
  <2>4. \A g \in Of("mesh", i) : graph'[g] = graph[g]
    BY <1>2, <2>2
  <2>5. i \in 1..k => graph'[b + i].parent \notin Under(n)
    BY <1>2, <1>9
  <2> QED BY <2>1, <2>3, <2>4, <2>5 DEF MeshesOf
<1>11. ASSUME NEW i \in 1..k PROVE MeshesOf(x, i)' = {b + i}
  <2>1. Of("mesh", i) \subseteq 1..Len(graph)
    BY DEF Of
  <2>2. Of("mesh", i)' = Of("mesh", i) \cup {b + i}
    BY <1>2, <1>3
  <2>3. ASSUME NEW g \in Of("mesh", i) PROVE graph'[g].parent # under
    <3>1. g \in DOMAIN graph /\ graph[g].type = "mesh" /\ graph'[g] = graph[g]
      BY <1>2, <2>1 DEF Of
    <3>2. PICK n \in D : {graph[g].parent} = Under(n)
      BY <3>1 DEF Justified, IsJustified
    <3> QED BY <1>9, <3>1, <3>2
  <2> QED BY <1>2, <1>8, <2>2, <2>3 DEF MeshesOf
<1> QED BY <1>4, <1>6, <1>7, <1>8, <1>10, <1>11 DEF Frames

GraphInv ==
    /\ graph \in Seq(GraphNode) /\ 1 \in DOMAIN graph /\ graph[1].type = "root"
    /\ pending \in Seq(PendingCall)
    /\ loading \in {"materials", "meshes"} => Len(graph) = 1
    /\ loading \in {"nodes", "done"} => \E D \in SUBSET DOMAIN file.nodes : TreeSoFar(D)
    /\ loading = "done" => pending = <<>>

\* The calls for the children of a node and those that were to come after it.
CallsFor(children, under, rest) ==
    [i \in 1..Len(children) |-> [node |-> children[i], parent |-> under]] \o rest

LEMMA LoadNodeDoes ==
    ASSUME file \in SceneFiles, graph \in Seq(GraphNode), LoadNode,
           NEW x \in DOMAIN file.nodes, x = Head(pending).node, NEW up, up = Head(pending).parent,
           NEW mv, mv = file.nodes[x].moved, NEW k, k = Len(file.nodes[x].meshes),
           NEW under, under = UnderOf(graph, x, mv)
    PROVE  /\ graph' = Hung(graph, x, up, mv, k)
           /\ pending' = CallsFor(file.nodes[x].children, under, Tail(pending))
<1> DEFINE n == file.nodes[x]
           group == Groups(graph, x, up)
           at == IF x = 1 THEN 1 ELSE Len(group)
           moved == IF n.moved THEN Append(group, Child(at, "transform", x)) ELSE group
           un == IF n.moved THEN Len(moved) ELSE at
<1>1. /\ graph' = moved \o [i \in DOMAIN n.meshes |-> Child(un, "mesh", i)]
      /\ pending' = [i \in DOMAIN n.children |-> [node |-> n.children[i], parent |-> un]] \o Tail(pending)
  BY DEF LoadNode, Groups
<1>2. DOMAIN n.meshes = 1..k /\ DOMAIN n.children = 1..Len(n.children) /\ mv \in BOOLEAN
  BY NodesFact
<1>3. /\ x = 1 => group = graph /\ Len(group) = Len(graph)
      /\ x # 1 => Len(group) = Len(graph) + 1
      /\ Len(graph) \in Nat
  BY DEF Groups
<1>4. at = PlaceOf(graph, x)
  BY <1>3 DEF PlaceOf
<1>5. moved = Moved(graph, x, up, mv)
  BY <1>4 DEF Moved
<1>6. un = under
  <2>1. CASE mv
    <3>1. Len(moved) = Len(group) + 1
      <4>1. moved = Append(group, Child(at, "transform", x))
        BY <2>1
      <4> QED BY <4>1 DEF Groups
    <3>2. TopOf(graph, x, mv) = Len(group) + 1
      BY <1>3, <2>1 DEF TopOf
    <3> QED BY <2>1, <3>1, <3>2 DEF UnderOf
  <2>2. CASE ~ mv
    BY <1>4, <2>2 DEF UnderOf
  <2> QED BY <1>2, <2>1, <2>2
<1> QED BY <1>1, <1>2, <1>5, <1>6 DEF Hung, CallsFor

AreCallsFor(after, calls, children, under, c) ==
    /\ Len(after) = c + Len(calls) - 1
    /\ \A i \in 1..c : after[i] = [node |-> children[i], parent |-> under]
    /\ \A i \in 2..Len(calls) : after[c + i - 1] = calls[i]

\* The calls after: those for the children, then the ones that there were.
LEMMA CallsForIs ==
    ASSUME NEW x \in Nat, NEW f \in SceneFiles, x \in DOMAIN f.nodes, NEW under \in Nat,
           NEW calls \in Seq(PendingCall), calls # <<>>,
           NEW c, c = Len(f.nodes[x].children),
           NEW after, after = CallsFor(f.nodes[x].children, under, Tail(calls))
    PROVE  c \in Nat /\ after \in Seq(PendingCall) /\ AreCallsFor(after, calls, f.nodes[x].children, under, c)
<1> DEFINE new == [i \in 1..c |-> [node |-> f.nodes[x].children[i], parent |-> under]]
           rest == Tail(calls)
<1>1. c \in Nat /\ \A i \in 1..c : f.nodes[x].children[i] \in Nat
  <2>1. /\ Len(f.nodes[x].children) \in Nat /\ DOMAIN f.nodes[x].children = 1..Len(f.nodes[x].children)
        /\ \A i \in DOMAIN f.nodes[x].children : f.nodes[x].children[i] \in ToSet(f.nodes[x].children)
        /\ \A d \in ToSet(f.nodes[x].children) : d \in DOMAIN f.nodes
    BY NodesFact
  <2>2. DOMAIN f.nodes = 1..Len(f.nodes)
    BY NodesFact
  <2>3. DOMAIN f.nodes \subseteq Nat
    BY <2>2
  <2> QED BY <2>1, <2>3
<1>2. new \in Seq(PendingCall) /\ Len(new) = c /\ \A i \in 1..c : new[i] = [node |-> f.nodes[x].children[i], parent |-> under]
  BY <1>1 DEF PendingCall
<1>3. /\ Len(calls) \in Nat \ {0} /\ rest \in Seq(PendingCall) /\ Len(rest) = Len(calls) - 1
      /\ \A i \in 1..(Len(calls) - 1) : rest[i] = calls[i + 1]
  OBVIOUS
<1>4. after = new \o rest
  BY DEF CallsFor
<1> HIDE DEF new, rest
<1>5. /\ new \o rest \in Seq(PendingCall) /\ Len(new \o rest) = Len(new) + Len(rest)
      /\ \A i \in 1..Len(new) : (new \o rest)[i] = new[i]
      /\ \A i \in 1..Len(rest) : (new \o rest)[Len(new) + i] = rest[i]
  <2>1. new \in Seq(PendingCall) /\ rest \in Seq(PendingCall)
    BY <1>2, <1>3
  <2> QED BY ONLY <2>1
<1>6. ASSUME NEW i \in 2..Len(calls) PROVE after[c + i - 1] = calls[i]
  <2>1. i - 1 \in 1..Len(rest) /\ c + (i - 1) = c + i - 1 /\ i - 1 \in 1..(Len(calls) - 1) /\ (i - 1) + 1 = i
    BY <1>1, <1>3
  <2>2. (new \o rest)[Len(new) + (i - 1)] = rest[i - 1]
    BY <1>5, <2>1
  <2>3. rest[i - 1] = calls[(i - 1) + 1]
    BY <1>3, <2>1
  <2> QED BY ONLY <1>2, <1>4, <2>1, <2>2, <2>3
<1> QED BY <1>1, <1>2, <1>3, <1>4, <1>5, <1>6 DEF AreCallsFor

LEMMA ChildOfFile ==
    ASSUME NEW f \in SceneFiles, NEW n \in DOMAIN f.nodes, NEW d \in ToSet(f.nodes[n].children)
    PROVE  /\ d \in DOMAIN f.nodes /\ d > n
           /\ \E i \in DOMAIN f.nodes[n].children : f.nodes[n].children[i] = d
<1>1. \A c \in ToSet(f.nodes[n].children) : c \in DOMAIN f.nodes /\ c > n
  BY MeshesAssumption
<1>2. \E i \in DOMAIN f.nodes[n].children : f.nodes[n].children[i] = d
  BY DEF ToSet
<1> QED BY <1>1, <1>2

LEMMA ChildFact ==
    ASSUME file \in SceneFiles, NEW p \in DOMAIN file.nodes, NEW d, IsChild(d, p)
    PROVE  /\ d \in DOMAIN file.nodes /\ d > p /\ d \in Nat /\ p \in Nat /\ p >= 1
           /\ \E i \in DOMAIN file.nodes[p].children : file.nodes[p].children[i] = d
           /\ \A q \in DOMAIN file.nodes : IsChild(d, q) => q = p
<1> DEFINE ch(q) == file.nodes[q].children
           N == DOMAIN file.nodes
<1>1. /\ N = 1..Len(file.nodes)
      /\ \A n \in N : \A e \in ToSet(ch(n)) : e \in N /\ e > n /\ \E i \in DOMAIN ch(n) : ch(n)[i] = e
      /\ \A n, q \in N : \A i \in DOMAIN ch(n), j \in DOMAIN ch(q) : ch(n)[i] = ch(q)[j] => n = q /\ i = j
  <2>1. N = 1..Len(file.nodes)
    BY NodesFact
  <2>2. ASSUME NEW n \in N, NEW e \in ToSet(ch(n))
        PROVE  e \in N /\ e > n /\ \E i \in DOMAIN ch(n) : ch(n)[i] = e
    BY ChildOfFile
  <2>3. \A n, q \in N : \A i \in DOMAIN ch(n), j \in DOMAIN ch(q) : ch(n)[i] = ch(q)[j] => n = q /\ i = j
    BY NodesFact
  <2> QED BY <2>1, <2>2, <2>3
<1>2. \A q : IsChild(d, q) <=> d \in ToSet(ch(q))
  BY DEF IsChild
<1> HIDE DEF ch
<1>3. PICK i \in DOMAIN ch(p) : ch(p)[i] = d
  BY <1>1, <1>2
<1>4. ASSUME NEW q \in N, IsChild(d, q) PROVE q = p
  <2>1. PICK j \in DOMAIN ch(q) : ch(q)[j] = d
    BY <1>1, <1>2, <1>4
  <2> QED BY <1>1, <1>3, <2>1
<1>5. d \in N /\ d > p
  BY <1>1, <1>2
<1>6. d \in Nat /\ p \in Nat /\ p >= 1
  BY <1>1, <1>5
<1> QED BY <1>3, <1>4, <1>5, <1>6 DEF ch

LEMMA ChildIsNew ==
    ASSUME file \in SceneFiles, NEW D, D \subseteq DOMAIN file.nodes, TreeSoFar(D),
           NEW x \in DOMAIN file.nodes, x \notin D, NEW d, IsChild(d, x)
    PROVE  d \in DOMAIN file.nodes /\ d # 1 /\ d # x /\ d \notin D
<1>1. d \in DOMAIN file.nodes /\ d > x /\ x \in Nat /\ x >= 1 /\ d \in Nat
  BY ChildFact
<1>2. d # 1 /\ d # x
  BY <1>1
<1>3. ASSUME d \in D PROVE FALSE
  <2>1. PICK g : PlacesOf(d) = {g}
    BY <1>3 DEF TreeSoFar, Made, IsOne
  <2>2. g \in DOMAIN graph /\ graph[g].type = "group" /\ graph[g].shows = d
    BY <1>2, <2>1 DEF PlacesOf, Of
  <2>3. PICK p \in D : IsChild(d, p)
    BY <2>2 DEF TreeSoFar, Justified, IsJustified
  <2>4. p = x
    BY <2>3, ChildFact
  <2> QED BY <2>3, <2>4
<1> QED BY <1>1, <1>2, <1>3

\* What is known when the node x is loaded: of the calls, and of what was made.
CallsStep(D, x, under, c) ==
    /\ file \in SceneFiles /\ D \subseteq DOMAIN file.nodes /\ x \in DOMAIN file.nodes \ D /\ TreeSoFar(D)
    /\ Len(pending) \in Nat \ {0} /\ pending[1].node = x
    /\ c = Len(file.nodes[x].children) /\ c \in Nat

CallsStepNext(x, under, c) ==
    /\ Len(pending') = c + Len(pending) - 1
    /\ \A i \in 1..c : pending'[i] = [node |-> file.nodes[x].children[i], parent |-> under]
    /\ \A i \in 2..Len(pending) : pending'[c + i - 1] = pending[i]
    /\ file' = file

LEMMA CallsStayTrue ==
    ASSUME NEW D, NEW x, NEW under, NEW c, CallsStep(D, x, under, c), CallsStepNext(x, under, c),
           \A n \in DOMAIN file.nodes : n # x => Under(n)' = Under(n), Under(x)' = {under}
    PROVE  CallsAreTrue(D \cup {x})' /\ NoneIsLost(D \cup {x})'
<1> DEFINE N == DOMAIN file.nodes
           ch == file.nodes[x].children
           l == Len(pending)
           E == D \cup {x}
<1>1. /\ file \in SceneFiles /\ D \subseteq N /\ x \in N /\ x \notin D /\ TreeSoFar(D)
      /\ l \in Nat \ {0} /\ pending[1].node = x /\ c = Len(ch) /\ c \in Nat
  BY DEF CallsStep
<1>2. /\ Len(pending') = c + l - 1 /\ file' = file
      /\ \A i \in 1..c : pending'[i].node = ch[i] /\ pending'[i].parent = under
      /\ \A i \in 2..l : pending'[c + i - 1] = pending[i]
  <2>1. /\ Len(pending') = c + l - 1 /\ file' = file
        /\ \A i \in 1..c : pending'[i] = [node |-> ch[i], parent |-> under]
        /\ \A i \in 2..l : pending'[c + i - 1] = pending[i]
    BY DEF CallsStepNext
  <2> HIDE DEF ch, l
  <2>2. ASSUME NEW i \in 1..c PROVE pending'[i].node = ch[i] /\ pending'[i].parent = under
    <3>1. pending'[i] = [node |-> ch[i], parent |-> under]
      BY <2>1
    <3> QED BY ONLY <3>1
  <2> QED BY <2>1, <2>2
<1>3. /\ \A i, j \in 1..l : pending[i].node = pending[j].node => i = j
      /\ \A i \in 1..l : /\ pending[i].node \in N \ D
                         /\ pending[i].node # 1 =>
                              \E p \in D : IsChild(pending[i].node, p) /\ Under(p) = {pending[i].parent}
      /\ \A n \in N : /\ n = 1 => n \in D \/ IsPending(n)
                      /\ \A p \in D : IsChild(n, p) => n \in D \/ IsPending(n)
  BY <1>1 DEF TreeSoFar, CallsAreTrue, NoneIsLost
<1>4. DOMAIN ch = 1..c /\ \A i \in 1..c : IsChild(ch[i], x)
  BY <1>1, NodesFact DEF IsChild
<1>5. \A i \in 1..c : ch[i] \in N /\ ch[i] # 1 /\ ch[i] # x /\ ch[i] \notin D
  BY <1>1, <1>4, ChildIsNew
<1>6. \A i, j \in 1..c : ch[i] = ch[j] => i = j
  BY <1>1, <1>4, NodesFact
<1>7. \A i \in 2..l : pending[i].node # x
  <2>1. 1 \in 1..l /\ \A i \in 2..l : i \in 1..l /\ i # 1
    BY <1>1
  <2> QED BY <1>1, <1>3, <2>1
<1>8. ASSUME NEW i \in 1..c, NEW j \in 2..l PROVE ch[i] # pending[j].node
  <2>1. SUFFICES ASSUME ch[i] = pending[j].node PROVE FALSE
    OBVIOUS
  <2>2. pending[j].node # 1 /\ j \in 1..l
    BY <1>1, <1>5, <2>1
  <2>3. PICK p \in D : IsChild(ch[i], p)
    BY <1>3, <2>1, <2>2
  <2>4. IsChild(ch[i], x)
    BY <1>4
  <2>5. p = x
    BY <1>1, <2>3, <2>4, ChildFact
  <2> QED BY <1>1, <2>5
<1>9. ASSUME NEW i \in 1..(c + l - 1)
      PROVE  i \in 1..c \/ \E j \in 2..l : i = c + j - 1 /\ pending'[i] = pending[j]
  <2>1. i \in 1..c \/ i - c + 1 \in 2..l
    BY <1>1
  <2>2. i = c + (i - c + 1) - 1
    BY <1>1
  <2> QED BY <1>2, <2>1, <2>2
<1>10. \A n, p : IsChild(n, p)' <=> IsChild(n, p)
  BY <1>2 DEF IsChild
<1> HIDE DEF N, ch, l
<1>11. ASSUME NEW i \in 1..(c + l - 1)
       PROVE  /\ pending'[i].node \in N \ E
              /\ \A j \in 1..(c + l - 1) : pending'[i].node = pending'[j].node => i = j
              /\ pending'[i].node # 1 =>
                    \E p \in E : IsChild(pending'[i].node, p) /\ Under(p)' = {pending'[i].parent}
  <2>1. CASE i \in 1..c
    <3>1. pending'[i].node = ch[i] /\ pending'[i].parent = under
      BY <1>2, <2>1
    <3>2. ch[i] \in N \ E
      BY <1>5, <2>1
    <3>3. ASSUME NEW j \in 1..(c + l - 1), ch[i] = pending'[j].node PROVE i = j
      <4>1. CASE j \in 1..c
        BY <1>2, <1>6, <2>1, <3>3, <4>1
      <4>2. CASE \E m \in 2..l : j = c + m - 1 /\ pending'[j] = pending[m]
        BY <1>8, <2>1, <3>3, <4>2
      <4> QED BY <1>9, <4>1, <4>2
    <3>4. IsChild(ch[i], x)
      BY <1>4, <2>1
    <3> QED BY <3>1, <3>2, <3>3, <3>4
  <2>2. CASE \E j \in 2..l : i = c + j - 1 /\ pending'[i] = pending[j]
    <3>1. PICK j \in 2..l : i = c + j - 1 /\ pending'[i] = pending[j]
      BY <2>2
    <3>2. j \in 1..l
      BY <1>1
    <3>3. pending[j].node \in N \ E
      BY <1>3, <1>7, <3>2
    <3>4. ASSUME NEW m \in 1..(c + l - 1), pending[j].node = pending'[m].node PROVE i = m
      <4>1. CASE m \in 1..c
        BY <1>2, <1>8, <3>4, <4>1
      <4>2. CASE \E h \in 2..l : m = c + h - 1 /\ pending'[m] = pending[h]
        <5>1. PICK h \in 2..l : m = c + h - 1 /\ pending'[m] = pending[h]
          BY <4>2
        <5>2. h \in 1..l /\ pending[h].node = pending[j].node
          BY <1>1, <3>4, <5>1
        <5>3. h = j
          BY <1>3, <3>2, <5>2
        <5> QED BY <3>1, <5>1, <5>3
      <4> QED BY <1>9, <4>1, <4>2
    <3>5. ASSUME pending[j].node # 1
          PROVE  \E p \in E : IsChild(pending[j].node, p) /\ Under(p)' = {pending[j].parent}
      <4>1. PICK p \in D : IsChild(pending[j].node, p) /\ Under(p) = {pending[j].parent}
        BY <1>3, <3>2, <3>5
      <4>2. Under(p)' = Under(p)
        BY <1>1 DEF N
      <4> QED BY <4>1, <4>2
    <3> QED BY <3>1, <3>3, <3>4, <3>5
  <2> QED BY <1>9, <2>1, <2>2
<1>12. CallsAreTrue(E)'
  <2>1. \A i, j \in 1..Len(pending') : pending'[i].node = pending'[j].node => i = j
    BY <1>2, <1>11
  <2>2. \A i \in 1..Len(pending') :
          /\ pending'[i].node \in DOMAIN file'.nodes \ E
          /\ pending'[i].node # 1 =>
                \E p \in E : IsChild(pending'[i].node, p) /\ Under(p)' = {pending'[i].parent}
    BY <1>2, <1>11 DEF N
  <2> QED BY <1>2, <2>1, <2>2 DEF CallsAreTrue, IsChild
<1>13. ASSUME NEW n PROVE IsPending(n) => n = x \/ IsPending(n)'
  <2>1. SUFFICES ASSUME IsPending(n), n # x PROVE IsPending(n)'
    OBVIOUS
  <2>2. PICK i \in 1..l : pending[i].node = n
    BY <2>1 DEF IsPending, l
  <2>3. i \in 2..l
    <3>1. i # 1
      BY <1>1, <2>1, <2>2
    <3> QED BY <1>1, <3>1
  <2>4. c + i - 1 \in 1..(c + l - 1) /\ pending'[c + i - 1] = pending[i]
    <3>1. c \in Nat /\ l \in Nat
      BY <1>1
    <3> QED BY ONLY <1>2, <2>3, <3>1
  <2>5. Len(pending') = c + l - 1
    BY <1>2
  <2> QED BY <2>2, <2>4, <2>5 DEF IsPending
<1>14. ASSUME NEW n, IsChild(n, x) PROVE IsPending(n)'
  <2>1. PICK i \in DOMAIN ch : ch[i] = n
    BY <1>1, <1>14, ChildFact DEF ch, N
  <2>2. i \in 1..c /\ i \in 1..(c + l - 1)
    BY <1>1, <1>4, <2>1
  <2>3. pending'[i].node = n /\ Len(pending') = c + l - 1
    BY <1>2, <2>1, <2>2
  <2> QED BY <2>2, <2>3 DEF IsPending
<1>15. NoneIsLost(E)'
  <2>1. ASSUME NEW n \in N PROVE n = 1 => n \in E \/ IsPending(n)'
    BY <1>3, <1>13
  <2>2. ASSUME NEW n \in N, NEW p \in E, IsChild(n, p) PROVE n \in E \/ IsPending(n)'
    <3>1. CASE p = x
      BY <1>14, <2>2, <3>1
    <3>2. CASE p \in D
      BY <1>3, <1>13, <2>2, <3>2
    <3> QED BY <3>1, <3>2
  <2> QED BY <1>2, <1>10, <2>1, <2>2 DEF NoneIsLost, N
<1> QED BY <1>12, <1>15

GraphStep(D, x, under) ==
    /\ Made(D \cup {x})' /\ NotMade(D \cup {x})' /\ Justified(D \cup {x})'
    /\ \A n \in DOMAIN file.nodes : n # x => Under(n)' = Under(n)
    /\ Under(x)' = {under}

LEMMA GraphStaysTrue ==
    ASSUME file \in SceneFiles, graph \in Seq(GraphNode), 1 \in DOMAIN graph, graph[1].type = "root",
           file' = file, graph' \in Seq(GraphNode),
           NEW D, D \subseteq DOMAIN file.nodes, NEW x \in DOMAIN file.nodes, x \notin D, TreeSoFar(D),
           NEW up \in Nat, x # 1 => \E p \in D : IsChild(x, p) /\ Under(p) = {up},
           NEW mv, mv = file.nodes[x].moved, NEW k, k = Len(file.nodes[x].meshes),
           IsHung(graph', graph, x, up, mv, k),
           NEW at, at = PlaceOf(graph, x), NEW b, b = TopOf(graph, x, mv), NEW under, under = UnderOf(graph, x, mv)
    PROVE  GraphStep(D, x, under)
<1> DEFINE N == DOMAIN file.nodes
           E == D \cup {x}
<1>1. NotMade(D) /\ Justified(D) /\ Made(D)
  BY DEF TreeSoFar
<1>2. /\ \A n \in N : n # x =>
            /\ PlacesOf(n)' = PlacesOf(n) /\ Under(n)' = Under(n)
            /\ Of("group", n)' = Of("group", n) /\ Of("transform", n)' = Of("transform", n)
      /\ PlacesOf(x)' = {at} /\ Under(x)' = {under}
      /\ mv => Of("transform", x)' = {b}
      /\ \A n \in D : \A i : MeshesOf(n, i)' = MeshesOf(n, i)
      /\ \A i \in 1..k : MeshesOf(x, i)' = {b + i}
  <2>1. Frames(D, x, mv, k, at, b, under)
    BY <1>1, HungFrames
  <2> QED BY <2>1 DEF Frames
<1>3. k \in Nat /\ DOMAIN file.nodes[x].meshes = 1..k /\ x \in Nat /\ mv \in BOOLEAN
  BY NodesFact
<1>4. HasMade(graph', graph, x, mv, k, Len(graph), b)
  BY <1>3, HungMakes
<1>5. Made(E)'
  <2>1. ASSUME NEW n \in D
        PROVE  /\ IsOne(PlacesOf(n)') /\ (file.nodes[n].moved => IsOne(Of("transform", n)'))
               /\ \A i \in DOMAIN file.nodes[n].meshes : IsOne(MeshesOf(n, i)')
    <3>1. n \in N /\ n # x
      OBVIOUS
    <3>2. /\ PlacesOf(n)' = PlacesOf(n) /\ Of("transform", n)' = Of("transform", n)
          /\ \A i : MeshesOf(n, i)' = MeshesOf(n, i)
      BY <1>2, <3>1
    <3>3. /\ IsOne(PlacesOf(n)) /\ (file.nodes[n].moved => IsOne(Of("transform", n)))
          /\ \A i \in DOMAIN file.nodes[n].meshes : IsOne(MeshesOf(n, i))
      BY <1>1 DEF Made
    <3> QED BY <3>2, <3>3
  <2>2. /\ IsOne(PlacesOf(x)') /\ (file.nodes[x].moved => IsOne(Of("transform", x)'))
        /\ \A i \in DOMAIN file.nodes[x].meshes : IsOne(MeshesOf(x, i)')
    BY <1>2, <1>3 DEF IsOne
  <2>3. ASSUME NEW n \in E
        PROVE  /\ IsOne(PlacesOf(n)') /\ (file.nodes[n].moved => IsOne(Of("transform", n)'))
               /\ \A i \in DOMAIN file.nodes[n].meshes : IsOne(MeshesOf(n, i)')
    BY <2>1, <2>2
  <2> QED BY <2>3 DEF Made, IsOne
<1>6. NotMade(E)'
  <2>1. ASSUME NEW n \in N \ E PROVE Of("group", n)' = {} /\ Of("transform", n)' = {}
    BY <1>1, <1>2 DEF NotMade
  <2> QED BY <2>1 DEF NotMade
<1>7. ASSUME NEW g \in DOMAIN graph, graph'[g] = graph[g] PROVE IsJustified(g, E)'
  <2>1. IsJustified(g, D)
    BY <1>1 DEF Justified
  <2>2. \A n \in D : PlacesOf(n)' = PlacesOf(n) /\ Under(n)' = Under(n)
    BY <1>2
  <2>3. CASE graph[g].type = "root" /\ g = 1
    BY <1>7, <2>3 DEF IsJustified
  <2>4. CASE /\ graph[g].type = "group" /\ graph[g].shows \in D /\ graph[g].shows # 1
             /\ \E p \in D : IsChild(graph[g].shows, p) /\ {graph[g].parent} = Under(p)
    BY <1>7, <2>2, <2>4 DEF IsJustified, IsChild
  <2>5. CASE /\ graph[g].type = "transform"
             /\ \E n \in D : graph[g].shows = n /\ file.nodes[n].moved /\ {graph[g].parent} = PlacesOf(n)
    BY <1>7, <2>2, <2>5 DEF IsJustified
  <2>6. CASE /\ graph[g].type = "mesh"
             /\ \E n \in D : graph[g].shows \in DOMAIN file.nodes[n].meshes /\ {graph[g].parent} = Under(n)
    BY <1>7, <2>2, <2>6 DEF IsJustified
  <2> QED BY <2>1, <2>3, <2>4, <2>5, <2>6 DEF IsJustified
<1>8. /\ x # 1 => graph'[Len(graph) + 1] = Child(up, "group", x)
      /\ mv => graph'[b] = Child(at, "transform", x)
      /\ \A i \in 1..k : graph'[b + i] = Child(under, "mesh", i)
  BY DEF IsHung
<1>9. \A p, t, n : Child(p, t, n).parent = p /\ Child(p, t, n).type = t /\ Child(p, t, n).shows = n
  BY DEF Child
<1>10. ASSUME x # 1, NEW g, g = Len(graph) + 1 PROVE IsJustified(g, E)'
  <2>1. graph'[g].parent = up /\ graph'[g].type = "group" /\ graph'[g].shows = x
    BY <1>8, <1>9, <1>10
  <2>2. PICK p \in D : IsChild(x, p) /\ Under(p) = {up}
    BY <1>10
  <2>3. IsChild(x, p)' /\ Under(p)' = {up}
    BY <1>2, <2>2 DEF IsChild
  <2> QED BY <1>10, <2>1, <2>3 DEF IsJustified
<1>11. ASSUME mv, NEW g, g = b PROVE IsJustified(g, E)'
  <2>1. graph'[g].parent = at /\ graph'[g].type = "transform" /\ graph'[g].shows = x
    <3>1. graph'[b] = Child(at, "transform", x)
      BY <1>8, <1>11
    <3> QED BY <1>9, <1>11, <3>1
  <2> QED BY <1>2, <1>11, <2>1 DEF IsJustified
<1>12. ASSUME NEW i \in 1..k, NEW g, g = b + i PROVE IsJustified(g, E)'
  <2>1. graph'[g].parent = under /\ graph'[g].type = "mesh" /\ graph'[g].shows = i
    BY <1>8, <1>9, <1>12
  <2> QED BY <1>2, <1>3, <1>12, <2>1 DEF IsJustified
<1>13. Justified(E)'
  <2>1. ASSUME NEW g \in DOMAIN graph' PROVE IsJustified(g, E)'
    <3>1. \/ g \in DOMAIN graph /\ graph'[g] = graph[g]
          \/ x # 1 /\ g = Len(graph) + 1
          \/ mv /\ g = b
          \/ \E i \in 1..k : g = b + i
      BY <1>4 DEF HasMade
    <3> QED BY <1>7, <1>10, <1>11, <1>12, <3>1
  <2> QED BY <2>1 DEF Justified
<1> QED BY <1>2, <1>5, <1>6, <1>13 DEF GraphStep

LEMMA TopFact ==
    ASSUME NEW gs \in Seq(GraphNode), NEW x, NEW mv \in BOOLEAN
    PROVE  TopOf(gs, x, mv) \in Nat /\ Len(gs) <= TopOf(gs, x, mv)
<1>1. Len(gs) \in Nat
  OBVIOUS
<1>2. CASE mv
  BY <1>1, <1>2 DEF TopOf
<1>3. CASE ~ mv
  BY <1>1, <1>3 DEF TopOf
<1> QED BY <1>2, <1>3

LEMMA LoadNodeKeeps ==
    ASSUME FacesInv, GraphInv, LoadNode
    PROVE  GraphInv'
<1>1. /\ file \in SceneFiles /\ graph \in Seq(GraphNode) /\ 1 \in DOMAIN graph /\ graph[1].type = "root"
      /\ pending \in Seq(PendingCall) /\ pending # <<>> /\ loading = "nodes" /\ loading' = "nodes" /\ file' = file
  BY DEF FacesInv, GraphInv, LoadNode
<1>2. PICK D \in SUBSET DOMAIN file.nodes : TreeSoFar(D)
  BY <1>1 DEF GraphInv
<1>3. PICK x, up : x = Head(pending).node /\ up = Head(pending).parent
  OBVIOUS
<1>4. /\ Len(pending) \in Nat \ {0} /\ 1 \in 1..Len(pending) /\ pending[1].node = x /\ pending[1].parent = up
      /\ up \in Nat
  <2>1. Len(pending) \in Nat \ {0} /\ 1 \in 1..Len(pending) /\ Head(pending) = pending[1] /\ pending[1] \in PendingCall
    BY <1>1
  <2> QED BY <1>3, <2>1 DEF PendingCall
<1>5. x \in DOMAIN file.nodes \ D /\ (x # 1 => \E p \in D : IsChild(x, p) /\ Under(p) = {up})
  <2>1. \A i \in 1..Len(pending) :
          /\ pending[i].node \in DOMAIN file.nodes \ D
          /\ pending[i].node # 1 =>
                \E p \in D : IsChild(pending[i].node, p) /\ Under(p) = {pending[i].parent}
    BY <1>2 DEF TreeSoFar, CallsAreTrue
  <2> QED BY <1>4, <2>1
<1>6. PICK mv, k, at, b, under, c :
          /\ mv = file.nodes[x].moved /\ k = Len(file.nodes[x].meshes) /\ c = Len(file.nodes[x].children)
          /\ at = PlaceOf(graph, x) /\ b = TopOf(graph, x, mv) /\ under = UnderOf(graph, x, mv)
  OBVIOUS
<1>7. mv \in BOOLEAN /\ k \in Nat /\ c \in Nat /\ x \in Nat
  BY <1>1, <1>5, <1>6, NodesFact
<1>8. /\ graph' = Hung(graph, x, up, mv, k)
      /\ pending' = CallsFor(file.nodes[x].children, under, Tail(pending))
  BY <1>1, <1>3, <1>5, <1>6, LoadNodeDoes
<1>9. graph' \in Seq(GraphNode) /\ IsHung(graph', graph, x, up, mv, k)
  BY <1>1, <1>4, <1>7, <1>8, HungIs
<1>10. under \in Nat
  <2>1. Len(graph) \in Nat
    BY <1>1
  <2>2. TopOf(graph, x, mv) \in Nat
    BY <1>1, <1>7, TopFact
  <2> QED BY <1>6, <2>1, <2>2 DEF UnderOf, PlaceOf
<1>11. /\ Made(D \cup {x})' /\ NotMade(D \cup {x})' /\ Justified(D \cup {x})'
       /\ \A n \in DOMAIN file.nodes : n # x => Under(n)' = Under(n)
       /\ Under(x)' = {under}
  <2>1. GraphStep(D, x, under)
    BY <1>1, <1>2, <1>4, <1>5, <1>6, <1>9, GraphStaysTrue
  <2> QED BY <2>1 DEF GraphStep
<1>12. pending' \in Seq(PendingCall) /\ CallsStepNext(x, under, c)
  <2>1. /\ pending' \in Seq(PendingCall) /\ Len(pending') = c + Len(pending) - 1
        /\ \A i \in 1..c : pending'[i] = [node |-> file.nodes[x].children[i], parent |-> under]
        /\ \A i \in 2..Len(pending) : pending'[c + i - 1] = pending[i]
    <3>1. pending' \in Seq(PendingCall) /\ AreCallsFor(pending', pending, file.nodes[x].children, under, c)
      BY <1>1, <1>5, <1>6, <1>7, <1>8, <1>10, CallsForIs
    <3> QED BY <3>1 DEF AreCallsFor
  <2> QED BY <1>1, <2>1 DEF CallsStepNext
<1>13. CallsStep(D, x, under, c)
  BY <1>1, <1>2, <1>4, <1>5, <1>6, <1>7 DEF CallsStep
<1>14. CallsAreTrue(D \cup {x})' /\ NoneIsLost(D \cup {x})'
  BY <1>11, <1>12, <1>13, CallsStayTrue DEF CallsStep
<1>15. TreeSoFar(D \cup {x})'
  BY <1>11, <1>14 DEF TreeSoFar
<1>16. D \cup {x} \in SUBSET DOMAIN file'.nodes
  BY <1>1, <1>2, <1>5
<1>17. 1 \in DOMAIN graph' /\ graph'[1].type = "root"
  <2>1. 1 \in 1..Len(graph) /\ graph'[1] = graph[1]
    BY <1>1, <1>9 DEF IsHung
  <2>2. graph[1].type = "root"
    BY <1>1
  <2>3. Len(graph') >= Len(graph) /\ Len(graph) \in Nat /\ Len(graph') \in Nat
    <3>1. b \in Nat /\ Len(graph) <= b
      BY <1>1, <1>6, <1>7, TopFact
    <3>2. Len(graph') = b + k
      BY <1>6, <1>9 DEF IsHung
    <3>3. Len(graph) \in Nat
      BY <1>1
    <3> QED BY <1>7, <3>1, <3>2, <3>3
  <2> QED BY <1>9, <2>1, <2>2, <2>3
<1> QED BY <1>1, <1>9, <1>12, <1>15, <1>16, <1>17 DEF GraphInv

LEMMA GraphBegins == MeshInit => GraphInv
<1> SUFFICES ASSUME MeshInit PROVE GraphInv
  OBVIOUS
<1>1. /\ graph = <<[parent |-> 0, type |-> "root", shows |-> 0]>> /\ pending = <<>>
      /\ loading = "materials"
  BY DEF MeshInit
<1>2. [parent |-> 0, type |-> "root", shows |-> 0] \in GraphNode
  BY DEF GraphNode
<1>3. graph \in Seq(GraphNode) /\ Len(graph) = 1 /\ 1 \in DOMAIN graph /\ graph[1].type = "root"
  BY <1>1, <1>2
<1>4. pending \in Seq(PendingCall)
  BY <1>1
<1> QED BY <1>1, <1>3, <1>4 DEF GraphInv

LEMMA MeshesDoneKeeps ==
    ASSUME FacesInv, GraphInv, MeshesDone
    PROVE  GraphInv'
<1>1. /\ file \in SceneFiles /\ graph \in Seq(GraphNode) /\ 1 \in DOMAIN graph /\ graph[1].type = "root"
      /\ Len(graph) = 1 /\ loading' = "nodes" /\ UNCHANGED <<file, graph>>
      /\ pending' = (IF file.nodes = <<>> THEN <<>> ELSE <<[node |-> 1, parent |-> 1]>>)
  BY DEF FacesInv, GraphInv, MeshesDone
<1>2. /\ pending' \in Seq(PendingCall)
      /\ file.nodes = <<>> => Len(pending') = 0
      /\ file.nodes # <<>> => Len(pending') = 1 /\ pending'[1].node = 1 /\ pending'[1].parent = 1
  <2>1. [node |-> 1, parent |-> 1] \in PendingCall
    BY DEF PendingCall
  <2> QED BY <1>1, <2>1
<1>3. DOMAIN graph = {1}
  BY <1>1
<1>4. file.nodes # <<>> => 1 \in DOMAIN file.nodes
  <2>1. IsSequence(file.nodes)
    BY <1>1, MeshesAssumption
  <2>2. file.nodes \in Seq(ToSet(file.nodes))
    BY <2>1, IsSequenceFact
  <2> QED BY <2>2
<1>5. DOMAIN file.nodes = 1..Len(file.nodes) /\ (file.nodes = <<>> => DOMAIN file.nodes = {})
  <2>1. DOMAIN file.nodes = 1..Len(file.nodes)
    BY <1>1, NodesFact
  <2> QED BY <2>1
<1>6. CallsAreTrue({})'
  BY <1>1, <1>2, <1>4 DEF CallsAreTrue
<1>7. NoneIsLost({})'
  <2>1. ASSUME NEW n \in DOMAIN file.nodes, n = 1 PROVE IsPending(n)'
    BY <1>2, <1>5, <2>1 DEF IsPending
  <2> QED BY <1>1, <2>1 DEF NoneIsLost
<1>8. Made({})'
  BY DEF Made
<1>9. NotMade({})'
  BY <1>1, <1>3 DEF NotMade, Of
<1>10. Justified({})'
  BY <1>1, <1>3 DEF Justified, IsJustified
<1>11. TreeSoFar({})'
  BY <1>6, <1>7, <1>8, <1>9, <1>10 DEF TreeSoFar
<1>12. {} \in SUBSET DOMAIN file'.nodes
  OBVIOUS
<1> QED BY <1>1, <1>2, <1>11, <1>12 DEF GraphInv

LEMMA GraphKeeps == FacesInv /\ GraphInv /\ [MeshNext \/ LoadNext]_meshVars => GraphInv'
<1> SUFFICES ASSUME FacesInv, GraphInv, [MeshNext \/ LoadNext]_meshVars PROVE GraphInv'
  OBVIOUS
<1>1. ASSUME UNCHANGED <<file, graph, pending>>,
             loading' \in {"materials", "meshes"} => loading \in {"materials", "meshes"},
             loading' \in {"nodes", "done"} => loading \in {"nodes", "done"},
             loading' = "done" => pending = <<>>
      PROVE  GraphInv'
  <2>1. ASSUME NEW D, TreeSoFar(D) PROVE TreeSoFar(D)'
    <3>1. /\ \A t, n : Of(t, n)' = Of(t, n)
          /\ \A n, p : IsChild(n, p)' = IsChild(n, p)
          /\ \A n : IsPending(n)' = IsPending(n)
      BY <1>1 DEF Of, IsChild, IsPending
    <3>2. \A n : PlacesOf(n)' = PlacesOf(n)
      BY <3>1 DEF PlacesOf
    <3>3. \A n : Under(n)' = Under(n)
      BY <1>1, <3>1, <3>2 DEF Under
    <3>4. \A n, m : MeshesOf(n, m)' = MeshesOf(n, m)
      BY <1>1, <3>1, <3>3 DEF MeshesOf
    <3>5. CallsAreTrue(D)'
      BY <1>1, <2>1, <3>3 DEF TreeSoFar, CallsAreTrue, IsChild
    <3>6. NoneIsLost(D)'
      BY <1>1, <2>1, <3>1 DEF TreeSoFar, NoneIsLost
    <3>7. Made(D)'
      BY <1>1, <2>1, <3>1, <3>2, <3>4 DEF TreeSoFar, Made, IsOne
    <3>8. NotMade(D)'
      BY <1>1, <2>1, <3>1 DEF TreeSoFar, NotMade
    <3>9. Justified(D)'
      BY <1>1, <2>1, <3>2, <3>3 DEF TreeSoFar, Justified, IsJustified, IsChild
    <3> QED BY <3>5, <3>6, <3>7, <3>8, <3>9 DEF TreeSoFar
  <2> QED BY <1>1, <2>1 DEF GraphInv
<1>2. CASE LoadNode
  BY <1>2, LoadNodeKeeps
<1>3. CASE MeshesDone
  BY <1>3, MeshesDoneKeeps
<1>4. CASE MeshNext \/ UNCHANGED meshVars
  <2>1. UNCHANGED loadVars
    BY <1>4 DEF MeshNext, SetMode, SetKind, AppendElement, Drawable, meshVars
  <2>2. loading' = "done" => pending = <<>>
    BY <2>1 DEF loadVars, GraphInv
  <2> QED BY <1>1, <2>1, <2>2 DEF loadVars
<1>5. CASE LoadMaterial \/ MaterialsDone \/ LoadFace \/ LoadMesh \/ NodesDone
  <2>1. /\ UNCHANGED <<file, graph, pending>>
        /\ loading' \in {"materials", "meshes"} => loading \in {"materials", "meshes"}
        /\ loading' \in {"nodes", "done"} => loading \in {"nodes", "done"}
        /\ loading' = "done" => pending = <<>>
    BY <1>5 DEF LoadMaterial, MaterialsDone, LoadFace, LoadMesh, NodesDone, Fails
  <2> QED BY <1>1, <2>1
<1> QED BY <1>2, <1>3, <1>4, <1>5 DEF LoadNext

\* When no call is to come every node is loaded: the least that is not would have
\* a parent before it.
LEMMA AllAreLoaded ==
    ASSUME file \in SceneFiles, NEW D \in SUBSET DOMAIN file.nodes, TreeSoFar(D), pending = <<>>
    PROVE  D = DOMAIN file.nodes
<1> DEFINE T == DOMAIN file.nodes \ D
<1>1. SUFFICES ASSUME T # {} PROVE FALSE
  OBVIOUS
<1>2. DOMAIN file.nodes \subseteq Nat
  <2>1. DOMAIN file.nodes = 1..Len(file.nodes)
    BY NodesFact
  <2> QED BY <2>1
<1>3. PICK n \in T : \A m \in T : n <= m
  <2>1. T \in SUBSET Nat
    BY <1>2
  <2> HIDE DEF T
  <2> QED BY <1>1, <2>1, LeastFact
<1>4. ~ IsPending(n)
  BY DEF IsPending
<1>5. n # 1
  BY <1>3, <1>4 DEF TreeSoFar, NoneIsLost
<1>6. PICK p \in DOMAIN file.nodes : IsChild(n, p)
  BY <1>3, <1>5, NodesFact DEF IsChild
<1>7. n > p /\ n \in Nat /\ p \in Nat
  BY <1>6, ChildFact
<1>8. p \in D
  BY <1>3, <1>6, <1>7
<1> QED BY <1>3, <1>4, <1>6, <1>8 DEF TreeSoFar, NoneIsLost

LEMMA GraphGivesTree == FacesInv /\ GraphInv => TreeIsKept
<1> SUFFICES ASSUME FacesInv, GraphInv, loading = "done" PROVE TreeIsKept
  BY DEF TreeIsKept
<1>1. file \in SceneFiles /\ pending = <<>>
  BY DEF FacesInv, GraphInv
<1>2. PICK D \in SUBSET DOMAIN file.nodes : TreeSoFar(D)
  BY DEF GraphInv
<1>3. D = DOMAIN file.nodes
  BY <1>1, <1>2, AllAreLoaded
<1>4. ASSUME NEW n \in DOMAIN file.nodes
      PROVE  /\ IsOne(PlacesOf(n)) /\ (file.nodes[n].moved => IsOne(Of("transform", n)))
             /\ \A i \in DOMAIN file.nodes[n].meshes : IsOne(MeshesOf(n, i))
  BY <1>2, <1>3 DEF TreeSoFar, Made
<1>5. ASSUME NEW g \in DOMAIN graph
      PROVE  LET s == graph[g].shows
                 up == {graph[g].parent}
             IN \/ graph[g].type = "root" /\ g = 1
                \/ /\ graph[g].type = "group"
                   /\ \E p \in DOMAIN file.nodes : s \in ToSet(file.nodes[p].children) /\ up = Under(p)
                \/ /\ graph[g].type = "transform" /\ s \in DOMAIN file.nodes
                   /\ file.nodes[s].moved /\ up = PlacesOf(s)
                \/ /\ graph[g].type = "mesh"
                   /\ \E n \in DOMAIN file.nodes : s \in DOMAIN file.nodes[n].meshes /\ up = Under(n)
  <2>1. IsJustified(g, DOMAIN file.nodes)
    BY <1>2, <1>3 DEF TreeSoFar, Justified
  <2> QED BY <2>1 DEF IsJustified, IsChild
<1> QED BY <1>4, <1>5 DEF TreeIsKept

\* What a mesh draws is what was appended to it, and a scene is what is in its
\* file: each corner of each face, the colours of its materials, and every node
\* of the tree once, where it belongs, for any files and any number of elements
\* (Mesh.cpp:99-105, 190-260; assimp_mesh.hpp:17-94; Scene.cpp:70-130).
THEOREM MeshesStayWhole == MeshSpec => []MeshesAreWhole
<1> DEFINE MInv == DrawnInv /\ FacesInv /\ ColorsInv /\ GraphInv
<1>1. MeshInit => MInv
  BY DrawnBegins, FacesBegin, ColorsBegin, GraphBegins
<1>2. MInv /\ [MeshNext \/ LoadNext]_meshVars => MInv'
  BY DrawnKeeps, FacesKeep, ColorsKeep, GraphKeeps
<1>3. MInv => MeshesAreWhole
  BY FacesGiveCorners, ColorsInvGives, GraphGivesTree DEF DrawnInv, MeshesAreWhole
<1> QED BY <1>1, <1>2, <1>3, PTL DEF MeshSpec
=============================================================================
