------------------------ MODULE PackageStorageProofs ------------------------
(***************************************************************************)
(* Proofs about PackageStorage for any versions, contents, storages and    *)
(* cached requests: the database names complete directories only, a        *)
(* request is answered with the preferred version from the right storage,  *)
(* and is handed the content that was resolved for it.                     *)
(***************************************************************************)
EXTENDS PackageStorage, FiniteSetTheorems, TLAPS

Content == Hash \cup {None}
Installing == {"copy", "clear", "unpack", "row"}

(* The types the argument needs; a result that is installed is a package.   *)
Shape ==
  /\ served \in [Version -> Content] /\ listing \in [Version -> Content]
  /\ filed \in [Version -> Content]
  /\ rows \in [Version -> Content]
  /\ DOMAIN dir = Version
  /\ overridden \subseteq Version /\ todo \subseteq Version
  /\ storage \in {"overridden", "local", "remote"}
  /\ spoiled \subseteq Version
  /\ result \in Package \cup {None}
  /\ cache \in [ByCache -> Package \cup {None}]
  /\ phase \in Installing \cup {"resolved", "handed"} => result \in Package

(* Between the clearing of a directory and the row of its package, the      *)
(* directory holds what is installed, or is in the hands of the process.    *)
InHands ==
  /\ phase = "row" => dir[result.version] = result.hash
  /\ RowsAreComplete

(* A search reads rows that do not change before it is answered.            *)
FromRows ==
  /\ phase = "rows" /\ storage = "local" => todo \subseteq Listed(rows)
  /\ phase = "rows" /\ storage = "remote" => todo \subseteq Listed(listing)
  /\ ~cached /\ phase \in {"rows", "resolved"} /\ result # None =>
       /\ result.from = "local" => rows[result.version] = result.hash
       /\ result.from # "overridden" => result.hash # None

IInv == Shape /\ InHands /\ FromRows /\ HandedIsResolved

LEMMA InitInv == Init => IInv
<1> SUFFICES ASSUME Init PROVE IInv
  OBVIOUS
<1>1. served \in [Version -> Content]
  BY DEF Init, Listing, Content
<1>2. overridden \subseteq Version
  BY VersionsAssumption DEF Init
<1>3. Shape
  BY <1>1, <1>2 DEF Init, Shape, Content, Installing
<1>4. Listed(rows) = {}
  BY DEF Init, Listed
<1>5. InHands /\ FromRows /\ HandedIsResolved
  BY <1>4 DEF Init, InHands, RowsAreComplete, FromRows, HandedIsResolved
<1> QED
  BY <1>3, <1>5 DEF IInv
-----------------------------------------------------------------------------
LEMMA WorldStep ==
  ASSUME IInv, \/ Start \/ Die \/ EndRequest
               \/ \E v \in Version : Publish(v) \/ RemoveDirectory(v)
  PROVE  IInv'
<1> USE DEF IInv, world, remote, local, search, request
<1>1. CASE Start
  BY <1>1 DEF Start, Shape, InHands, RowsAreComplete, FromRows, HandedIsResolved, Listed,
              Installing
<1>2. CASE Die
  <2>0. phase \in {"unpack", "row"} => result.version \in Version
    BY DEF Shape, Installing, Package
  <2>1. Shape'
    BY <1>2, <2>0 DEF Die, ForgetRequest, Shape, Installing
  <2>2. RowsAreComplete'
    BY <1>2 DEF Die, RowsAreComplete, InHands, Listed, Shape
  <2>3. InHands' /\ FromRows' /\ HandedIsResolved'
    BY <1>2, <2>2 DEF Die, InHands, FromRows, HandedIsResolved
  <2> QED
    BY <2>1, <2>3
<1>3. CASE EndRequest
  <2>1. Shape'
    BY <1>3 DEF EndRequest, ForgetRequest, Shape, Installing
  <2>2. RowsAreComplete'
    BY <1>3 DEF EndRequest, RowsAreComplete, InHands, Listed
  <2>3. InHands' /\ FromRows' /\ HandedIsResolved'
    BY <1>3, <2>2 DEF EndRequest, InHands, FromRows, HandedIsResolved
  <2> QED
    BY <2>1, <2>3
<1>4. ASSUME NEW v \in Version, Publish(v) PROVE IInv'
  <2>1. Shape'
    <3>1. May[v] \subseteq Hash
      BY VersionsAssumption
    <3>2. served' \in [Version -> Content]
      BY <1>4, <3>1 DEF Publish, Shape, Content
    <3> QED
      BY <1>4, <3>2 DEF Publish, Shape
  <2>2. InHands' /\ FromRows' /\ HandedIsResolved'
    BY <1>4 DEF Publish, InHands, RowsAreComplete, FromRows, HandedIsResolved, Listed
  <2> QED
    BY <2>1, <2>2
<1>5. ASSUME NEW v \in Version, RemoveDirectory(v) PROVE IInv'
  <2>1. Shape'
    BY <1>5 DEF RemoveDirectory, Shape, Installing
  <2>2. RowsAreComplete'
    BY <1>5 DEF RemoveDirectory, RowsAreComplete, InHands, Listed, Shape
  <2>3. InHands' /\ FromRows' /\ HandedIsResolved'
    BY <1>5, <2>2 DEF RemoveDirectory, InHands, FromRows, HandedIsResolved
  <2> QED
    BY <2>1, <2>3
<1> QED
  BY <1>1, <1>2, <1>3, <1>4, <1>5
-----------------------------------------------------------------------------
(* resolve() leaves the local storage alone, and is not an install.         *)
LEMMA QuietSearch ==
  ASSUME IInv, UNCHANGED <<rows, dir, spoiled>>,
         phase \notin {"unpack", "row", "handed"}, phase' \notin {"unpack", "row", "handed"}
  PROVE  InHands' /\ HandedIsResolved'
  BY DEF IInv, InHands, RowsAreComplete, HandedIsResolved, Listed

LEMMA ResolveStep ==
  ASSUME IInv, Resolve
  PROVE  IInv'
<1> USE DEF IInv, world, remote, local, search, request
<1>1. ASSUME NEW r \in Ranges(kind), Request(r) PROVE IInv'
  <2>1. Shape'
    BY <1>1 DEF Request, BeginSearch, Shape, Installing
  <2>2. InHands' /\ HandedIsResolved'
    BY <1>1, QuietSearch DEF Request, BeginSearch
  <2>3. FromRows'
    BY <1>1 DEF Request, BeginSearch, FromRows
  <2> QED
    BY <2>1, <2>2, <2>3
<1>2. ASSUME NEW r \in ByCache, CachedRequest(r) PROVE IInv'
  <2>1. Shape'
    <3>1. CASE cache[r] = None /\ BeginSearch(r)
      BY <1>2, <3>1 DEF CachedRequest, BeginSearch, Shape, Installing
    <3>2. CASE cache[r] # None /\ result' = cache[r] /\ phase' = "resolved"
                /\ UNCHANGED <<storage, todo, took>>
      BY <1>2, <3>2 DEF CachedRequest, Shape, Installing
    <3> QED
      BY <1>2, <3>1, <3>2 DEF CachedRequest
  <2>2. InHands' /\ HandedIsResolved'
    BY <1>2, QuietSearch DEF CachedRequest, BeginSearch
  <2>3. FromRows'
    BY <1>2 DEF CachedRequest, BeginSearch, FromRows
  <2> QED
    BY <2>1, <2>2, <2>3
<1>3. ASSUME NEW v \in Version, Row(v) PROVE IInv'
  <2> DEFINE p == [version |-> v, hash |-> HashIn(storage, v), from |-> storage]
  <2>1. /\ phase = "rows" /\ v \in todo /\ todo' = todo \ {v}
        /\ UNCHANGED <<rows, dir, spoiled, overridden, served, listing, filed, storage,
                       cached, phase, cache>>
        /\ result' = p \/ result' = result
    BY <1>3 DEF Row
  <2>2. /\ storage = "local" => HashIn(storage, v) = rows[v]
        /\ storage = "remote" => HashIn(storage, v) = listing[v]
        /\ storage = "overridden" => HashIn(storage, v) = None
    BY DEF HashIn
  <2>3. HashIn(storage, v) \in Content
    BY <2>2 DEF Shape, Content
  <2>4. p \in Package
    BY <2>3 DEF Package, Content, Shape
  <2>5. Shape'
    BY <2>1, <2>4 DEF Shape, Installing
  <2>6. InHands' /\ HandedIsResolved'
    BY <2>1, QuietSearch
  <2>7. FromRows'
    BY <2>1, <2>2 DEF FromRows, Listed, Shape
  <2> QED
    BY <2>5, <2>6, <2>7
<1>4. CASE NextStorage
  <2>1. /\ phase = "rows" /\ result' \in {None, result}
        /\ UNCHANGED <<rows, dir, spoiled, overridden, served, filed, cached, phase, cache>>
    BY <1>4 DEF NextStorage
  <2>2. listing' \in [Version -> Content] /\ storage' \in {"local", "remote"}
        /\ todo' = IF storage' = "local" THEN Listed(rows) ELSE Listed(listing')
    BY <1>4 DEF NextStorage, Shape
  <2>3. Shape'
    BY <2>1, <2>2 DEF Shape, Installing, Listed
  <2>4. InHands' /\ HandedIsResolved'
    BY <2>1, QuietSearch
  <2>5. FromRows'
    BY <2>1, <2>2 DEF FromRows, Listed
  <2> QED
    BY <2>3, <2>4, <2>5
<1>5. CASE EndSearch
  <2>1. /\ phase = "rows" /\ phase' = IF result = None THEN "unresolved" ELSE "resolved"
        /\ UNCHANGED <<rows, dir, spoiled, overridden, served, listing, filed, storage, todo,
                       result, cached>>
    BY <1>5 DEF EndSearch
  <2>2. cache' \in [ByCache -> Package \cup {None}]
    BY <1>5 DEF EndSearch, Shape
  <2>3. Shape'
    BY <2>1, <2>2 DEF Shape, Installing
  <2>4. InHands' /\ HandedIsResolved'
    BY <2>1, QuietSearch
  <2>5. FromRows'
    BY <2>1 DEF FromRows
  <2> QED
    BY <2>3, <2>4, <2>5
<1> QED
  BY <1>1, <1>2, <1>3, <1>4, <1>5 DEF Resolve
-----------------------------------------------------------------------------
LEMMA InstallStep ==
  ASSUME IInv, Install
  PROVE  IInv'
<1> DEFINE v == result.version
<1> USE DEF IInv, world, remote, local, search, request
<1>0. result \in Package => v \in Version /\ result.hash \in Content
  BY DEF Package, Content
<1>1. CASE UseResult
  <2>1. Shape'
    BY <1>1 DEF UseResult, Shape, Installing
  <2>2. InHands'
    BY <1>1 DEF UseResult, InHands, RowsAreComplete, Listed
  <2>3. result \in Package /\ v \in Version
    BY <1>0, <1>1 DEF UseResult, Shape
  <2>4. HandedIsResolved'
    <3> SUFFICES ASSUME ~cached, result.from # "overridden", v \notin spoiled
                 PROVE  dir[v] = result.hash
      BY <1>1 DEF UseResult, HandedIsResolved
    <3>1. rows[v] = result.hash /\ result.hash # None
      BY <1>1, <2>3, ContentAssumption DEF UseResult, Installed, FromRows, Package
    <3> QED
      BY <1>1, <2>3, <3>1 DEF UseResult, InHands, RowsAreComplete, Listed
  <2> QED
    BY <1>1, <2>1, <2>2, <2>4 DEF UseResult, FromRows
<1>2. CASE CreateDirectory
  <2>1. /\ result \in Package /\ v \in Version /\ phase = "resolved" /\ phase' = "copy"
        /\ dir' = [dir EXCEPT ![v] = IF @ = Missing THEN Cut ELSE @]
        /\ UNCHANGED <<rows, spoiled, overridden, served, listing, filed, storage, todo,
                       result, cached, cache>>
    BY <1>0, <1>2 DEF CreateDirectory, Shape
  <2>2. Shape'
    BY <2>1 DEF Shape, Installing
  <2>3. ASSUME NEW w \in Listed(rows) \ spoiled PROVE dir'[w] = rows[w]
    <3>1. w \in Version /\ dir[w] = rows[w] /\ rows[w] \in Content
      BY <2>1, <2>3 DEF InHands, RowsAreComplete, Listed, Shape
    <3>2. dir[w] # Missing
      BY <3>1, ContentAssumption DEF Content
    <3> QED
      BY <2>1, <3>1, <3>2 DEF Shape
  <2>4. InHands' /\ FromRows' /\ HandedIsResolved'
    BY <2>1, <2>3 DEF InHands, RowsAreComplete, FromRows, HandedIsResolved, Listed
  <2> QED
    BY <2>2, <2>4
<1>3. CASE CopyArchive \/ CopyFails
  <2>1. Shape'
    BY <1>3 DEF CopyArchive, CopyFails, Shape, Installing
  <2>2. InHands' /\ FromRows' /\ HandedIsResolved'
    BY <1>3 DEF CopyArchive, CopyFails, InHands, RowsAreComplete, FromRows,
                HandedIsResolved, Listed
  <2> QED
    BY <2>1, <2>2
<1>4. CASE ClearDirectory
  <2>1. Shape'
    BY <1>4 DEF ClearDirectory, Shape, Installing
  <2>2. InHands' /\ FromRows' /\ HandedIsResolved'
    BY <1>4 DEF ClearDirectory, InHands, RowsAreComplete, FromRows, HandedIsResolved,
                Listed, Shape
  <2> QED
    BY <2>1, <2>2
<1>5. CASE Unpack
  <2>1. v \in Version
    BY <1>0, <1>5 DEF Unpack, Shape, Installing
  <2>2. Shape'
    BY <1>5 DEF Unpack, Shape, Installing
  <2>3. InHands' /\ FromRows' /\ HandedIsResolved'
    BY <1>5, <2>1 DEF Unpack, InHands, RowsAreComplete, FromRows, HandedIsResolved,
                      Listed, Shape
  <2> QED
    BY <2>2, <2>3
<1>6. CASE UnpackFails
  <2>1. v \in Version
    BY <1>0, <1>6 DEF UnpackFails, Shape, Installing
  <2>2. Shape'
    BY <1>6, <2>1 DEF UnpackFails, Shape, Installing
  <2>3. InHands' /\ FromRows' /\ HandedIsResolved'
    BY <1>6 DEF UnpackFails, InHands, RowsAreComplete, FromRows, HandedIsResolved, Listed
  <2> QED
    BY <2>2, <2>3
<1>7. CASE WriteRow
  <2>1. v \in Version /\ result.hash \in Content /\ dir[v] = result.hash
    BY <1>0, <1>7 DEF WriteRow, Shape, Installing, InHands
  <2>2. Shape'
    BY <1>7, <2>1 DEF WriteRow, Shape, Installing
  <2>3. InHands' /\ FromRows' /\ HandedIsResolved'
    BY <1>7, <2>1 DEF WriteRow, InHands, RowsAreComplete, FromRows, HandedIsResolved,
                      Listed, Shape
  <2> QED
    BY <2>2, <2>3
<1> QED
  BY <1>1, <1>2, <1>3, <1>4, <1>5, <1>6, <1>7 DEF Install

LEMMA NextInv == IInv /\ [Next]_vars => IInv'
<1>1. IInv /\ UNCHANGED vars => IInv'
  BY DEF vars, world, remote, local, search, request, IInv, Shape, InHands,
         RowsAreComplete, FromRows, HandedIsResolved, Listed
<1> QED
  BY <1>1, WorldStep, ResolveStep, InstallStep DEF Next

THEOREM InductiveInvariant == Spec => []IInv
  BY InitInv, NextInv, PTL DEF Spec
-----------------------------------------------------------------------------
(* Whatever fails and wherever the process dies, the database names no      *)
(* version whose directory is not complete, unless the user removed it or   *)
(* it was being installed anew.                                             *)
THEOREM DirectoriesAreComplete == Spec => []RowsAreComplete
<1>1. IInv => RowsAreComplete
  BY DEF IInv, InHands
<1> QED
  BY InductiveInvariant, <1>1, PTL

(* A request that did not go through the cache is handed the content that   *)
(* was resolved for it.                                                     *)
THEOREM HandedAsResolved == Spec => []HandedIsResolved
<1>1. IInv => HandedIsResolved
  BY DEF IInv
<1> QED
  BY InductiveInvariant, <1>1, PTL
-----------------------------------------------------------------------------
(* Types: what comes from the remote was published, so that what is         *)
(* unpacked and recorded is a content.                                      *)
Published(p) == p # None /\ p.from = "remote" => p.hash \in May[p.version]
AllPublished == Published(result) /\ \A r \in ByCache : Published(cache[r])

Phases == Installing \cup {"off", "idle", "rows", "resolved", "unresolved", "handed"}

LEMMA ListingTypes ==
  ASSUME NEW l \in Listing
  PROVE  /\ l \in [Version -> Hash \cup {None}]
         /\ \A v \in Version : l[v] \in May[v] \cup {None} /\ May[v] \subseteq Hash
  BY VersionsAssumption DEF Listing

LEMMA ListingChanges ==
  ASSUME NEW l \in Listing, NEW v \in Version, NEW h \in May[v] \cup {None}
  PROVE  [l EXCEPT ![v] = h] \in Listing
<1>1. h \in Hash \cup {None}
  BY VersionsAssumption
<1> QED
  BY <1>1 DEF Listing

LEMMA InitTypes == Init => TypeOK /\ AllPublished
<1> SUFFICES ASSUME Init PROVE TypeOK /\ AllPublished
  OBVIOUS
<1>1. PICK w \in Worlds : kind = w[1] /\ overridden = w[2]
  BY DEF Init
<1>2. w = <<kind, overridden>>
  BY <1>1, VersionsAssumption
<1>3. rows \in Listing
  BY DEF Init, Listing
<1> QED
  BY <1>2, <1>3 DEF Init, TypeOK, AllPublished, Published

LEMMA TypesStep ==
  ASSUME TypeOK, AllPublished, FromRows, [Next]_vars
  PROVE  TypeOK' /\ AllPublished'
<1> USE DEF world, remote, local, search, request
<1>0. result # None => /\ result \in Package /\ result.version \in Version
                       /\ result.hash \in Hash \cup {None}
  BY DEF TypeOK, Package
<1>w. overridden \subseteq Version /\ kind \in [Version -> {"release", "prerelease", "branch"}]
  BY VersionsAssumption DEF TypeOK
<1>1. CASE Start \/ Die \/ EndRequest
  BY <1>0, <1>1 DEF Start, Die, EndRequest, ForgetRequest, TypeOK, AllPublished, Published
<1>2. ASSUME NEW v \in Version, Publish(v) PROVE TypeOK' /\ AllPublished'
  <2>1. PICK h \in May[v] \cup {None} : served' = [served EXCEPT ![v] = h]
    BY <1>2 DEF Publish
  <2>2. served' \in Listing
    BY <2>1, ListingChanges DEF TypeOK
  <2> QED
    BY <1>2, <2>2 DEF Publish, TypeOK, AllPublished, Published
<1>3. ASSUME NEW v \in Version, RemoveDirectory(v) PROVE TypeOK' /\ AllPublished'
  BY <1>3 DEF RemoveDirectory, TypeOK, AllPublished, Published
<1>4. ASSUME NEW r \in Ranges(kind), BeginSearch(r), cached' \in BOOLEAN,
             UNCHANGED <<world, remote, local, cache>>
      PROVE  TypeOK' /\ AllPublished'
  BY <1>w, <1>4 DEF BeginSearch, TypeOK, AllPublished, Published
<1>5. ASSUME NEW r \in Ranges(kind), r \in ByCache, CachedRequest(r)
      PROVE  TypeOK' /\ AllPublished'
  <2>1. CASE BeginSearch(r)
    BY <1>4, <1>5, <2>1 DEF CachedRequest
  <2>2. CASE ~BeginSearch(r)
    <3>1. /\ cache[r] # None /\ range' = r /\ result' = cache[r] /\ phase' = "resolved"
          /\ cached' = TRUE /\ UNCHANGED <<storage, todo, took, world, remote, local, cache>>
      BY <1>5, <2>2 DEF CachedRequest
    <3> QED
      BY <3>1, <1>5 DEF TypeOK, AllPublished, Published
  <2> QED
    BY <2>1, <2>2
<1>6. ASSUME NEW v \in Version, Row(v) PROVE TypeOK' /\ AllPublished'
  <2> DEFINE p == [version |-> v, hash |-> HashIn(storage, v), from |-> storage]
  <2>1. /\ phase = "rows" /\ v \in todo /\ todo' = todo \ {v}
        /\ UNCHANGED <<world, remote, local, storage, request, phase, cache>>
        /\ (result' = p /\ took' = TRUE) \/ UNCHANGED <<result, took>>
    BY <1>6 DEF Row
  <2>2. HashIn(storage, v) \in May[v] \cup {None}
    BY ListingTypes DEF HashIn, TypeOK
  <2>3. p \in Package
    BY <2>2, ListingTypes DEF Package, TypeOK
  <2>4. storage = "remote" => HashIn(storage, v) \in May[v]
    BY <1>6, <2>2 DEF HashIn, FromRows, Listed, Row
  <2>5. Published(p)
    BY <2>4 DEF Published
  <2> HIDE DEF p
  <2>6. result' \in Package \cup {None} /\ took' \in BOOLEAN /\ Published(result')
    BY <2>1, <2>3, <2>5 DEF TypeOK, AllPublished
  <2> QED
    BY <2>1, <2>6 DEF TypeOK, AllPublished, Published
<1>7. CASE NextStorage
  <2>1. /\ phase = "rows" /\ result' \in {None, result} /\ took' = FALSE
        /\ listing' \in {listing, served} /\ storage' \in {"local", "remote"}
        /\ todo' \subseteq Version
        /\ UNCHANGED <<world, served, filed, local, request, phase, cache>>
    BY <1>7 DEF NextStorage, Listed
  <2> QED
    BY <2>1 DEF TypeOK, AllPublished, Published
<1>8. CASE EndSearch
  <2>1. /\ phase = "rows" /\ phase' = IF result = None THEN "unresolved" ELSE "resolved"
        /\ cache' = IF cached /\ result # None THEN [cache EXCEPT ![range] = result] ELSE cache
        /\ UNCHANGED <<world, remote, local, search, request>>
    BY <1>8 DEF EndSearch
  <2>2. cache' \in [ByCache -> Package \cup {None}]
    BY <1>0, <2>1 DEF TypeOK
  <2>3. \A r \in ByCache : Published(cache'[r])
    BY <2>1 DEF TypeOK, AllPublished
  <2> QED
    BY <2>1, <2>2, <2>3 DEF TypeOK, AllPublished
<1>9. CASE UseResult \/ CopyArchive \/ CopyFails \/ UnpackFails
  BY <1>0, <1>9 DEF UseResult, CopyArchive, CopyFails, UnpackFails, TypeOK, AllPublished, Published
<1>10. CASE CreateDirectory \/ ClearDirectory
  BY <1>0, <1>10 DEF CreateDirectory, ClearDirectory, TypeOK, AllPublished, Published
<1>11. CASE Unpack \/ WriteRow
  <2>1. /\ result \in Package /\ result.from = "remote" /\ result.version \in Version
        /\ result.hash \in May[result.version] /\ result.hash \in Hash
    BY <1>0, <1>11, VersionsAssumption DEF Unpack, WriteRow, TypeOK, AllPublished, Published
  <2>2. CASE Unpack
    BY <2>1, <2>2 DEF Unpack, TypeOK, AllPublished, Published
  <2>3. CASE WriteRow
    <3>1. rows' \in Listing
      BY <2>1, <2>3, ListingChanges DEF WriteRow, TypeOK
    <3> QED
      BY <2>1, <2>3, <3>1 DEF WriteRow, TypeOK, AllPublished, Published
  <2> QED
    BY <1>11, <2>2, <2>3
<1>12. CASE UNCHANGED vars
  BY <1>12 DEF vars, TypeOK, AllPublished, Published
<1>13. ASSUME NEW r \in Ranges(kind), Request(r) PROVE TypeOK' /\ AllPublished'
  BY <1>4, <1>13 DEF Request
<1> QED
  BY <1>1, <1>2, <1>3, <1>5, <1>6, <1>7, <1>8, <1>9, <1>10, <1>11, <1>12, <1>13
  DEF Next, Resolve, Install
-----------------------------------------------------------------------------
(* The search.  It has seen the rows of the storages before the present     *)
(* one, and those of the present one that are not to come.                  *)
Seen == {v \in range : \/ v \in overridden /\ (storage = "overridden" => v \notin todo)
                       \/ /\ v \in Listed(rows) /\ storage # "overridden"
                          /\ storage = "local" => v \notin todo
                       \/ v \in Listed(listing) /\ storage = "remote" /\ v \notin todo}
SeenRemote == {v \in range \cap Listed(listing) : v \notin todo}
BeforeRemote == range \cap (overridden \cup Listed(rows))
All == range \cap (overridden \cup Listed(rows) \cup Listed(listing))

BestIn(v, S) == \A c \in S : c = v \/ kind[v] = "branch" \/ ~Preferred(c, v)

(* The content and the storage of the result, as far as the search has come.*)
RightSoFar ==
  LET v == result.version
  IN  /\ result.from = "overridden" => v \in overridden /\ result.hash = None
      /\ result.from = "local" =>
           /\ v \in Listed(rows) \ overridden /\ result.hash = rows[v]
           /\ storage = "remote" /\ v \notin todo => listing[v] \in {None, rows[v]}
      /\ result.from = "remote" =>
           /\ v \in Listed(listing) \ overridden /\ result.hash = listing[v]
           /\ storage = "remote" /\ v \notin todo
           /\ rows[v] # listing[v] /\ (kind[v] = "branch" => rows[v] = None)
      /\ kind[v] = "branch" => took

Scanned ==
  /\ result = None => Seen = {}
  /\ result # None => result.version \in range /\ BestIn(result.version, Seen) /\ RightSoFar

(* The best version of the overridden and the local storage was dropped,    *)
(* as its directory is missing: the search began anew with the remote.      *)
AfterDrop ==
  /\ storage = "remote"
  /\ \E v \in range \cap Listed(rows) : dir[v] = Missing /\ BestIn(v, BeforeRemote)
  /\ result = None => SeenRemote = {}
  /\ result # None => result.version \in range /\ BestIn(result.version, SeenRemote)

Searching ==
  phase = "rows" =>
    /\ storage = "overridden" => todo \subseteq overridden
    /\ took => result # None /\ result.from = storage
    /\ Scanned \/ AfterDrop

(* What the search has found.  A version whose directory was missing is     *)
(* chosen only if no other is preferred to it.                              *)
Present == \A v \in range \cap Listed(rows) : dir[v] # Missing

ChosenVersion ==
  (/\ ~cached /\ phase \in Installing \cup {"resolved", "handed"}
   /\ \A v \in (range \cap Listed(rows)) \ {result.version} : dir[v] # Missing)
  => BestIn(result.version, All)

ChosenContent ==
  ~cached /\ phase = "resolved" /\ Present =>
    LET v == result.version
        h == IF v \in overridden THEN None
             ELSE IF kind[v] = "branch" /\ rows[v] # None THEN rows[v]
             ELSE IF listing[v] # None THEN listing[v] ELSE rows[v]
        s == IF v \in overridden THEN "overridden"
             ELSE IF rows[v] = h THEN "local" ELSE "remote"
    IN  result.hash = h /\ result.from = s

NothingFound == phase = "unresolved" /\ result = None /\ Present => All = {}

Found == ChosenVersion /\ ChosenContent /\ NothingFound
-----------------------------------------------------------------------------
(* A branch is alone in a range.                                            *)
LEMMA BranchAlone ==
  ASSUME TypeOK
  PROVE  \A x, y \in range : kind[x] = "branch" => x = y
<1> SUFFICES ASSUME NEW x \in range, NEW y \in range, kind[x] = "branch" PROVE x = y
  OBVIOUS
<1>1. range \in Ranges(kind) /\ range \subseteq Version
  BY DEF TypeOK, Ranges
<1>2. Cardinality(range) = 1
  BY <1>1 DEF Ranges
<1>3. IsFiniteSet(range)
  BY <1>1, VersionsAssumption, FS_Subset
<1>4. PICK z : range = {z}
  BY <1>2, <1>3, FS_Singleton
<1> QED
  BY <1>4

(* The comparison of setPackage is an order: a version that is preferred to *)
(* the best of those seen was not seen, and is the best from then on.       *)
LEMMA TakesOver ==
  ASSUME TypeOK, NEW S \in SUBSET range, NEW old \in range, NEW v \in range,
         BestIn(old, S), Preferred(v, old)
  PROVE  v \notin S /\ BestIn(v, S \cup {v})
<1>1. \A x, y \in range : kind[x] = "branch" => x = y
  BY BranchAlone
<1>2. range \subseteq Int
  BY VersionsAssumption DEF TypeOK, Ranges
<1>3. v # old
  BY <1>2 DEF Preferred, IsRelease
<1>4. v \notin S
  BY <1>1, <1>3 DEF BestIn
<1>5. ASSUME NEW c \in S, Preferred(c, v) PROVE FALSE
  <2>1. c \in Int /\ v \in Int /\ old \in Int
    BY <1>2
  <2>2. kind[old] # "branch"
    BY <1>1, <1>3
  <2>3. CASE c = old
    BY <1>5, <2>1, <2>3 DEF Preferred
  <2>4. CASE c # old
    <3>1. Preferred(c, old)
      BY <1>5, <2>1 DEF Preferred
    <3> QED
      BY <2>2, <2>4, <3>1 DEF BestIn
  <2> QED
    BY <2>3, <2>4
<1> QED
  BY <1>4, <1>5 DEF BestIn
-----------------------------------------------------------------------------
LEMMA InitFound == Init => Searching /\ Found
  BY DEF Init, Searching, Found, ChosenVersion, ChosenContent, NothingFound, Installing

LEMMA BeginFound ==
  ASSUME NEW r, BeginSearch(r), UNCHANGED <<world, remote, local>>
  PROVE  Searching' /\ Found'
<1>1. /\ phase' = "rows" /\ storage' = "overridden" /\ todo' = overridden'
      /\ took' = FALSE /\ result' = None
  BY DEF BeginSearch, world
<1>2. Seen' = {}
  BY <1>1 DEF Seen
<1>3. Searching'
  BY <1>1, <1>2 DEF Searching, Scanned
<1> QED
  BY <1>1, <1>3 DEF Found, ChosenVersion, ChosenContent, NothingFound, Installing

(* A row that is not taken leaves the result the best of those seen.        *)
LEMMA RowScanned ==
  ASSUME TypeOK, FromRows, Searching, Scanned, NEW v \in Version, Row(v)
  PROVE  Scanned'
<1> DEFINE p == [version |-> v, hash |-> HashIn(storage, v), from |-> storage]
<1>1. /\ phase = "rows" /\ v \in todo /\ todo' = todo \ {v}
      /\ UNCHANGED <<kind, overridden, listing, rows, storage, range>>
  BY DEF Row, world, remote, local, request
<1>2. IF Overrides(p) \/ Accepts(p) THEN result' = p /\ took' = TRUE
                                    ELSE UNCHANGED <<result, took>>
  BY DEF Row
<1>3. p.version = v /\ p.hash = HashIn(storage, v) /\ p.from = storage
  OBVIOUS
<1>4. /\ storage = "overridden" => v \in overridden /\ HashIn(storage, v) = None
      /\ storage = "local" => v \in Listed(rows) /\ HashIn(storage, v) = rows[v]
      /\ storage = "remote" => v \in Listed(listing) /\ HashIn(storage, v) = listing[v]
  BY <1>1 DEF HashIn, FromRows, Searching
<1>5. storage \in {"overridden", "local", "remote"}
  BY DEF TypeOK
<1>6. Seen' = Seen \cup ({v} \cap range)
  BY <1>1, <1>4, <1>5 DEF Seen, Listed
<1>7. p # None
  <2>1. p \in Package
    BY <1>4, <1>5, ListingTypes DEF Package, TypeOK
  <2> QED
    BY <2>1, ContentAssumption
<1> HIDE DEF p
<1>8. CASE Overrides(p)
  <2>1. /\ storage = "remote" /\ result # None /\ v = result.version
        /\ result.hash # None /\ listing[v] # result.hash /\ v \in Listed(listing)
    BY <1>3, <1>4, <1>8 DEF Overrides
  <2>2. result' = p /\ result'.version = v /\ took' = TRUE
    BY <1>2, <1>3, <1>8
  <2>3. v \in range /\ BestIn(v, Seen) /\ RightSoFar
    BY <2>1 DEF Scanned
  <2>4. BestIn(v, Seen')
    BY <1>6, <2>3 DEF BestIn
  <2>5. result.from = "local"
    <3>1. result \in Package
      BY <2>1 DEF TypeOK
    <3>2. result.from \in {"overridden", "local", "remote"}
      BY <3>1 DEF Package
    <3> QED
      BY <2>1, <2>3, <3>2 DEF RightSoFar
  <2>6. RightSoFar'
    <3>1. kind[v] # "branch"
      BY <1>1, <2>1, <2>3, <2>5 DEF RightSoFar, Searching
    <3> QED
      BY <1>1, <1>3, <1>4, <2>1, <2>2, <2>3, <2>5, <3>1 DEF RightSoFar, Listed
  <2>7. BestIn(v, Seen)' 
    BY <1>1, <2>4 DEF BestIn, Preferred, IsRelease
  <2> QED
    BY <1>1, <1>7, <2>2, <2>3, <2>6, <2>7 DEF Scanned
<1>9. CASE ~Overrides(p) /\ Accepts(p)
  <2>1. result' = p /\ result'.version = v /\ took' = TRUE /\ v \in range
    BY <1>2, <1>3, <1>9 DEF Accepts
  <2>2. v \notin Seen /\ BestIn(v, Seen \cup {v})
    <3>1. CASE result = None
      BY <3>1 DEF Scanned, BestIn
    <3>2. CASE result # None
      <4>1. Preferred(v, result.version)
        BY <1>3, <1>9, <3>2 DEF Accepts
      <4>2. result.version \in range /\ BestIn(result.version, Seen)
        BY <3>2 DEF Scanned
      <4>3. Seen \in SUBSET range
        BY DEF Seen
      <4> QED
        BY <2>1, <4>1, <4>2, <4>3, TakesOver
    <3> QED
      BY <3>1, <3>2
  <2>3. BestIn(v, Seen)'
    BY <1>1, <1>6, <2>1, <2>2 DEF BestIn, Preferred, IsRelease
  <2>4. /\ storage # "overridden" => v \notin overridden
        /\ storage = "remote" => v \notin Listed(rows)
    BY <2>1, <2>2 DEF Seen
  <2>5. RightSoFar'
    BY <1>1, <1>3, <1>4, <1>5, <2>1, <2>4 DEF RightSoFar, Listed
  <2> QED
    BY <1>1, <1>7, <2>1, <2>3, <2>5 DEF Scanned
<1>10. CASE ~Overrides(p) /\ ~Accepts(p)
  <2>1. result' = result /\ took' = took
    BY <1>2, <1>10
  <2>2. CASE result = None
    <3>1. v \notin range
      BY <1>3, <1>10, <2>2 DEF Accepts
    <3> QED
      BY <1>6, <2>1, <2>2, <3>1 DEF Scanned
  <2>3. CASE result # None
    <3>1. BestIn(result.version, Seen')
      BY <1>3, <1>6, <1>10, <2>3 DEF Accepts, Scanned, BestIn
    <3>2. BestIn(result.version, Seen)'
      BY <1>1, <2>1, <3>1 DEF BestIn, Preferred, IsRelease
    <3>3. storage = "remote" /\ v = result.version
          => result.hash = None \/ result.hash = listing[v]
      BY <1>3, <1>4, <1>10, <2>3 DEF Overrides
    <3>4. RightSoFar'
      <4>1. RightSoFar
        BY <2>3 DEF Scanned
      <4>2. ASSUME result.from = "local", storage = "remote", result.version \notin todo'
            PROVE  listing[result.version] \in {None, rows[result.version]}
        <5>1. result.hash = rows[result.version] /\ result.hash # None
          BY <4>1, <4>2 DEF RightSoFar, Listed
        <5>2. CASE v = result.version
          BY <3>3, <4>2, <5>1, <5>2
        <5>3. CASE v # result.version
          BY <1>1, <4>1, <4>2, <5>3 DEF RightSoFar
        <5> QED
          BY <5>2, <5>3
      <4> QED
        BY <1>1, <2>1, <4>1, <4>2 DEF RightSoFar, Listed
    <3> QED
      BY <1>1, <2>1, <2>3, <3>2, <3>4 DEF Scanned
  <2> QED
    BY <2>2, <2>3
<1> QED
  BY <1>8, <1>9, <1>10

(* After a drop only the rows of the remote count.                          *)
LEMMA RowAfterDrop ==
  ASSUME TypeOK, FromRows, AfterDrop, NEW v \in Version, Row(v)
  PROVE  AfterDrop'
<1> DEFINE p == [version |-> v, hash |-> HashIn(storage, v), from |-> storage]
<1>1. /\ phase = "rows" /\ v \in todo /\ todo' = todo \ {v} /\ storage = "remote"
      /\ UNCHANGED <<kind, overridden, listing, rows, dir, storage, range>>
  BY DEF Row, world, remote, local, request, AfterDrop
<1>2. IF Overrides(p) \/ Accepts(p) THEN result' = p ELSE result' = result
  BY DEF Row
<1>3. p.version = v
  OBVIOUS
<1>4. p # None
  <2>1. p \in Package
    BY ListingTypes DEF Package, TypeOK, HashIn
  <2> QED
    BY <2>1, ContentAssumption
<1> HIDE DEF p
<1>5. v \in Listed(listing)
  BY <1>1 DEF FromRows
<1>6. SeenRemote' = SeenRemote \cup ({v} \cap range)
  BY <1>1, <1>5 DEF SeenRemote, Listed
<1>7. \E w \in range' \cap Listed(rows)' : dir'[w] = Missing /\ BestIn(w, BeforeRemote)'
  <2>1. PICK w \in range \cap Listed(rows) : dir[w] = Missing /\ BestIn(w, BeforeRemote)
    BY DEF AfterDrop
  <2>2. BestIn(w, BeforeRemote)'
    BY <1>1, <2>1 DEF BestIn, BeforeRemote, Preferred, IsRelease, Listed
  <2> QED
    BY <1>1, <2>1, <2>2 DEF Listed
<1>8. result' = None => SeenRemote' = {}
  BY <1>2, <1>3, <1>4, <1>6 DEF AfterDrop, Accepts
<1>9. ASSUME result' # None
      PROVE  result'.version \in range' /\ BestIn(result.version, SeenRemote)'
  <2>1. result'.version \in range /\ BestIn(result'.version, SeenRemote')
    <3>1. CASE ~Overrides(p) /\ Accepts(p)
      <4>1. result'.version = v /\ v \in range
        BY <1>2, <1>3, <3>1 DEF Accepts
      <4>2. CASE result = None
        BY <1>6, <4>1, <4>2 DEF AfterDrop, BestIn
      <4>3. CASE result # None
        <5>1. Preferred(v, result.version)
          BY <1>3, <3>1, <4>3 DEF Accepts
        <5>2. result.version \in range /\ BestIn(result.version, SeenRemote)
          BY <4>3 DEF AfterDrop
        <5>3. SeenRemote \in SUBSET range
          BY DEF SeenRemote
        <5>4. BestIn(v, SeenRemote \cup {v})
          BY <4>1, <5>1, <5>2, <5>3, TakesOver
        <5> QED
          BY <1>6, <4>1, <5>4 DEF BestIn
      <4> QED
        BY <4>2, <4>3
    <3>2. CASE Overrides(p)
      <4>1. result # None /\ result'.version = v /\ result.version = v
        BY <1>2, <1>3, <3>2 DEF Overrides
      <4>2. result.version \in range /\ BestIn(result.version, SeenRemote)
        BY <4>1 DEF AfterDrop
      <4> QED
        BY <1>6, <4>1, <4>2 DEF BestIn
    <3>3. CASE ~Overrides(p) /\ ~Accepts(p)
      <4>1. result' = result /\ result # None
        BY <1>2, <1>9, <3>3
      <4>2. result.version \in range /\ BestIn(result.version, SeenRemote)
        BY <4>1 DEF AfterDrop
      <4>3. v \in range => ~Preferred(v, result.version)
        BY <1>3, <3>3, <4>1 DEF Accepts
      <4> QED
        BY <1>6, <4>1, <4>2, <4>3 DEF BestIn
    <3> QED
      BY <3>1, <3>2, <3>3
  <2> QED
    BY <1>1, <2>1 DEF BestIn, Preferred, IsRelease
<1> QED
  BY <1>1, <1>7, <1>8, <1>9 DEF AfterDrop

LEMMA RowFound ==
  ASSUME TypeOK, FromRows, Searching, NEW v \in Version, Row(v)
  PROVE  Searching' /\ Found'
<1>1. /\ phase = "rows" /\ phase' = "rows" /\ todo' = todo \ {v}
      /\ UNCHANGED <<overridden, storage>>
  BY DEF Row, world, request
<1>2. storage' = "overridden" => todo' \subseteq overridden'
  BY <1>1 DEF Searching
<1>3. took' => result' # None /\ result'.from = storage'
  <2> DEFINE p == [version |-> v, hash |-> HashIn(storage, v), from |-> storage]
  <2>1. (result' = p /\ took' = TRUE) \/ UNCHANGED <<result, took>>
    BY DEF Row
  <2>2. p \in Package /\ p.from = storage
    BY ListingTypes DEF Package, TypeOK, HashIn
  <2> HIDE DEF p
  <2> QED
    BY <1>1, <2>1, <2>2, ContentAssumption DEF Searching
<1>4. Scanned' \/ AfterDrop'
  BY <1>1, RowScanned, RowAfterDrop DEF Searching
<1>5. Searching'
  BY <1>2, <1>3, <1>4 DEF Searching
<1> QED
  BY <1>1, <1>5 DEF Found, ChosenVersion, ChosenContent, NothingFound, Installing

LEMMA NextStorageFound ==
  ASSUME TypeOK, Searching, NextStorage
  PROVE  Searching' /\ Found'
<1>1. /\ phase = "rows" /\ phase' = "rows" /\ todo = {} /\ storage # "remote"
      /\ ~(took /\ ~Dropped /\ kind[result.version] = "branch")
      /\ result' = (IF Dropped THEN None ELSE result) /\ took' = FALSE
      /\ UNCHANGED <<kind, overridden, rows, dir, range, cached>>
  BY DEF NextStorage, world, local, request
<1>2. \/ storage = "overridden" /\ storage' = "local" /\ todo' = Listed(rows)
      \/ storage = "local" /\ storage' = "remote" /\ todo' = Listed(listing')
  BY DEF NextStorage
<1>3. Scanned
  BY <1>1 DEF Searching, AfterDrop
<1>4. CASE Dropped
  <2>1. /\ storage = "local" /\ took /\ dir[result.version] = Missing
        /\ storage' = "remote" /\ todo' = Listed(listing') /\ result' = None
    BY <1>1, <1>2, <1>4 DEF Dropped
  <2>2. result # None /\ result.from = "local"
    BY <1>1, <2>1 DEF Searching
  <2>3. /\ result.version \in range \cap Listed(rows)
        /\ BestIn(result.version, Seen)
    BY <1>3, <2>2 DEF Scanned, RightSoFar
  <2>4. Seen = BeforeRemote
    BY <1>1, <2>1 DEF Seen, BeforeRemote
  <2>5. \E v \in range' \cap Listed(rows)' : dir'[v] = Missing /\ BestIn(v, BeforeRemote)'
    <3>1. PICK v \in range \cap Listed(rows) : v = result.version
      BY <2>3
    <3>2. dir[v] = Missing /\ BestIn(v, BeforeRemote)
      BY <2>1, <2>3, <2>4, <3>1
    <3>3. BestIn(v, BeforeRemote)'
      BY <1>1, <3>2 DEF BestIn, BeforeRemote, Preferred, IsRelease, Listed
    <3> QED
      BY <1>1, <3>2, <3>3 DEF Listed
  <2>6. SeenRemote' = {}
    BY <2>1 DEF SeenRemote, Listed
  <2>7. AfterDrop'
    BY <2>1, <2>5, <2>6 DEF AfterDrop
  <2> QED
    BY <1>1, <2>1, <2>7
    DEF Searching, Found, ChosenVersion, ChosenContent, NothingFound, Installing
<1>5. CASE ~Dropped
  <2>1. result' = result
    BY <1>1, <1>5
  <2>2. Seen' = Seen
    BY <1>1, <1>2 DEF Seen, Listed
  <2>3. ASSUME result # None
        PROVE  RightSoFar' /\ BestIn(result.version, Seen)'
    <3>1. RightSoFar /\ BestIn(result.version, Seen)
      BY <1>3, <2>3 DEF Scanned
    <3>2. kind[result.version] # "branch"
      BY <1>1, <1>5, <3>1 DEF RightSoFar
    <3>3. RightSoFar'
      BY <1>1, <1>2, <2>1, <3>1, <3>2 DEF RightSoFar, Listed
    <3>4. BestIn(result.version, Seen)'
      BY <1>1, <2>1, <2>2, <3>1 DEF BestIn, Preferred, IsRelease
    <3> QED
      BY <3>3, <3>4
  <2>4. Scanned'
    BY <1>1, <1>3, <2>1, <2>2, <2>3 DEF Scanned
  <2> QED
    BY <1>1, <1>2, <2>4
    DEF Searching, Found, ChosenVersion, ChosenContent, NothingFound, Installing
<1> QED
  BY <1>4, <1>5

(* What the search ends with is the best of all there is, or the version    *)
(* that was dropped, from the remote.                                       *)
LEMMA EndSearchFound ==
  ASSUME TypeOK, Searching, EndSearch
  PROVE  Searching' /\ Found'
<1>1. /\ phase = "rows" /\ phase' = IF result = None THEN "unresolved" ELSE "resolved"
      /\ todo = {}
      /\ storage = "remote" \/ (took /\ ~Dropped /\ kind[result.version] = "branch")
      /\ UNCHANGED <<kind, overridden, listing, rows, dir, range, cached, result>>
  BY DEF EndSearch, world, remote, local, search, request
<1>2. Searching'
  BY <1>1 DEF Searching
<1>3. storage = "remote" => Seen = All
  BY <1>1 DEF Seen, All
<1>4. took => result # None /\ result.from = storage
  BY <1>1 DEF Searching
<1>5. ASSUME result # None,
             \A v \in (range \cap Listed(rows)) \ {result.version} : dir[v] # Missing
      PROVE  BestIn(result.version, All)
  <2>1. CASE kind[result.version] = "branch"
    BY <2>1 DEF BestIn
  <2>2. CASE kind[result.version] # "branch" /\ Scanned
    BY <1>1, <1>3, <1>5, <2>2 DEF Scanned
  <2>3. CASE kind[result.version] # "branch" /\ AfterDrop
    <3>1. PICK v \in range \cap Listed(rows) : dir[v] = Missing /\ BestIn(v, BeforeRemote)
      BY <2>3 DEF AfterDrop
    <3>2. v = result.version
      BY <1>5, <3>1
    <3>3. BestIn(result.version, SeenRemote)
      BY <1>5, <2>3 DEF AfterDrop
    <3>4. All = BeforeRemote \cup SeenRemote
      BY <1>1 DEF All, BeforeRemote, SeenRemote
    <3> QED
      BY <3>1, <3>2, <3>3, <3>4 DEF BestIn
  <2> QED
    BY <1>1, <2>1, <2>2, <2>3 DEF Searching
<1>6. ASSUME result # None, Present
      PROVE  LET v == result.version
                 h == IF v \in overridden THEN None
                      ELSE IF kind[v] = "branch" /\ rows[v] # None THEN rows[v]
                      ELSE IF listing[v] # None THEN listing[v] ELSE rows[v]
                 s == IF v \in overridden THEN "overridden"
                      ELSE IF rows[v] = h THEN "local" ELSE "remote"
             IN  result.hash = h /\ result.from = s
  <2>1. ~AfterDrop
    BY <1>6 DEF Present, AfterDrop
  <2>2. RightSoFar
    BY <1>1, <1>6, <2>1 DEF Searching, Scanned
  <2>3. result.from \in {"overridden", "local", "remote"}
    BY <1>6 DEF TypeOK, Package
  <2> QED
    BY <1>1, <1>4, <2>2, <2>3 DEF RightSoFar, Listed
<1>7. ChosenVersion'
  <2>1. phase' \in Installing \cup {"resolved", "handed"} => result # None
    BY <1>1 DEF Installing
  <2>2. ASSUME result # None,
               \A v \in (range \cap Listed(rows)) \ {result.version} : dir[v] # Missing
        PROVE  BestIn(result.version, All)'
    BY <1>1, <1>5, <2>2 DEF BestIn, All, Preferred, IsRelease, Listed
  <2> QED
    BY <1>1, <2>1, <2>2 DEF ChosenVersion, Listed
<1>8. ChosenContent'
  BY <1>1, <1>6 DEF ChosenContent, Present, Listed
<1>9. NothingFound'
  <2> SUFFICES ASSUME result = None, Present PROVE All = {}
    BY <1>1 DEF NothingFound, Present, All, Listed
  <2>1. storage = "remote"
    BY <1>1, <1>4
  <2>2. ~AfterDrop
    BY DEF Present, AfterDrop
  <2> QED
    BY <1>1, <1>3, <2>1, <2>2 DEF Searching, Scanned
<1> QED
  BY <1>2, <1>7, <1>8, <1>9 DEF Found
-----------------------------------------------------------------------------
(* An install keeps what was chosen: the row and the directory it makes are *)
(* those of the result.                                                     *)
LEMMA InstallFound ==
  ASSUME TypeOK, Searching, Found, Install
  PROVE  Searching' /\ Found'
<1> USE DEF world, remote, local, search, request
<1> DEFINE v == result.version
<1>1. /\ phase \in Installing \cup {"resolved"} /\ result # None /\ v \in Version
      /\ phase' \in Installing \cup {"handed", "unresolved"}
      /\ UNCHANGED <<kind, overridden, listing, range, cached, result>>
  BY DEF Install, UseResult, CreateDirectory, CopyArchive, CopyFails, ClearDirectory, Unpack,
         UnpackFails, WriteRow, Installing, TypeOK, Package
<1>2. \A w \in Version \ {v} : dir'[w] = dir[w] /\ rows'[w] = rows[w]
  BY <1>1 DEF Install, UseResult, CreateDirectory, CopyArchive, CopyFails, ClearDirectory,
         Unpack, UnpackFails, WriteRow, TypeOK, Listing
<1>3. Searching' /\ ChosenContent' /\ NothingFound'
  BY <1>1 DEF Searching, ChosenContent, NothingFound, Installing
<1>4. ChosenVersion'
  <2> SUFFICES ASSUME ~cached,
                      \A w \in (range \cap Listed(rows)') \ {v} : dir'[w] # Missing
               PROVE  BestIn(result.version, All)'
    BY <1>1 DEF ChosenVersion
  <2>1. range \subseteq Version
    BY DEF TypeOK, Ranges
  <2>2. \A w \in (range \cap Listed(rows)) \ {v} : dir[w] # Missing
    BY <1>2, <2>1 DEF Listed
  <2>3. BestIn(v, All)
    BY <1>1, <2>2 DEF Found, ChosenVersion
  <2>4. All' \subseteq All \cup {v}
    BY <1>1, <1>2, <2>1 DEF All, Listed
  <2> HIDE DEF v
  <2>5. \A c \in All' : c = v \/ kind[v] = "branch" \/ ~Preferred(c, v)
    BY <2>3, <2>4 DEF BestIn
  <2> QED
    BY <1>1, <2>5 DEF BestIn, Preferred, IsRelease, v
<1> QED
  BY <1>3, <1>4 DEF Found

LEMMA FoundStep ==
  ASSUME TypeOK, FromRows, Searching, Found, [Next]_vars
  PROVE  Searching' /\ Found'
<1>1. CASE Start \/ Die \/ EndRequest
  <2>1. phase' \in {"idle", "off"}
    BY <1>1 DEF Start, Die, EndRequest
  <2> QED
    BY <2>1 DEF Searching, Found, ChosenVersion, ChosenContent, NothingFound, Installing
<1>2. ASSUME NEW v \in Version, Publish(v) PROVE Searching' /\ Found'
  <2>1. UNCHANGED <<world, listing, local, search, request, phase>>
    BY <1>2 DEF Publish
  <2> QED
    BY <2>1 DEF world, local, search, request, Searching, Found, ChosenVersion, ChosenContent,
      NothingFound, Scanned, AfterDrop, RightSoFar, Seen, SeenRemote, BeforeRemote, All, BestIn,
      Preferred, IsRelease, Present, Listed
<1>3. ASSUME NEW v \in Version, RemoveDirectory(v) PROVE Searching' /\ Found'
  <2>1. phase' \in {"idle", "off"}
    BY <1>3 DEF RemoveDirectory
  <2> QED
    BY <2>1 DEF Searching, Found, ChosenVersion, ChosenContent, NothingFound, Installing
<1>4. ASSUME NEW r \in Ranges(kind), Request(r) PROVE Searching' /\ Found'
  BY <1>4, BeginFound DEF Request
<1>5. ASSUME NEW r \in Ranges(kind), CachedRequest(r) PROVE Searching' /\ Found'
  <2>1. CASE BeginSearch(r)
    BY <1>5, <2>1, BeginFound DEF CachedRequest
  <2>2. CASE ~BeginSearch(r)
    <3>1. phase' = "resolved" /\ cached' = TRUE
      BY <1>5, <2>2 DEF CachedRequest
    <3> QED
      BY <3>1 DEF Searching, Found, ChosenVersion, ChosenContent, NothingFound
  <2> QED
    BY <2>1, <2>2
<1>6. ASSUME NEW v \in Version, Row(v) PROVE Searching' /\ Found'
  BY <1>6, RowFound
<1>7. CASE NextStorage
  BY <1>7, NextStorageFound
<1>8. CASE EndSearch
  BY <1>8, EndSearchFound
<1>9. CASE Install
  BY <1>9, InstallFound
<1>10. CASE UNCHANGED vars
  BY <1>10 DEF vars, world, remote, local, search, request, Searching, Found, ChosenVersion,
    ChosenContent, NothingFound, Scanned, AfterDrop, RightSoFar, Seen, SeenRemote, BeforeRemote,
    All, BestIn, Preferred, IsRelease, Present, Listed
<1> QED
  BY <1>1, <1>2, <1>3, <1>4, <1>5, <1>6, <1>7, <1>8, <1>9, <1>10 DEF Next, Resolve

LEMMA FoundIsRight == TypeOK /\ Found => ResultIsRight
<1> SUFFICES ASSUME TypeOK, Found, \A v \in range \cap Listed(rows) : dir[v] # Missing
             PROVE  ResultIsRight
  BY DEF ResultIsRight
<1>1. Candidates \subseteq All /\ Present
  BY DEF Candidates, All, Present
<1>2. BestOfAll
  <2>1. ASSUME Searched PROVE Best(result.version)
    <3>1. BestIn(result.version, All)
      BY <2>1 DEF Searched, Found, ChosenVersion
    <3> QED
      BY <1>1, <3>1 DEF BestIn, Best
  <2>2. NotFound => Candidates = {}
    BY <1>1 DEF NotFound, Found, NothingFound
  <2> QED
    BY <2>1, <2>2 DEF BestOfAll
<1> QED
  BY <1>1, <1>2 DEF ResultIsRight, Found, ChosenContent, Searched

(* For any versions, branches and prereleases among them, any contents and  *)
(* any order of rows, a request is answered with the preferred version,     *)
(* from the right storage and with the right content, unless an installed   *)
(* version of the range lost its directory; whatever was installed, failed  *)
(* or was cut before.                                                       *)
THEOREM AnswersAreRight == Spec => []AnswerIsRight
<1> DEFINE I == IInv /\ TypeOK /\ AllPublished /\ Searching /\ Found
<1>1. Init => I
  BY InitInv, InitTypes, InitFound
<1>2. I /\ [Next]_vars => I'
  BY NextInv, TypesStep, FoundStep DEF IInv
<1>3. I => AnswerIsRight
  BY FoundIsRight DEF AnswerIsRight
<1> QED
  BY <1>1, <1>2, <1>3, PTL DEF Spec
=============================================================================
