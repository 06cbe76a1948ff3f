--------------------------- MODULE PackageStorage ---------------------------
(***************************************************************************)
(* How a package is resolved and installed: Resolver::resolve over the     *)
(* overridden, the local and a remote storage with the cache in front      *)
(* (src/sw/support/resolver.cpp, src/sw/manager/storage.cpp, database.cpp),*)
(* LocalStorage::install, and copyArchive of the remote storage            *)
(* (storage_remote.cpp), by a process that may die at any point and start  *)
(* again, while the server publishes packages anew.                        *)
(*                                                                         *)
(* One package path, requests for its source (no settings). A content is   *)
(* named by its hash.                                                      *)
(***************************************************************************)
EXTENDS Integers, FiniteSets

CONSTANTS
  Version,   \* in the order of PackageVersion::operator<
  Hash,
  May,       \* contents each version may ever be published with
  Worlds,    \* what the versions are, and which the overridden storage has
  ByCache,   \* requests that are made through the cache
  None       \* no row, no package, no hash

ASSUME VersionsAssumption ==
  /\ Version \subseteq Int /\ IsFiniteSet(Version)
  /\ May \in [Version -> SUBSET Hash]
  /\ None \notin Hash
  /\ Worlds \subseteq [Version -> {"release", "prerelease", "branch"}] \X SUBSET Version
  /\ ByCache \subseteq SUBSET Version

VARIABLES
  kind, overridden,  \* what the versions are; versions in the overridden storage
  served,            \* the server: hash of the archive it has now
  listing, filed,    \* the remote's database: as the process sees it, and in its file
  rows, dir,         \* the local storage: hash in its database, content of the directory
  phase,             \* what the process does
  range, cached,     \* the request, and whether it goes through the cache
  storage, todo, took, result,  \* resolve(): the storage, its rows to come, its verdict
  cache,             \* results of the process by request
  spoiled            \* versions installed before, whose directory was lost or cut

world == <<kind, overridden>>
remote == <<served, listing, filed>>
local == <<rows, dir, spoiled>>
search == <<storage, todo, took, result>>
request == <<range, cached>>
vars == <<world, remote, local, search, request, phase, cache>>

Package == [version : Version, hash : Hash \cup {None}, from : {"overridden", "local", "remote"}]
Listing == {l \in [Version -> Hash \cup {None}] : \A v \in Version : l[v] \in May[v] \cup {None}}
Missing == "missing"    \* of directories
Cut == "cut"            \* empty, or a part of a package
ASSUME ContentAssumption ==
  {Missing, Cut} \cap (Hash \cup {None}) = {} /\ None \notin Package

Listed(l) == {v \in Version : l[v] # None}

(* PackageVersionRange::contains: a branch is found by its name only. *)
Ranges(k) == {r \in SUBSET Version : r # {} /\
               ((\A v \in r : k[v] # "branch") \/ Cardinality(r) = 1)}

TypeOK ==
  /\ <<kind, overridden>> \in Worlds
  /\ served \in Listing /\ listing \in Listing /\ filed \in Listing
  /\ rows \in Listing
  /\ dir \in [Version -> Hash \cup {Missing, Cut}]
  /\ phase \in {"off", "idle", "rows", "resolved", "unresolved", "copy", "clear", "unpack",
                "row", "handed"}
  /\ range \in Ranges(kind) \cup {{}} /\ cached \in BOOLEAN
  /\ storage \in {"overridden", "local", "remote"}
  /\ todo \subseteq Version /\ took \in BOOLEAN
  /\ result \in Package \cup {None}
  /\ cache \in [ByCache -> Package \cup {None}]
  /\ spoiled \subseteq Version
  /\ phase \in {"resolved", "handed"} => result # None
  /\ phase \in {"copy", "clear", "unpack", "row"} => result # None /\ result.from = "remote"

Init ==
  /\ \E w \in Worlds : kind = w[1] /\ overridden = w[2]
  /\ served \in Listing /\ listing = served /\ filed = served
  /\ rows = [v \in Version |-> None] /\ dir = [v \in Version |-> Missing]
  /\ phase = "off" /\ range = {} /\ cached = FALSE
  /\ storage = "overridden" /\ todo = {} /\ took = FALSE /\ result = None
  /\ cache = [r \in ByCache |-> None]
  /\ spoiled = {}
-----------------------------------------------------------------------------
(* The server, and the user between two requests. *)

Publish(v) ==
  /\ \E h \in (May[v] \cup {None}) \ {served[v]} : served' = [served EXCEPT ![v] = h]
  /\ UNCHANGED <<world, listing, filed, local, search, request, phase, cache>>

RemoveDirectory(v) ==
  /\ phase \in {"off", "idle"} /\ dir[v] # Missing
  /\ dir' = [dir EXCEPT ![v] = Missing]
  /\ spoiled' = IF rows[v] # None THEN spoiled \cup {v} ELSE spoiled
  /\ UNCHANGED <<world, remote, rows, search, request, phase, cache>>
-----------------------------------------------------------------------------
(* The process. The constructor of the remote storage updates the file of   *)
(* its database, if it is due, before it opens a copy of it in memory;      *)
(* later updates reach the copy only.                                       *)

Start ==
  /\ phase = "off" /\ phase' = "idle"
  /\ filed' \in {filed, served} /\ listing' = filed'
  /\ UNCHANGED <<world, served, local, search, request, cache>>

ForgetRequest ==
  /\ range' = {} /\ cached' = FALSE
  /\ storage' = "overridden" /\ todo' = {} /\ took' = FALSE /\ result' = None

(* Death anywhere; in an install after the directory was cleared, what is   *)
(* left of a package that was installed before is spoiled.                  *)
Die ==
  /\ phase # "off" /\ phase' = "off"
  /\ spoiled' = IF phase \in {"unpack", "row"} /\ rows[result.version] # None
                THEN spoiled \cup {result.version} ELSE spoiled
  /\ ForgetRequest /\ cache' = [r \in ByCache |-> None]
  /\ UNCHANGED <<world, remote, rows, dir>>
-----------------------------------------------------------------------------
(* resolve(), through the cache or not. *)

HashIn(s, v) ==
  CASE s = "overridden" -> None
    [] s = "local"      -> rows[v]
    [] s = "remote"     -> listing[v]

BeginSearch(r) ==
  /\ range' = r /\ storage' = "overridden" /\ todo' = overridden
  /\ took' = FALSE /\ result' = None /\ phase' = "rows"

Request(r) ==
  /\ phase = "idle" /\ cached' = FALSE /\ BeginSearch(r)
  /\ UNCHANGED <<world, remote, local, cache>>

CachedRequest(r) ==
  /\ phase = "idle" /\ cached' = TRUE
  /\ \/ cache[r] = None /\ BeginSearch(r)
     \/ /\ cache[r] # None
        /\ range' = r /\ result' = cache[r] /\ phase' = "resolved"
        /\ UNCHANGED <<storage, todo, took>>
  /\ UNCHANGED <<world, remote, local, cache>>

IsRelease(v) == kind[v] = "release"

(* ResolveRequestResult::setPackage *)
Preferred(new, old) ==
  /\ kind[new] # "branch"
  /\ IsRelease(old) => IsRelease(new)
  /\ (IsRelease(new) /\ ~IsRelease(old)) \/ old < new

Accepts(p) == p.version \in range /\ (result = None \/ Preferred(p.version, result.version))

Overrides_Overridden(p) ==
  storage = "remote" /\ result # None /\ p.version = result.version /\ p.hash # result.hash

(* A remote storage replaces a package that others found when its content   *)
(* changed, but not an overridden one.                                      *)
Overrides(p) ==
  /\ storage = "remote" /\ result # None
  /\ p.version = result.version /\ result.hash # None /\ p.hash # result.hash

(* One row of PackagesDatabase::resolve; rows come in any order. *)
Row(v) ==
  /\ phase = "rows" /\ v \in todo
  /\ todo' = todo \ {v}
  /\ LET p == [version |-> v, hash |-> HashIn(storage, v), from |-> storage]
     IN  IF Overrides(p) \/ Accepts(p)
         THEN result' = p /\ took' = TRUE
         ELSE UNCHANGED <<result, took>>
  /\ UNCHANGED <<world, remote, local, storage, request, phase, cache>>

(* LocalStorage::resolve drops the verdict if its directory is missing. *)
Dropped == storage = "local" /\ took /\ dir[result.version] = Missing

(* Resolver::resolve goes on to the next storage, unless a branch was found. *)
NextStorage ==
  /\ phase = "rows" /\ todo = {} /\ storage # "remote"
  /\ ~(took /\ ~Dropped /\ kind[result.version] = "branch")
  /\ result' = IF Dropped THEN None ELSE result
  /\ took' = FALSE
  /\ \/ /\ storage = "overridden" /\ storage' = "local" /\ todo' = Listed(rows)
        /\ UNCHANGED listing
     \/ \* updateDb() when it is due: what is loaded stays in memory
        /\ storage = "local" /\ storage' = "remote" /\ listing' \in {listing, served}
        /\ todo' = Listed(listing')
  /\ UNCHANGED <<world, served, filed, local, request, phase, cache>>

EndSearch ==
  /\ phase = "rows" /\ todo = {}
  /\ storage = "remote" \/ (took /\ ~Dropped /\ kind[result.version] = "branch")
  /\ phase' = IF result = None THEN "unresolved" ELSE "resolved"
  /\ cache' = IF cached /\ result # None THEN [cache EXCEPT ![range] = result] ELSE cache
  /\ UNCHANGED <<world, remote, local, search, request>>
-----------------------------------------------------------------------------
(* LocalStorage::install of the result. *)

Installed_AnyContent == rows[result.version] # None /\ dir[result.version] # Missing

Installed == rows[result.version] = result.hash /\ dir[result.version] # Missing

(* Packages of the overridden and the local storage are used as they are. *)
UseResult ==
  /\ phase = "resolved"
  /\ result.from # "remote" \/ Installed
  /\ phase' = "handed"
  /\ UNCHANGED <<world, remote, local, search, request, cache>>

CreateDirectory ==
  /\ phase = "resolved" /\ result.from = "remote" /\ ~Installed
  /\ dir' = [dir EXCEPT ![result.version] = IF @ = Missing THEN Cut ELSE @]
  /\ phase' = "copy"
  /\ UNCHANGED <<world, remote, rows, spoiled, search, request, cache>>

(* copyArchive takes an archive whose hash is the listed one. *)
CopyArchive ==
  /\ phase = "copy" /\ served[result.version] = result.hash
  /\ phase' = "clear"
  /\ UNCHANGED <<world, remote, local, search, request, cache>>

(* No network, or another content: it throws. *)
CopyFails ==
  /\ phase = "copy" /\ phase' = "unresolved"
  /\ UNCHANGED <<world, remote, local, search, request, cache>>

ClearDirectory ==
  /\ phase = "clear" /\ phase' = "unpack"
  /\ dir' = [dir EXCEPT ![result.version] = Cut]
  /\ UNCHANGED <<world, remote, rows, spoiled, search, request, cache>>

Unpack ==
  /\ phase = "unpack" /\ phase' = "row"
  /\ dir' = [dir EXCEPT ![result.version] = result.hash]
  /\ UNCHANGED <<world, remote, rows, spoiled, search, request, cache>>

UnpackFails_Ignored ==
  /\ phase = "unpack" /\ phase' = "row"
  /\ UNCHANGED <<world, remote, local, search, request, cache>>

UnpackFails ==
  /\ phase = "unpack" /\ phase' = "unresolved"
  /\ spoiled' = IF rows[result.version] # None THEN spoiled \cup {result.version} ELSE spoiled
  /\ UNCHANGED <<world, remote, rows, dir, search, request, cache>>

(* installPackage: one transaction. *)
WriteRow ==
  /\ phase = "row" /\ phase' = "handed"
  /\ rows' = [rows EXCEPT ![result.version] = result.hash]
  /\ spoiled' = spoiled \ {result.version}
  /\ UNCHANGED <<world, remote, dir, search, request, cache>>

EndRequest ==
  /\ phase \in {"handed", "unresolved"} /\ phase' = "idle"
  /\ ForgetRequest
  /\ UNCHANGED <<world, remote, local, cache>>
-----------------------------------------------------------------------------
Resolve ==
  \/ \E r \in Ranges(kind) : Request(r) \/ (r \in ByCache /\ CachedRequest(r))
  \/ \E v \in Version : Row(v)
  \/ NextStorage \/ EndSearch

Install == UseResult \/ CreateDirectory \/ CopyArchive \/ CopyFails \/ ClearDirectory
           \/ Unpack \/ UnpackFails \/ WriteRow

Next ==
  \/ Start \/ Die \/ Resolve \/ Install \/ EndRequest
  \/ \E v \in Version : Publish(v) \/ RemoveDirectory(v)

Spec == Init /\ [][Next]_vars
-----------------------------------------------------------------------------
Candidates ==
  range \cap (overridden \cup Listed(listing) \cup {v \in Listed(rows) : dir[v] # Missing})

Best(v) == \A c \in Candidates : c = v \/ kind[v] = "branch" \/ ~Preferred(c, v)

Searched == ~cached /\ phase \in {"resolved", "handed"}
NotFound == phase = "unresolved" /\ result = None

(* "select the best candidate from all storages": a request that one of     *)
(* them can answer is answered, with the preferred version.                 *)
BestOfAll == (Searched => Best(result.version)) /\ (NotFound => Candidates = {})

(* As long as no installed version of the range has lost its directory, the *)
(* result is the preferred version whatever the order of rows, overridden   *)
(* packages come before all others, and the local content is used unless    *)
(* the remote lists another one.                                            *)
ResultIsRight ==
  (\A v \in range \cap Listed(rows) : dir[v] # Missing) =>
    /\ BestOfAll
    /\ Searched /\ phase = "resolved" =>
         LET v == result.version
             h == IF v \in overridden THEN None
                  ELSE IF kind[v] = "branch" /\ rows[v] # None THEN rows[v]
                  ELSE IF listing[v] # None THEN listing[v] ELSE rows[v]
             s == IF v \in overridden THEN "overridden"
                  ELSE IF rows[v] = h THEN "local" ELSE "remote"
         IN  result.hash = h /\ result.from = s

(* A request is answered from the right storage, with the right version and  *)
(* the right content.                                                       *)
AnswerIsRight == TypeOK /\ ResultIsRight

(* An installed version has a complete directory with the content its row   *)
(* names, across deaths and failures, unless the user removed it, or it was *)
(* installed before and its re-installation was cut after the clearing.     *)
RowsAreComplete ==
  \A v \in Listed(rows) \ spoiled :
    dir[v] = rows[v] \/ (phase \in {"unpack", "row"} /\ result.version = v)

(* What a request is given is the content that was resolved. (The cache may *)
(* remember a local package whose version was installed anew since.)        *)
HandedIsResolved ==
  phase = "handed" /\ ~cached /\ result.from # "overridden" /\ result.version \notin spoiled =>
    dir[result.version] = result.hash
==============================================================================
