------------------------------ MODULE Workspace ------------------------------
(***************************************************************************)
(* The workspace's files, and what reads them while the user, tools and    *)
(* commands change them: RepositoryContextBuilder.build with FileDiscovery *)
(* and the ContextCache, and FileSearchService.search.  Directories and    *)
(* links stay, files come and go, and any directory or file may turn out   *)
(* unreadable when it is its turn.  A job is one call of build or search,  *)
(* and may be called again; a walk is awaited entry by entry.  Its nested  *)
(* loops hold, between them, the paths listed and not yet looked at; those *)
(* of the directory walked now are the longest.                            *)
(***************************************************************************)
EXTENDS Naturals, FiniteSets, Sequences, SequencesExt

CONSTANTS
  Names,       \* what the workspace holds
  Dirs,        \* the directories among them
  Symlinks,    \* the symbolic links among them, all to directories
  Root,        \* the workspace's root, no name
  Outside,     \* where a link leads that leaves the workspace
  Parent,      \* Parent[n]: the directory that holds n
  Target,      \* Target[l]: where link l leads
  Rank,        \* Rank[n]: the place of n in alphabetical order
  Ignored,     \* names the ignore rules match
  Depths,      \* the maxStructureDepth + 3 that builds ask for
  MaxFiles,    \* maxFiles of discovery
  MaxResults,  \* maxResults of the search
  MaxScanned,  \* maxFilesScanned of the search
  Ttl,         \* ttlMs, in ticks
  Jobs,        \* concurrent calls
  MaxChanges   \* bound: changes of files and reads that fail

Files == Names \ (Dirs \cup Symlinks)

ASSUME WorkspaceAssumption ==
  /\ IsFiniteSet(Names) /\ Dirs \cup Symlinks \subseteq Names /\ Dirs \cap Symlinks = {}
  /\ Root \notin Names /\ Outside \notin Names \cup {Root}
  /\ Parent \in [Names -> Dirs \cup {Root}]
  /\ Target \in [Symlinks -> Dirs \cup {Root, Outside}]
  /\ Rank \in [Names -> Nat] /\ IsInjective(Rank)
  /\ Depths \cup {MaxFiles} \subseteq Nat \ {0}    \* three and more, and 3000
  /\ {MaxResults, MaxScanned, Ttl, MaxChanges} \subseteq Nat

VARIABLES
  disk,     \* disk[f]: see States
  changes,  \* bound: changes made, and reads that failed
  cache,    \* the ContextCache's entry for the workspace, or Nothing
  job,      \* the locals of each call
  called     \* what is called: searches share nothing with builds but the disk

wsVars == <<disk, changes, cache, job, called>>

(***************************************************************************)
(* plain, hit: a text file without, with a line that holds the query, one  *)
(* at most.  opaque: a file that holds it but is none the search looks     *)
(* into, for its extension is a binary file's, it is over maxFileSize, or  *)
(* there is a null byte among its first.                                   *)
(***************************************************************************)
States == {"absent", "plain", "hit", "opaque"}

-----------------------------------------------------------------------------
(* Walking directories. *)

\* where an entry leads, which is itself unless it is a link
Leads(n) == IF n \in Symlinks THEN Target[n] ELSE n

\* the directory a path leads to
Directory(path) == IF path = <<>> THEN Root ELSE Leads(Last(path))

\* readdir
Listing(path) ==
  {Append(path, n) : n \in {m \in Names : /\ Parent[m] = Directory(path)
                                          /\ m \in Files => disk[m] # "absent"}}

\* pending: the paths listed and not yet looked at; found: those of the files
\* met, in order; depth: how far the directories are entered; history: the
\* paths that could not be read, and the states of each file since it began
Walk(depth, listed, failed) ==
  [pending |-> listed, found |-> <<>>, depth |-> depth, scanned |-> 0, truncated |-> FALSE,
   unread |-> failed, seen |-> [f \in Files |-> {disk[f]}]]

\* the root is read, or cannot be
Opened(depth) == {Walk(depth, Listing(<<>>), {}), Walk(depth, {}, {<<>>})}

NoWalk == [pending |-> {}, found |-> <<>>, depth |-> 0, scanned |-> 0, truncated |-> FALSE,
           unread |-> {}, seen |-> [f \in Files |-> {}]]

\* the entry is done with; it or what is in it could not be read
Passed(walk, path) == [walk EXCEPT !.pending = @ \ {path}]
Unread(walk, path) == [Passed(walk, path) EXCEPT !.unread = @ \cup {path}]

\* the directory is read, or what it holds is passed over
Entered(walk, path) ==
  {[walk EXCEPT !.pending = (@ \ {path}) \cup Listing(path)], Unread(walk, path)}

\* age: ticks since the end of the discovery, counted to one past Ttl
Nothing == [walk |-> NoWalk, age |-> Ttl + 1]

Idle == [pc |-> "idle", walk |-> NoWalk, age |-> 0, skip |-> FALSE]

WorkspaceInit ==
  /\ disk \in [Files -> {"absent", "hit"}]
  /\ changes = 0
  /\ cache = Nothing
  /\ job = [j \in Jobs |-> Idle]
  /\ called \in {"build", "search"}

\* the walk is cut short
Truncated(walk) == [walk EXCEPT !.truncated = TRUE, !.pending = {}]

\* the directory walked now is the one entered last
Deepest(walk, path) == \A other \in walk.pending : Len(other) <= Len(path)

\* bound: a walk goes on with what was unread before
Reads(unread, walk) ==
  /\ walk.unread # unread => changes < MaxChanges
  /\ changes' = IF walk.unread # unread THEN changes + 1 ELSE changes

Continue(j, walk) ==
  /\ job' = [job EXCEPT ![j] = [@ EXCEPT !.walk = walk]]
  /\ Reads(job[j].walk.unread, walk)

-----------------------------------------------------------------------------
(* FileDiscovery.discover, in alphabetical order. *)

IsDir(n) == n \in Dirs \/ (n \in Symlinks /\ Target[n] # Outside)

IsFirst(walk, path) ==
  \A other \in walk.pending :
    Len(other) = Len(path) => Rank[Last(path)] <= Rank[Last(other)]

\* the walks there may be after a look at an entry; directories at the depth are
\* not entered, and links that lead out not at all
Discover(walk, path) ==
  LET entered == /\ IsDir(Last(path)) /\ Last(path) \notin Ignored
                 /\ Len(path) < walk.depth
      met     == Last(path) \in Files \ Ignored
  IN CASE Len(walk.found) >= MaxFiles -> {Truncated(walk)}
       [] Len(walk.found) < MaxFiles /\ entered -> Entered(walk, path)
       [] Len(walk.found) < MaxFiles /\ met ->
            {[Passed(walk, path) EXCEPT !.found = Append(@, path)]}
       [] OTHER -> {Passed(walk, path)}

DiscoverEntry(j) ==
  /\ job[j].pc = "discovering"
  /\ \E path \in job[j].walk.pending :
       /\ Deepest(job[j].walk, path) /\ IsFirst(job[j].walk, path)
       /\ \E walk \in Discover(job[j].walk, path) : Continue(j, walk)
  /\ UNCHANGED <<disk, cache, called>>

-----------------------------------------------------------------------------
(* ContextCache and RepositoryContextBuilder.build. *)

\* Mutation: an entry is used for as long as there is one.
MutHit == cache # Nothing

\* get, which keeps an entry whose age is the Ttl
Hit == cache.age <= Ttl

\* build up to its first await; a stale entry is deleted on a miss, and a hit is
\* used whatever depth it was made for
Build(j) ==
  /\ called = "build"
  /\ job[j].pc \in {"idle", "returned"}
  /\ \E skip \in BOOLEAN :
       \/ /\ ~skip /\ Hit
          /\ job' = [job EXCEPT ![j] = [Idle EXCEPT !.pc = "building", !.walk = cache.walk,
                                                    !.age = cache.age]]
          /\ UNCHANGED <<changes, cache>>
       \/ /\ skip \/ ~Hit
          /\ \E depth \in Depths : \E walk \in Opened(depth) :
               /\ job' = [job EXCEPT ![j] = [Idle EXCEPT !.pc = "discovering", !.skip = skip,
                                                         !.walk = walk]]
               /\ Reads({}, walk)
          /\ cache' = IF skip THEN cache ELSE Nothing
  /\ UNCHANGED <<disk, called>>

\* the discovery returns, and is cached as it is now
Discovered(j) ==
  /\ job[j].pc = "discovering" /\ job[j].walk.pending = {}
  /\ job' = [job EXCEPT ![j] = [@ EXCEPT !.pc = "building"]]
  /\ cache' = IF job[j].skip THEN cache ELSE [walk |-> job[j].walk, age |-> 0]
  /\ UNCHANGED <<disk, changes, called>>

\* what is offered is taken from the discovery
BuildEnds(j) ==
  /\ job[j].pc = "building"
  /\ job' = [job EXCEPT ![j] = [@ EXCEPT !.pc = "returned"]]
  /\ UNCHANGED <<disk, changes, cache, called>>

\* invalidate and clear, for one workspace the same
Invalidate ==
  /\ cache # Nothing
  /\ cache' = Nothing
  /\ UNCHANGED <<disk, changes, job, called>>

-----------------------------------------------------------------------------
(* FileSearchService.search, in the order the system lists a directory.    *)
(* Links are neither files nor directories to it, and of the ignore rules  *)
(* it knows the directories.                                               *)

\* a search keeps nothing, so that one at a time stands for all of them
Search(j) ==
  /\ called = "search"
  /\ job[j].pc \in {"idle", "searched"} /\ \A k \in Jobs \ {j} : job[k].pc = "idle"
  /\ \E walk \in Opened(0) :
       /\ job' = [job EXCEPT ![j] = [Idle EXCEPT !.pc = "searching", !.walk = walk]]
       /\ Reads({}, walk)
  /\ UNCHANGED <<disk, cache, called>>

\* Mutation: the limit on the files ends the search without a word.
MutScan(walk, path) ==
  LET counted == [Passed(walk, path) EXCEPT !.scanned = @ + 1]
      matched == [counted EXCEPT !.found = Append(@, path)]
  IN IF counted.scanned > MaxScanned THEN {[counted EXCEPT !.pending = {}]}
     ELSE {IF disk[Last(path)] = "hit" THEN matched ELSE counted}

\* a file is counted, opened unless one too many or not to be looked into, which
\* may fail, and its lines are looked at
Scan(walk, path) ==
  LET counted == [Passed(walk, path) EXCEPT !.scanned = @ + 1]
      matched == [counted EXCEPT !.found = Append(@, path)]
      within  == counted.scanned <= MaxScanned
  IN CASE ~within -> {Truncated(counted)}
       [] within /\ disk[Last(path)] = "opaque" -> {counted}
       [] within /\ disk[Last(path)] = "hit" ->
            {IF Len(matched.found) >= MaxResults THEN Truncated(matched) ELSE matched,
             Unread(counted, path)}
       [] OTHER -> {counted}

Look(walk, path) ==
  CASE Last(path) \in Dirs \ Ignored -> Entered(walk, path)
    [] Last(path) \in Files -> Scan(walk, path)
    [] OTHER -> {Passed(walk, path)}

SearchEntry(j) ==
  /\ job[j].pc = "searching"
  /\ \E path \in job[j].walk.pending :
       /\ Deepest(job[j].walk, path)
       /\ \E walk \in Look(job[j].walk, path) : Continue(j, walk)
  /\ UNCHANGED <<disk, cache, called>>

SearchEnds(j) ==
  /\ job[j].pc = "searching" /\ job[j].walk.pending = {}
  /\ job' = [job EXCEPT ![j] = [@ EXCEPT !.pc = "searched"]]
  /\ UNCHANGED <<disk, changes, cache, called>>

-----------------------------------------------------------------------------
(* The world. *)

Saw(walk, f, state) == [walk EXCEPT !.seen = [walk.seen EXCEPT ![f] = @ \cup {state}]]

\* what tells files apart: to a build all that are there are the same
Kinds == IF called = "build" THEN {"absent", "hit"} ELSE States

\* a file is written, created or deleted
Touch(f) ==
  /\ changes < MaxChanges
  /\ \E state \in Kinds \ {disk[f]} :
       /\ disk' = [disk EXCEPT ![f] = state]
       /\ job' = [j \in Jobs |->
            IF job[j].pc \in {"discovering", "searching"}
              THEN [job[j] EXCEPT !.walk = Saw(@, f, state)] ELSE job[j]]
  /\ changes' = changes + 1
  /\ UNCHANGED <<cache, called>>

Tick ==
  /\ cache.age <= Ttl
  /\ cache' = [cache EXCEPT !.age = @ + 1]
  /\ UNCHANGED <<disk, changes, job, called>>

WorkspaceNext ==
  \/ \E j \in Jobs :
       \/ Build(j) \/ DiscoverEntry(j) \/ Discovered(j) \/ BuildEnds(j)
       \/ Search(j) \/ SearchEntry(j) \/ SearchEnds(j)
  \/ Invalidate \/ Tick \/ \E f \in Files : Touch(f)

WorkspaceSpec == WorkspaceInit /\ [][WorkspaceNext]_wsVars

-----------------------------------------------------------------------------
\* the paths to files through n directories and links of inner at most
FilePaths(files, inner, n) ==
  {p \in {Append(s, f) : s \in SeqOf(inner, n), f \in files} :
    Parent[p[1]] = Root /\ \A k \in 1 .. Len(p) - 1 : Parent[p[k + 1]] = Leads(p[k])}

\* those that a discovery of each depth without limit on files would meet
DiscoverablePaths ==
  [depth \in Depths |->
     FilePaths(Files \ Ignored, {n \in (Dirs \cup Symlinks) \ Ignored : IsDir(n)}, depth - 1)]

\* those that a search without limits would; no directory is in itself
SearchablePaths == FilePaths(Files, Dirs \ Ignored, Cardinality(Dirs))

\* q is p, or p goes on from there
Above(q, p) == Len(q) <= Len(p) /\ \A k \in 1 .. Len(q) : q[k] = p[k]

\* p, or a directory on the way to it, could not be read
Hidden(walk, p) == \E q \in walk.unread : Above(q, p)

(***************************************************************************)
(* A snapshot is of its time, whichever call made the discovery it uses    *)
(* and whatever changed meanwhile: the discovery ended at most Ttl before  *)
(* the build asked for it, it has no file that was not there at any moment *)
(* of it, and, unless cut short, every file that was there throughout and  *)
(* not below a directory that could not be read, down to its own depth and *)
(* by every path, for links may lead in circles.                           *)
(***************************************************************************)
SnapshotIsOfItsTime ==
  \A j \in Jobs : job[j].pc = "returned" =>
    LET w == job[j].walk
    IN /\ job[j].age <= Ttl /\ (job[j].skip => job[j].age = 0)
       /\ IsInjective(w.found) /\ Len(w.found) <= MaxFiles
       /\ \A i \in DOMAIN w.found : w.seen[Last(w.found[i])] # {"absent"}
       /\ w.truncated \/ \A p \in DiscoverablePaths[w.depth] :
            "absent" \notin w.seen[Last(p)] => p \in Range(w.found) \/ Hidden(w, p)

(***************************************************************************)
(* What a search reports was in the files at some time of the search, each *)
(* file once and no more than asked for, but one if none is; nothing of a  *)
(* file that was binary or too large all the time; and a search that does  *)
(* not say it was cut short has reported every file outside the ignored    *)
(* directories that matched all the time, unless it or a directory above   *)
(* it could not be read.                                                   *)
(***************************************************************************)
SearchIsHonest ==
  \A j \in Jobs : job[j].pc = "searched" =>
    LET w == job[j].walk
    IN /\ IsInjective(w.found) /\ (Len(w.found) <= MaxResults \/ Len(w.found) = 1)
       /\ \A i \in DOMAIN w.found : "hit" \in w.seen[Last(w.found[i])]
       /\ w.truncated \/ \A p \in SearchablePaths :
            w.seen[Last(p)] = {"hit"} => p \in Range(w.found) \/ Hidden(w, p)
=============================================================================
