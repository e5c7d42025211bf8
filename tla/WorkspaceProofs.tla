-------------------------- MODULE WorkspaceProofs --------------------------
(***************************************************************************)
(* What the builds and the searches of a workspace say of it, for every    *)
(* workspace, every limit and any number of calls.  A walk is a list of    *)
(* places to look at that is worked off, and three facts carry both        *)
(* properties: no place listed lies under another or under one found       *)
(* before, so that no path is met twice; every state a file has is in the  *)
(* history of the walk; and a path that is owed has been found, or a place *)
(* on the way to it is still listed.                                       *)
(***************************************************************************)
EXTENDS Workspace, FiniteSetTheorems, TLAPS

-----------------------------------------------------------------------------
(* The types. *)

Paths == Seq(Names) \ {<<>>}

Walks == [pending : SUBSET Paths, found : Seq(Paths), depth : Nat, scanned : Nat,
          truncated : BOOLEAN, unread : SUBSET Seq(Names), seen : [Files -> SUBSET States]]

Entries == [walk : Walks, age : Nat]

Phases == {"idle", "discovering", "building", "returned", "searching", "searched"}

Calls == [pc : Phases, walk : Walks, age : Nat, skip : BOOLEAN]

TypeOK ==
  /\ disk \in [Files -> States]
  /\ cache \in Entries
  /\ job \in [Jobs -> Calls]

-----------------------------------------------------------------------------
(* What holds of a walk. *)

\* no place listed is met again from another, and none was met before
Apart(w) ==
  /\ \A p, q \in w.pending : Above(p, q) => p = q
  /\ \A p \in w.pending : \A i \in DOMAIN w.found : ~Above(p, w.found[i])
  /\ IsInjective(w.found)

\* path p has been found, is hidden, or a place on the way to it is still listed
Reached(w, p) ==
  p \in Range(w.found) \/ Hidden(w, p) \/ \E q \in w.pending : Above(q, p)

\* the file was there at some moment of the walk
Existed(w, f) == \E state \in w.seen[f] : state # "absent"

\* the states the files have now are in the walk's history
Current(w, d) == \A f \in Files : d[f] \in w.seen[f]

Discovery(w) ==
  /\ w.depth \in Depths /\ Apart(w) /\ Len(w.found) <= MaxFiles
  /\ \A p \in w.pending : Last(p) \in Files => Existed(w, Last(p))
  /\ \A i \in DOMAIN w.found : Last(w.found[i]) \in Files /\ Existed(w, Last(w.found[i]))
  /\ w.truncated \/ \A p \in DiscoverablePaths[w.depth] :
       "absent" \notin w.seen[Last(p)] => Reached(w, p)

Sought(w) ==
  /\ Apart(w)
  /\ Len(w.found) <= MaxResults \/ Len(w.found) = 1
  /\ w.pending = {} \/ Len(w.found) < MaxResults \/ Len(w.found) = 0
  /\ \A i \in DOMAIN w.found : Last(w.found[i]) \in Files /\ "hit" \in w.seen[Last(w.found[i])]
  /\ w.truncated \/ \A p \in SearchablePaths :
       w.seen[Last(p)] = {"hit"} => Reached(w, p)

(***************************************************************************)
(* The inductive invariant.  A call that has its discovery holds a         *)
(* finished one, its own or the cache's; only walks that go on have to     *)
(* know the present.                                                       *)
(***************************************************************************)
Walking(x, d) == x.pc \in {"discovering", "searching"} => Current(x.walk, d)

Discovering(x) == x.pc = "discovering" => Discovery(x.walk) /\ x.age = 0

Building(x) ==
  x.pc \in {"building", "returned"} =>
    /\ Discovery(x.walk) /\ x.walk.pending = {}
    /\ x.age <= Ttl /\ (x.skip => x.age = 0)

Searching(x) ==
  /\ x.pc = "searching" => Sought(x.walk)
  /\ x.pc = "searched" => Sought(x.walk) /\ x.walk.pending = {}

CallOK(x, d) == Walking(x, d) /\ Discovering(x) /\ Building(x) /\ Searching(x)

CacheOK == cache.age <= Ttl => Discovery(cache.walk) /\ cache.walk.pending = {}

WInv == TypeOK /\ CacheOK /\ \A j \in Jobs : CallOK(job[j], disk)

-----------------------------------------------------------------------------
(* Paths, and which lie above which. *)

\* A path lies above itself.
LEMMA AboveItself == \A p \in Paths : Above(p, p)
  BY DEF Above, Paths

\* A path with a name after it is a path, and ends in that name.
LEMMA PathGoesOn ==
  ASSUME NEW q \in Paths, NEW n \in Names
  PROVE  /\ Append(q, n) \in Paths
         /\ Len(Append(q, n)) = Len(q) + 1
         /\ Append(q, n)[Len(q) + 1] = n
         /\ \A k \in 1 .. Len(q) : Append(q, n)[k] = q[k]
         /\ Last(Append(q, n)) = n
  BY DEF Paths, Last

\* What lies under q and a name lies under q.
LEMMA AboveUnder ==
  ASSUME NEW q \in Paths, NEW n \in Names, NEW r \in Paths, Above(Append(q, n), r)
  PROVE  Above(q, r)
  <1>1. Len(q) \in Nat /\ Len(r) \in Nat
    BY DEF Paths
  <1> QED BY <1>1, PathGoesOn DEF Above

\* What lies above q and a name is that, or lies above q.
LEMMA AboveOver ==
  ASSUME NEW q \in Paths, NEW n \in Names, NEW r \in Paths, Above(r, Append(q, n))
  PROVE  Above(r, q) \/ r = Append(q, n)
  <1> DEFINE c == Append(q, n)
  <1>1. /\ c \in Seq(Names) /\ Len(c) = Len(q) + 1
        /\ \A k \in 1 .. Len(q) : c[k] = q[k]
    BY PathGoesOn DEF Paths
  <1>2. Len(q) \in Nat /\ Len(r) \in Nat /\ r \in Seq(Names)
    BY DEF Paths
  <1>3. Above(r, c)
    OBVIOUS
  <1> HIDE DEF c
  <1>4. CASE Len(r) <= Len(q)
    BY <1>1, <1>2, <1>3, <1>4 DEF Above
  <1>5. CASE Len(r) > Len(q)
    <2>1. Len(r) = Len(c)
      BY <1>1, <1>2, <1>3, <1>5 DEF Above
    <2>2. \A k \in 1 .. Len(r) : r[k] = c[k]
      BY <1>3 DEF Above
    <2> QED BY <1>1, <1>2, <2>1, <2>2 DEF c
  <1> QED BY <1>2, <1>4, <1>5

\* A path above one of its length is that path.
LEMMA AboveEqual ==
  ASSUME NEW p \in Paths, NEW q \in Paths, Above(p, q), Len(p) = Len(q)
  PROVE  p = q
  <1>1. p \in Seq(Names) /\ q \in Seq(Names)
    BY DEF Paths
  <1>2. \A k \in 1 .. Len(p) : p[k] = q[k]
    BY DEF Above
  <1> QED BY <1>1, <1>2

-----------------------------------------------------------------------------
(* Places stay apart, whatever is done with the one looked at. *)

\* Places are dropped.
LEMMA ApartDropped ==
  ASSUME NEW w, NEW v, Apart(w), v.pending \subseteq w.pending, v.found = w.found
  PROVE  Apart(v)
  BY DEF Apart

\* A directory is replaced by what it holds.
LEMMA ApartEntered ==
  ASSUME NEW w \in Walks, NEW v, NEW q \in w.pending, NEW listing,
         Apart(w), v.found = w.found, v.pending = (w.pending \ {q}) \cup listing,
         \A r \in listing : \E n \in Names : r = Append(q, n)
  PROVE  Apart(v)
  <1>1. w.pending \subseteq Paths /\ q \in Paths /\ w.found \in Seq(Paths)
    BY DEF Walks
  <1>2. ASSUME NEW p \in v.pending, NEW r \in v.pending, Above(p, r)
        PROVE  p = r
    <2>1. CASE p \notin listing /\ r \notin listing
      BY <1>2, <2>1 DEF Apart
    <2>2. CASE p \notin listing /\ r \in listing
      <3>1. p \in w.pending /\ p # q
        BY <2>2
      <3>2. PICK n \in Names : r = Append(q, n)
        BY <2>2
      <3>3. Above(p, q) \/ p = r
        BY <1>1, <1>2, <3>1, <3>2, AboveOver
      <3> QED BY <3>1, <3>3 DEF Apart
    <2>3. CASE p \in listing /\ r \notin listing
      <3>1. r \in w.pending /\ r # q
        BY <2>3
      <3>2. PICK n \in Names : p = Append(q, n)
        BY <2>3
      <3>3. Above(q, r)
        BY <1>1, <1>2, <3>1, <3>2, AboveUnder
      <3> QED BY <3>1, <3>3 DEF Apart
    <2>4. CASE p \in listing /\ r \in listing
      <3>1. PICK n \in Names, m \in Names : p = Append(q, n) /\ r = Append(q, m)
        BY <2>4
      <3>2. p \in Paths /\ r \in Paths /\ Len(p) = Len(r)
        BY <1>1, <3>1, PathGoesOn
      <3> QED BY <1>2, <3>2, AboveEqual
    <2> QED BY <2>1, <2>2, <2>3, <2>4
  <1>3. ASSUME NEW p \in v.pending, NEW i \in DOMAIN v.found, Above(p, v.found[i])
        PROVE  FALSE
    <2>1. i \in DOMAIN w.found /\ w.found[i] = v.found[i] /\ w.found[i] \in Paths
      BY <1>1
    <2>2. CASE p \in listing
      <3>1. PICK n \in Names : p = Append(q, n)
        BY <2>2
      <3>2. Above(q, w.found[i])
        BY <1>1, <1>3, <2>1, <3>1, AboveUnder
      <3> QED BY <2>1, <3>2 DEF Apart
    <2>3. CASE p \notin listing
      BY <1>3, <2>1, <2>3 DEF Apart
    <2> QED BY <2>2, <2>3
  <1>4. IsInjective(v.found)
    BY DEF Apart
  <1> QED BY <1>2, <1>3, <1>4 DEF Apart

\* A place is found.
LEMMA ApartFound ==
  ASSUME NEW w \in Walks, NEW v, NEW q \in w.pending,
         Apart(w), v.found = Append(w.found, q), v.pending \subseteq w.pending \ {q}
  PROVE  Apart(v)
  <1> DEFINE found == w.found
  <1> DEFINE after == Append(found, q)
  <1>1. w.pending \subseteq Paths /\ q \in Paths /\ found \in Seq(Paths)
    BY DEF Walks
  <1>2. /\ DOMAIN after = 1 .. Len(found) + 1 /\ DOMAIN found = 1 .. Len(found)
        /\ Len(found) \in Nat
        /\ after[Len(found) + 1] = q
        /\ \A i \in 1 .. Len(found) : after[i] = found[i]
    BY <1>1
  <1>3. v.found = after
    OBVIOUS
  <1>4. \A p \in w.pending : \A i \in DOMAIN found : ~Above(p, found[i])
    BY DEF Apart
  <1>5. \A p, r \in w.pending : Above(p, r) => p = r
    BY DEF Apart
  <1>6. IsInjective(found)
    BY DEF Apart
  <1> HIDE DEF found, after
  <1>7. ASSUME NEW p \in v.pending, NEW i \in DOMAIN after, Above(p, after[i])
        PROVE  FALSE
    <2>1. CASE i = Len(found) + 1
      BY <1>2, <1>5, <1>7, <2>1
    <2>2. CASE i \in DOMAIN found
      BY <1>2, <1>4, <1>7, <2>2
    <2> QED BY <1>2, <2>1, <2>2
  <1>8. IsInjective(after)
    <2>1. \A i \in DOMAIN found : found[i] # q
      BY <1>1, <1>4, AboveItself
    <2>2. \A i, k \in DOMAIN found : found[i] = found[k] => i = k
      BY <1>6 DEF IsInjective
    <2>3. \A i, k \in DOMAIN after : after[i] = after[k] => i = k
      BY <1>2, <2>1, <2>2
    <2> QED BY <2>3 DEF IsInjective
  <1> QED BY <1>3, <1>5, <1>7, <1>8 DEF Apart

-----------------------------------------------------------------------------
(* The paths that are owed, and how far a walk has come on them. *)

Inner == {n \in (Dirs \cup Symlinks) \ Ignored : IsDir(n)}

\* What FilePaths says of a path, place by place.
LEMMA FilePathFacts ==
  ASSUME NEW files \in SUBSET Names, NEW inner \in SUBSET Names, NEW n \in Nat,
         NEW p \in FilePaths(files, inner, n)
  PROVE  /\ p \in Paths /\ Last(p) = p[Len(p)] /\ Last(p) \in files
         /\ Len(p) <= n + 1 /\ Parent[p[1]] = Root
         /\ \A k \in 1 .. Len(p) - 1 : p[k] \in inner /\ Parent[p[k + 1]] = Leads(p[k])
  <1>1. PICK s \in SeqOf(inner, n), f \in files : p = Append(s, f)
    BY DEF FilePaths
  <1>2. PICK m \in 0 .. n : s \in [1 .. m -> inner]
    BY <1>1 DEF SeqOf
  <1>3. s \in Seq(inner) /\ s \in Seq(Names) /\ Len(s) = m /\ m \in Nat /\ m <= n
    BY <1>2
  <1>4. p \in Seq(Names) /\ Len(p) = m + 1 /\ p[m + 1] = f
    BY <1>1, <1>3
  <1>5. \A k \in 1 .. m : p[k] = s[k] /\ s[k] \in inner
    BY <1>1, <1>3
  <1>6. p # <<>> /\ Last(p) = p[Len(p)]
    BY <1>4 DEF Last
  <1>7. /\ Parent[p[1]] = Root
        /\ \A k \in 1 .. Len(p) - 1 : Parent[p[k + 1]] = Leads(p[k])
    BY DEF FilePaths
  <1> QED BY <1>1, <1>3, <1>4, <1>5, <1>6, <1>7 DEF Paths

LEMMA DiscoverableFacts ==
  ASSUME NEW depth \in Depths, NEW p \in DiscoverablePaths[depth]
  PROVE  /\ p \in Paths /\ Last(p) = p[Len(p)] /\ Last(p) \in Files \ Ignored
         /\ Len(p) <= depth /\ Parent[p[1]] = Root
         /\ \A k \in 1 .. Len(p) - 1 : p[k] \in Inner /\ Parent[p[k + 1]] = Leads(p[k])
  <1> DEFINE files == Files \ Ignored
  <1> DEFINE n == depth - 1
  <1>1. n \in Nat /\ n + 1 = depth
    BY WorkspaceAssumption
  <1>2. files \in SUBSET Names /\ Inner \in SUBSET Names
    BY WorkspaceAssumption DEF Files, Inner
  <1>3. p \in FilePaths(files, Inner, n)
    BY DEF DiscoverablePaths, Inner
  <1> HIDE DEF files, n
  <1>4. /\ p \in Paths /\ Last(p) = p[Len(p)] /\ Last(p) \in files
        /\ Len(p) <= n + 1 /\ Parent[p[1]] = Root
        /\ \A k \in 1 .. Len(p) - 1 : p[k] \in Inner /\ Parent[p[k + 1]] = Leads(p[k])
    BY <1>1, <1>2, <1>3, FilePathFacts
  <1> QED BY <1>1, <1>4 DEF files

LEMMA SearchableFacts ==
  ASSUME NEW p \in SearchablePaths
  PROVE  /\ p \in Paths /\ Last(p) = p[Len(p)] /\ Last(p) \in Files
         /\ Parent[p[1]] = Root
         /\ \A k \in 1 .. Len(p) - 1 :
              p[k] \in Dirs \ Ignored /\ Parent[p[k + 1]] = Leads(p[k])
  <1>1. Dirs \subseteq Names /\ IsFiniteSet(Names)
    BY WorkspaceAssumption
  <1>2. IsFiniteSet(Dirs)
    BY <1>1, FS_Subset
  <1>3. Cardinality(Dirs) \in Nat
    BY <1>2, FS_CardinalityType
  <1> DEFINE files == Files
  <1> DEFINE inner == Dirs \ Ignored
  <1> DEFINE n == Cardinality(Dirs)
  <1>4. files \in SUBSET Names /\ inner \in SUBSET Names /\ n \in Nat
    BY <1>1, <1>3 DEF Files
  <1>5. p \in FilePaths(files, inner, n)
    BY DEF SearchablePaths
  <1> HIDE DEF files, inner, n
  <1>6. /\ p \in Paths /\ Last(p) = p[Len(p)] /\ Last(p) \in files
        /\ Len(p) <= n + 1 /\ Parent[p[1]] = Root
        /\ \A k \in 1 .. Len(p) - 1 : p[k] \in inner /\ Parent[p[k + 1]] = Leads(p[k])
    BY <1>4, <1>5, FilePathFacts
  <1> QED BY <1>6 DEF files, inner

\* What a walk has reached it has reached when places are listed instead of
\* the one they lie under, if the one on the way is among them.
LEMMA ReachedEntered ==
  ASSUME NEW w \in Walks, NEW v, NEW q \in w.pending, NEW p \in Paths, NEW listing,
         Reached(w, p), v.found = w.found, v.pending = (w.pending \ {q}) \cup listing,
         v.unread = w.unread, Above(q, p) => \E r \in listing : Above(r, p)
  PROVE  Reached(v, p)
  BY DEF Reached, Hidden

\* Or when the one on the way cannot be read.
LEMMA ReachedUnread ==
  ASSUME NEW w \in Walks, NEW v, NEW q \in w.pending, NEW p \in Paths,
         Reached(w, p), v.found = w.found, v.pending = w.pending \ {q},
         v.unread = w.unread \cup {q}
  PROVE  Reached(v, p)
  BY DEF Reached, Hidden

\* Or when it is found.
LEMMA ReachedFound ==
  ASSUME NEW w \in Walks, NEW v, NEW q \in w.pending, NEW p \in Paths,
         Reached(w, p), v.found = Append(w.found, q), v.pending = w.pending \ {q},
         v.unread = w.unread, Above(q, p) => q = p
  PROVE  Reached(v, p)
  <1> DEFINE found == w.found
  <1>1. found \in Seq(Paths) /\ q \in Paths
    BY DEF Walks
  <1>2. Len(found) + 1 \in DOMAIN Append(found, q) /\ Append(found, q)[Len(found) + 1] = q
    BY <1>1
  <1>3. \A i \in DOMAIN found : i \in DOMAIN Append(found, q) /\ Append(found, q)[i] = found[i]
    BY <1>1
  <1>4. CASE \E k \in w.pending : Above(k, p)
    BY <1>2, <1>4 DEF Reached, Range
  <1>5. CASE p \in Range(found)
    BY <1>3, <1>5 DEF Reached, Range
  <1>6. CASE Hidden(w, p)
    BY <1>6 DEF Reached, Hidden
  <1> QED BY <1>4, <1>5, <1>6 DEF Reached

\* The place after q on the way to p is q and a name.
LEMMA NextOnTheWay ==
  ASSUME NEW q \in Paths, NEW p \in Paths, Above(q, p), Len(q) < Len(p)
  PROVE  /\ p[Len(q) + 1] \in Names /\ Last(q) = p[Len(q)] /\ Len(q) \in 1 .. Len(p) - 1
         /\ Above(Append(q, p[Len(q) + 1]), p)
  <1>1. q \in Seq(Names) /\ p \in Seq(Names) /\ q # <<>>
    BY DEF Paths
  <1>2. Len(q) \in Nat /\ Len(p) \in Nat /\ Len(q) # 0
    BY <1>1
  <1>3. p[Len(q) + 1] \in Names /\ Len(q) \in 1 .. Len(p) - 1
    BY <1>1, <1>2
  <1>4. Last(q) = p[Len(q)]
    BY <1>2 DEF Last, Above
  <1> DEFINE c == Append(q, p[Len(q) + 1])
  <1>5. /\ Len(c) = Len(q) + 1 /\ c[Len(q) + 1] = p[Len(q) + 1]
        /\ \A k \in 1 .. Len(q) : c[k] = q[k]
    BY <1>3, PathGoesOn
  <1>6. \A k \in 1 .. Len(q) : q[k] = p[k]
    BY DEF Above
  <1> HIDE DEF c
  <1>7. \A k \in 1 .. Len(c) : c[k] = p[k]
    BY <1>2, <1>5, <1>6
  <1>8. Above(c, p)
    BY <1>2, <1>5, <1>7 DEF Above
  <1> QED BY <1>3, <1>4, <1>8 DEF c

\* A file lies above nothing but itself, for directories and links lead on.
LEMMA FileIsLast ==
  ASSUME NEW q \in Paths, NEW p \in Paths, Above(q, p), Last(q) \in Files,
         \A k \in 1 .. Len(p) - 1 : p[k] \notin Files
  PROVE  q = p
  <1>1. Len(q) \in Nat /\ Len(p) \in Nat /\ Len(q) <= Len(p)
    BY DEF Paths, Above
  <1>2. ~(Len(q) < Len(p))
    BY NextOnTheWay
  <1> QED BY <1>1, <1>2, AboveEqual

\* What a directory on the way to p holds, if p's file is there when it is read.
LEMMA ListedOnTheWay ==
  ASSUME NEW q \in Paths, NEW p \in Paths, Above(q, p), Len(q) < Len(p),
         \A k \in 1 .. Len(p) - 1 : p[k] \notin Files /\ Parent[p[k + 1]] = Leads(p[k]),
         Last(p) = p[Len(p)], disk[Last(p)] # "absent"
  PROVE  \E r \in Listing(q) : Above(r, p)
  <1> DEFINE n == p[Len(q) + 1]
  <1>1. Len(q) \in Nat /\ Len(p) \in Nat /\ q # <<>>
    BY DEF Paths
  <1>2. n \in Names /\ Last(q) = p[Len(q)] /\ Len(q) \in 1 .. Len(p) - 1 /\ Above(Append(q, n), p)
    BY NextOnTheWay
  <1>3. Parent[n] = Directory(q)
    BY <1>1, <1>2 DEF Directory
  <1>4. n \in Files => disk[n] # "absent"
    BY <1>1, <1>2
  <1> QED BY <1>2, <1>3, <1>4 DEF Listing

\* What the root holds of the way to p.
LEMMA ListedAtRoot ==
  ASSUME NEW p \in Paths, Parent[p[1]] = Root,
         \A k \in 1 .. Len(p) - 1 : p[k] \notin Files,
         Last(p) = p[Len(p)], disk[Last(p)] # "absent"
  PROVE  \E r \in Listing(<<>>) : Above(r, p)
  <1>1. p \in Seq(Names) /\ Len(p) \in Nat \ {0} /\ p[1] \in Names
    BY DEF Paths
  <1>2. p[1] \in Files => disk[p[1]] # "absent"
    BY <1>1
  <1>3. Append(<<>>, p[1]) \in Listing(<<>>)
    BY <1>1, <1>2 DEF Listing, Directory
  <1>4. Above(Append(<<>>, p[1]), p)
    BY <1>1 DEF Above
  <1> QED BY <1>3, <1>4

-----------------------------------------------------------------------------
(* A walk begins. *)

\* A directory's entries are the path to it and a name each.
LEMMA ListingNames ==
  ASSUME NEW q \in Seq(Names)
  PROVE  /\ Listing(q) \subseteq Paths
         /\ \A r \in Listing(q) :
              /\ \E n \in Names : r = Append(q, n)
              /\ Last(r) \in Files => disk[Last(r)] # "absent"
  <1>1. ASSUME NEW n \in Names
        PROVE  Append(q, n) \in Paths /\ Last(Append(q, n)) = n
    BY DEF Paths, Last
  <1> QED BY <1>1 DEF Listing

LEMMA BegunWalk ==
  ASSUME TypeOK, NEW depth \in Nat, NEW w \in Opened(depth)
  PROVE  /\ w \in Walks /\ Current(w, disk) /\ Sought(w)
         /\ depth \in Depths => Discovery(w)
  <1>1. /\ w.pending \in {Listing(<<>>), {}} /\ w.unread \in {{}, {<<>>}}
        /\ w.unread = {} => w.pending = Listing(<<>>)
        /\ w = Walk(depth, w.pending, w.unread)
    BY DEF Opened, Walk
  <1> DEFINE seen == [f \in Files |-> {disk[f]}]
  <1>2. /\ w.found = <<>> /\ w.depth = depth /\ w.seen = seen /\ w.scanned = 0
        /\ w.truncated = FALSE
    BY <1>1 DEF Walk
  <1>3. <<>> \in Seq(Names) /\ Listing(<<>>) \subseteq Paths
    <2>1. <<>> \in Seq(Names)
      OBVIOUS
    <2> QED BY <2>1, ListingNames
  <1>4. seen \in [Files -> SUBSET States]
    BY DEF TypeOK
  <1>5. w \in Walks
    <2> DEFINE pending == w.pending
    <2> DEFINE unread == w.unread
    <2>1. pending \in SUBSET Paths /\ unread \in SUBSET Seq(Names)
      BY <1>1, <1>3
    <2> HIDE DEF seen
    <2>2. w = [pending |-> pending, found |-> <<>>, depth |-> depth, scanned |-> 0,
               truncated |-> FALSE, unread |-> unread, seen |-> seen]
      BY <1>1 DEF Walk, seen
    <2>3. <<>> \in Seq(Paths) /\ 0 \in Nat /\ FALSE \in BOOLEAN
      OBVIOUS
    <2> HIDE DEF pending, unread
    <2> QED BY <1>4, <2>1, <2>2, <2>3 DEF Walks
  <1>6. \A f \in Files : w.seen[f] = {disk[f]} /\ disk[f] \in States
    BY <1>2 DEF TypeOK
  <1> HIDE DEF seen
  <1>7. Current(w, disk)
    BY <1>6 DEF Current
  <1>8. Apart(w)
    <2>1. \A p, q \in w.pending : Above(p, q) => p = q
      <3>1. TAKE p, q \in w.pending
      <3>2. PICK n \in Names, m \in Names : p = Append(<<>>, n) /\ q = Append(<<>>, m)
        BY <1>1 DEF Listing
      <3> QED BY <3>2 DEF Above
    <2>2. DOMAIN w.found = {}
      BY <1>2
    <2> QED BY <2>1, <2>2 DEF Apart, IsInjective
  <1>9. ASSUME NEW p \in w.pending, Last(p) \in Files
        PROVE  Existed(w, Last(p))
    <2>1. disk[Last(p)] # "absent"
      BY <1>1, <1>3, <1>9, ListingNames
    <2> QED BY <1>6, <1>9, <2>1 DEF Existed
  <1>10. ASSUME NEW p \in Paths, Parent[p[1]] = Root, disk[Last(p)] # "absent",
                Last(p) = p[Len(p)], \A k \in 1 .. Len(p) - 1 : p[k] \notin Files
         PROVE  Reached(w, p)
    <2>1. CASE w.unread = {}
      <3>1. \E r \in Listing(<<>>) : Above(r, p)
        BY <1>10, ListedAtRoot
      <3> QED BY <1>1, <2>1, <3>1 DEF Reached
    <2>2. CASE w.unread = {<<>>}
      <3>1. Above(<<>>, p)
        BY DEF Above, Paths
      <3> QED BY <2>2, <3>1 DEF Reached, Hidden
    <2> QED BY <1>1, <2>1, <2>2
  <1>11. ASSUME depth \in Depths
         PROVE  Discovery(w)
    <2>1. ASSUME NEW p \in DiscoverablePaths[depth], "absent" \notin w.seen[Last(p)]
          PROVE  Reached(w, p)
      <3>1. /\ p \in Paths /\ Parent[p[1]] = Root /\ Last(p) = p[Len(p)] /\ Last(p) \in Files
            /\ \A k \in 1 .. Len(p) - 1 : p[k] \in Inner
        BY <1>11, DiscoverableFacts
      <3>2. disk[Last(p)] # "absent"
        BY <1>6, <2>1, <3>1
      <3>3. \A k \in 1 .. Len(p) - 1 : p[k] \notin Files
        BY <3>1 DEF Inner, Files
      <3> QED BY <1>10, <3>1, <3>2, <3>3
    <2>2. Len(w.found) = 0 /\ DOMAIN w.found = {} /\ 0 <= MaxFiles
      BY <1>2, WorkspaceAssumption
    <2> QED BY <1>2, <1>8, <1>9, <1>11, <2>1, <2>2 DEF Discovery
  <1>12. Sought(w)
    <2>1. ASSUME NEW p \in SearchablePaths, w.seen[Last(p)] = {"hit"}
          PROVE  Reached(w, p)
      <3>1. /\ p \in Paths /\ Parent[p[1]] = Root /\ Last(p) = p[Len(p)] /\ Last(p) \in Files
            /\ \A k \in 1 .. Len(p) - 1 : p[k] \in Dirs \ Ignored
        BY SearchableFacts
      <3>2. disk[Last(p)] # "absent"
        BY <1>6, <2>1, <3>1
      <3>3. \A k \in 1 .. Len(p) - 1 : p[k] \notin Files
        BY <3>1 DEF Files
      <3> QED BY <1>10, <3>1, <3>2, <3>3
    <2>2. Len(w.found) = 0 /\ DOMAIN w.found = {} /\ 0 <= MaxResults
      BY <1>2, WorkspaceAssumption
    <2> QED BY <1>8, <2>1, <2>2 DEF Sought
  <1> QED BY <1>5, <1>7, <1>11, <1>12

\* What a walk is after a place that could not be read.
LEMMA UnreadWalk ==
  ASSUME NEW w \in Walks, NEW q \in w.pending, NEW v, v = Unread(w, q)
  PROVE  /\ v \in Walks /\ v.seen = w.seen /\ v.depth = w.depth
         /\ v.pending = w.pending \ {q} /\ v.unread = w.unread \cup {q}
         /\ v.found = w.found /\ v.truncated = w.truncated
  <1>1. q \in Seq(Names)
    BY DEF Walks, Paths
  <1>2. v = [w EXCEPT !.pending = w.pending \ {q}, !.unread = w.unread \cup {q}]
    BY DEF Unread, Passed, Walks
  <1> QED BY <1>1, <1>2 DEF Walks

-----------------------------------------------------------------------------
(* A discovery goes on. *)

\* How an entry is looked at: the limit is reached, a directory entered, or
\* not readable, a file met, or the entry passed over.
LEMMA DiscoverCases ==
  ASSUME NEW w \in Walks, NEW q \in w.pending, NEW v \in Discover(w, q)
  PROVE  /\ v \in Walks /\ v.seen = w.seen /\ v.depth = w.depth
         /\ \/ v.pending = {} /\ v.found = w.found /\ v.truncated
            \/ /\ IsDir(Last(q)) /\ Last(q) \notin Ignored /\ Len(q) < w.depth
               /\ v.pending = (w.pending \ {q}) \cup Listing(q) /\ v.unread = w.unread
               /\ v.found = w.found /\ v.truncated = w.truncated
            \/ /\ v.pending = w.pending \ {q} /\ v.unread = w.unread \cup {q}
               /\ v.found = w.found /\ v.truncated = w.truncated
            \/ /\ Last(q) \in Files \ Ignored /\ Len(w.found) < MaxFiles
               /\ v.pending = w.pending \ {q} /\ v.unread = w.unread
               /\ v.found = Append(w.found, q) /\ v.truncated = w.truncated
            \/ /\ ~(IsDir(Last(q)) /\ Last(q) \notin Ignored /\ Len(q) < w.depth)
               /\ Last(q) \notin Files \ Ignored
               /\ v.pending = w.pending \ {q} /\ v.unread = w.unread
               /\ v.found = w.found /\ v.truncated = w.truncated
  <1>1. /\ w.pending \subseteq Paths /\ q \in Paths /\ q \in Seq(Names)
        /\ w.found \in Seq(Paths) /\ w.unread \subseteq Seq(Names)
    BY DEF Walks, Paths
  <1>2. Listing(q) \subseteq Paths
    BY <1>1, ListingNames
  <1>3. Len(w.found) \in Nat /\ MaxFiles \in Nat
    BY <1>1, WorkspaceAssumption
  <1>4. Append(w.found, q) \in Seq(Paths)
    BY <1>1
  <1> DEFINE entered == IsDir(Last(q)) /\ Last(q) \notin Ignored /\ Len(q) < w.depth
  <1> DEFINE met == Last(q) \in Files \ Ignored
  <1>5. CASE Len(w.found) >= MaxFiles
    <2>1. v = [w EXCEPT !.truncated = TRUE, !.pending = {}]
      BY <1>3, <1>5 DEF Discover, Truncated
    <2> QED BY <2>1 DEF Walks
  <1>6. CASE Len(w.found) < MaxFiles /\ entered
    <2>1. ~met
      BY <1>6 DEF IsDir, Files
    <2>2. v \in Entered(w, q)
      BY <1>3, <1>6, <2>1 DEF Discover
    <2>3. CASE v = [w EXCEPT !.pending = (w.pending \ {q}) \cup Listing(q)]
      BY <1>1, <1>2, <1>6, <2>3 DEF Walks
    <2>4. CASE v = Unread(w, q)
      BY <1>1, <2>4, UnreadWalk
    <2> QED BY <2>2, <2>3, <2>4 DEF Entered
  <1>7. CASE Len(w.found) < MaxFiles /\ ~entered /\ met
    <2>1. v = [Passed(w, q) EXCEPT !.found = Append(Passed(w, q).found, q)]
      BY <1>3, <1>7 DEF Discover
    <2>2. v = [w EXCEPT !.pending = w.pending \ {q}, !.found = Append(w.found, q)]
      BY <2>1 DEF Passed, Walks
    <2> QED BY <1>1, <1>4, <1>7, <2>2 DEF Walks
  <1>8. CASE Len(w.found) < MaxFiles /\ ~entered /\ ~met
    <2>1. v = [w EXCEPT !.pending = w.pending \ {q}]
      BY <1>3, <1>8 DEF Discover, Passed
    <2> QED BY <1>1, <1>8, <2>1 DEF Walks
  <1> QED BY <1>3, <1>5, <1>6, <1>7, <1>8

LEMMA DiscoveryGoesOn ==
  ASSUME TypeOK, NEW w \in Walks, Discovery(w), Current(w, disk),
         NEW q \in w.pending, NEW v \in Discover(w, q)
  PROVE  v \in Walks /\ Discovery(v) /\ Current(v, disk)
  <1>1. v \in Walks /\ v.seen = w.seen /\ v.depth = w.depth /\ w.depth \in Depths
    BY DiscoverCases DEF Discovery
  <1>2. Current(v, disk)
    BY <1>1 DEF Current
  <1>3. /\ w.pending \subseteq Paths /\ q \in Paths /\ q \in Seq(Names)
        /\ w.found \in Seq(Paths) /\ Len(w.found) \in Nat /\ MaxFiles \in Nat
    BY WorkspaceAssumption DEF Walks, Paths
  <1>4. Apart(w) /\ Len(w.found) <= MaxFiles
    BY DEF Discovery
  <1>5. \A p \in w.pending : Last(p) \in Files => Existed(w, Last(p))
    BY DEF Discovery
  <1>6. \A i \in DOMAIN w.found : Last(w.found[i]) \in Files /\ Existed(w, Last(w.found[i]))
    BY DEF Discovery
  <1>7. \A f : Existed(v, f) <=> Existed(w, f)
    BY <1>1 DEF Existed
  <1>8. ASSUME NEW p \in DiscoverablePaths[w.depth]
        PROVE  /\ p \in Paths /\ Last(p) = p[Len(p)] /\ Last(p) \in Files \ Ignored
               /\ Len(p) \in Nat /\ Len(q) \in Nat /\ Len(p) <= w.depth
               /\ \A k \in 1 .. Len(p) - 1 :
                    /\ p[k] \notin Files /\ Parent[p[k + 1]] = Leads(p[k])
                    /\ IsDir(p[k]) /\ p[k] \notin Ignored
               /\ "absent" \notin v.seen[Last(p)] =>
                    (w.truncated \/ Reached(w, p)) /\ disk[Last(p)] # "absent"
    <2>1. /\ p \in Paths /\ Last(p) = p[Len(p)] /\ Last(p) \in Files \ Ignored
          /\ Len(p) <= w.depth
          /\ \A k \in 1 .. Len(p) - 1 : p[k] \in Inner /\ Parent[p[k + 1]] = Leads(p[k])
      BY <1>1, DiscoverableFacts
    <2>2. Len(p) \in Nat /\ Len(q) \in Nat
      BY <1>3, <2>1 DEF Paths
    <2>3. \A k \in 1 .. Len(p) - 1 : p[k] \notin Files /\ IsDir(p[k]) /\ p[k] \notin Ignored
      BY <2>1 DEF Inner, Files
    <2>4. "absent" \notin v.seen[Last(p)] => w.truncated \/ Reached(w, p)
      BY <1>1 DEF Discovery
    <2>5. "absent" \notin v.seen[Last(p)] => disk[Last(p)] # "absent"
      BY <1>2, <2>1 DEF Current
    <2> QED BY <2>1, <2>2, <2>3, <2>4, <2>5
  <1>9. CASE v.pending = {} /\ v.found = w.found /\ v.truncated
    <2>1. Apart(v)
      BY <1>4, <1>9, ApartDropped
    <2> QED BY <1>1, <1>2, <1>4, <1>6, <1>7, <1>9, <2>1 DEF Discovery
  <1>10. CASE /\ IsDir(Last(q)) /\ Last(q) \notin Ignored /\ Len(q) < w.depth
              /\ v.pending = (w.pending \ {q}) \cup Listing(q) /\ v.unread = w.unread
              /\ v.found = w.found /\ v.truncated = w.truncated
    <2>1. \A r \in Listing(q) : /\ \E n \in Names : r = Append(q, n)
                                /\ Last(r) \in Files => disk[Last(r)] # "absent"
      BY <1>3, ListingNames
    <2>2. Apart(v)
      BY <1>4, <1>10, <2>1, ApartEntered
    <2>3. ASSUME NEW p \in v.pending, Last(p) \in Files
          PROVE  Existed(v, Last(p))
      <3>1. CASE p \in Listing(q)
        BY <1>2, <2>1, <2>3, <3>1 DEF Current, Existed
      <3>2. CASE p \in w.pending
        BY <1>5, <1>7, <2>3, <3>2
      <3> QED BY <1>10, <3>1, <3>2
    <2>4. ASSUME NEW p \in DiscoverablePaths[w.depth], "absent" \notin v.seen[Last(p)],
                 ~v.truncated
          PROVE  Reached(v, p)
      <3>1. p \in Paths /\ Reached(w, p) /\ disk[Last(p)] # "absent"
        BY <1>8, <1>10, <2>4
      <3>2. Last(q) \notin Files
        BY <1>10 DEF IsDir, Files
      <3>3. ASSUME Above(q, p)
            PROVE  \E r \in Listing(q) : Above(r, p)
        <4>1. Len(q) # Len(p)
          BY <1>3, <1>8, <3>1, <3>2, <3>3, AboveEqual
        <4>2. Len(q) < Len(p)
          BY <1>8, <3>3, <4>1 DEF Above
        <4>3. /\ \A k \in 1 .. Len(p) - 1 : p[k] \notin Files /\ Parent[p[k + 1]] = Leads(p[k])
              /\ Last(p) = p[Len(p)]
          BY <1>8
        <4> QED BY <1>3, <3>1, <3>3, <4>2, <4>3, ListedOnTheWay
      <3> QED BY <1>10, <3>1, <3>3, ReachedEntered
    <2> QED BY <1>1, <1>2, <1>4, <1>6, <1>7, <1>10, <2>2, <2>3, <2>4 DEF Discovery
  <1>11. CASE /\ Last(q) \in Files \ Ignored /\ Len(w.found) < MaxFiles
              /\ v.pending = w.pending \ {q} /\ v.unread = w.unread
              /\ v.found = Append(w.found, q) /\ v.truncated = w.truncated
    <2>1. Apart(v)
      BY <1>4, <1>11, ApartFound
    <2>2. Len(v.found) <= MaxFiles
      BY <1>3, <1>11
    <2>3. ASSUME NEW i \in DOMAIN v.found
          PROVE  Last(v.found[i]) \in Files /\ Existed(v, Last(v.found[i]))
      <3>1. CASE i \in DOMAIN w.found
        <4>1. v.found[i] = w.found[i]
          BY <1>3, <1>11, <3>1
        <4> QED BY <1>6, <1>7, <3>1, <4>1
      <3>2. CASE i = Len(w.found) + 1
        <4>1. v.found[i] = q
          BY <1>3, <1>11, <3>2
        <4> QED BY <1>5, <1>7, <1>11, <4>1
      <3> QED BY <1>3, <1>11, <3>1, <3>2
    <2>4. ASSUME NEW p \in DiscoverablePaths[w.depth], "absent" \notin v.seen[Last(p)],
                 ~v.truncated
          PROVE  Reached(v, p)
      <3>1. p \in Paths /\ Reached(w, p) /\ \A k \in 1 .. Len(p) - 1 : p[k] \notin Files
        BY <1>8, <1>11, <2>4
      <3>2. Above(q, p) => q = p
        BY <1>3, <1>11, <3>1, FileIsLast
      <3> QED BY <1>11, <3>1, <3>2, ReachedFound
    <2>5. \A p \in v.pending : Last(p) \in Files => Existed(v, Last(p))
      BY <1>5, <1>7, <1>11
    <2> QED BY <1>1, <1>2, <2>1, <2>2, <2>3, <2>4, <2>5 DEF Discovery
  <1>12. CASE /\ ~(IsDir(Last(q)) /\ Last(q) \notin Ignored /\ Len(q) < w.depth)
              /\ Last(q) \notin Files \ Ignored
              /\ v.pending = w.pending \ {q} /\ v.unread = w.unread
              /\ v.found = w.found /\ v.truncated = w.truncated
    <2>1. Apart(v)
      BY <1>4, <1>12, ApartDropped
    <2>2. ASSUME NEW p \in DiscoverablePaths[w.depth], "absent" \notin v.seen[Last(p)],
                 ~v.truncated
          PROVE  Reached(v, p)
      <3>1. p \in Paths /\ Reached(w, p)
        BY <1>8, <1>12, <2>2
      <3>2. ~Above(q, p)
        <4>1. SUFFICES ASSUME Above(q, p) PROVE FALSE
          OBVIOUS
        <4>2. CASE Len(q) = Len(p)
          BY <1>3, <1>8, <1>12, <3>1, <4>1, <4>2, AboveEqual
        <4>3. CASE Len(q) < Len(p)
          <5>1. Last(q) = p[Len(q)] /\ Len(q) \in 1 .. Len(p) - 1
            BY <1>3, <3>1, <4>1, <4>3, NextOnTheWay
          <5>2. IsDir(Last(q)) /\ Last(q) \notin Ignored
            BY <1>8, <5>1
          <5>3. Len(q) < w.depth
            BY <1>8, <4>3 DEF Walks
          <5> QED BY <1>12, <5>2, <5>3
        <4> QED BY <1>8, <4>1, <4>2, <4>3 DEF Above
      <3> QED BY <1>12, <3>1, <3>2 DEF Reached, Hidden
    <2> QED BY <1>1, <1>2, <1>4, <1>5, <1>6, <1>7, <1>12, <2>1, <2>2 DEF Discovery
  <1>13. CASE /\ v.pending = w.pending \ {q} /\ v.unread = w.unread \cup {q}
              /\ v.found = w.found /\ v.truncated = w.truncated
    <2>1. Apart(v)
      BY <1>4, <1>13, ApartDropped
    <2>2. ASSUME NEW p \in DiscoverablePaths[w.depth], "absent" \notin v.seen[Last(p)],
                 ~v.truncated
          PROVE  Reached(v, p)
      <3>1. p \in Paths /\ Reached(w, p)
        BY <1>8, <1>13, <2>2
      <3> QED BY <1>13, <3>1, ReachedUnread
    <2> QED BY <1>1, <1>2, <1>4, <1>5, <1>6, <1>7, <1>13, <2>1, <2>2 DEF Discovery
  <1> QED BY <1>9, <1>10, <1>11, <1>12, <1>13, DiscoverCases

-----------------------------------------------------------------------------
(* A search goes on. *)

LEMMA LookCases ==
  ASSUME NEW w \in Walks, NEW q \in w.pending, NEW v \in Look(w, q)
  PROVE  /\ v \in Walks /\ v.seen = w.seen
         /\ \/ v.pending = {} /\ v.found = w.found /\ v.truncated
            \/ /\ v.pending = {} /\ v.found = Append(w.found, q) /\ v.truncated
               /\ Last(q) \in Files /\ disk[Last(q)] = "hit"
            \/ /\ v.pending = w.pending \ {q} /\ v.found = Append(w.found, q)
               /\ v.unread = w.unread
               /\ v.truncated = w.truncated /\ Len(w.found) + 1 < MaxResults
               /\ Last(q) \in Files /\ disk[Last(q)] = "hit"
            \/ /\ Last(q) \in Dirs \ Ignored
               /\ v.pending = (w.pending \ {q}) \cup Listing(q) /\ v.unread = w.unread
               /\ v.found = w.found /\ v.truncated = w.truncated
            \/ /\ v.pending = w.pending \ {q} /\ v.unread = w.unread \cup {q}
               /\ v.found = w.found /\ v.truncated = w.truncated
            \/ /\ Last(q) \notin Dirs \ Ignored
               /\ Last(q) \in Files => disk[Last(q)] # "hit"
               /\ v.pending = w.pending \ {q} /\ v.unread = w.unread
               /\ v.found = w.found /\ v.truncated = w.truncated
  <1> DEFINE rest == w.pending \ {q}
  <1> DEFINE found == Append(w.found, q)
  <1> DEFINE scanned == w.scanned + 1
  <1>1. /\ w.pending \subseteq Paths /\ q \in Paths /\ q \in Seq(Names)
        /\ w.found \in Seq(Paths) /\ w.unread \subseteq Seq(Names)
    BY DEF Walks, Paths
  <1>2. Listing(q) \subseteq Paths
    BY <1>1, ListingNames
  <1>3. /\ Len(w.found) \in Nat /\ MaxResults \in Nat /\ MaxScanned \in Nat
        /\ w.scanned \in Nat /\ scanned \in Nat
    BY <1>1, WorkspaceAssumption DEF Walks
  <1>4. found \in Seq(Paths) /\ Len(found) = Len(w.found) + 1
    BY <1>1
  <1>5. CASE Last(q) \in Dirs \ Ignored
    <2>1. Last(q) \notin Files
      BY <1>5 DEF Files
    <2>2. v \in Entered(w, q)
      BY <1>5, <2>1 DEF Look
    <2>3. CASE v = [w EXCEPT !.pending = (w.pending \ {q}) \cup Listing(q)]
      BY <1>1, <1>2, <1>5, <2>3 DEF Walks
    <2>4. CASE v = Unread(w, q)
      BY <2>4, UnreadWalk
    <2> QED BY <2>2, <2>3, <2>4 DEF Entered
  <1>6. CASE Last(q) \in Files
    <2>1. Last(q) \notin Dirs \ Ignored
      BY <1>6 DEF Files
    <2>2. v \in Scan(w, q)
      BY <1>6, <2>1 DEF Look
    <2> DEFINE counted == [Passed(w, q) EXCEPT !.scanned = Passed(w, q).scanned + 1]
    <2> DEFINE matched == [counted EXCEPT !.found = Append(counted.found, q)]
    <2>3. /\ counted \in Walks /\ counted.scanned = scanned /\ counted.seen = w.seen
          /\ counted.pending = rest /\ counted.found = w.found
          /\ counted.truncated = w.truncated /\ counted.unread = w.unread
      <3>1. counted = [w EXCEPT !.scanned = scanned, !.pending = rest]
        BY DEF Passed, Walks
      <3> QED BY <1>1, <1>3, <3>1 DEF Walks
    <2> DEFINE missed == [Passed(counted, q) EXCEPT !.unread = Passed(counted, q).unread \cup {q}]
    <2>4. /\ matched \in Walks /\ matched.seen = w.seen
          /\ matched.pending = rest /\ matched.found = found
          /\ matched.truncated = w.truncated /\ matched.unread = w.unread
      <3> HIDE DEF counted
      <3> QED BY <1>4, <2>3 DEF Walks
    <2>5. /\ missed \in Walks /\ missed.seen = w.seen
          /\ missed.pending = rest /\ missed.found = w.found
          /\ missed.truncated = w.truncated /\ missed.unread = w.unread \cup {q}
      <3> HIDE DEF counted
      <3> DEFINE unread == w.unread \cup {q}
      <3>1. missed = [counted EXCEPT !.pending = rest, !.unread = unread]
        BY <2>3 DEF Passed, Walks
      <3>2. unread \in SUBSET Seq(Names) /\ rest \in SUBSET Paths
        BY <1>1
      <3> HIDE DEF missed, rest, unread
      <3>3. /\ missed \in Walks /\ missed.seen = counted.seen
            /\ missed.pending = rest /\ missed.found = counted.found
            /\ missed.truncated = counted.truncated /\ missed.unread = unread
        BY <2>3, <3>1, <3>2 DEF Walks
      <3> QED BY <2>3, <3>3 DEF unread
    <2>6. /\ scanned > MaxScanned => v = Truncated(counted)
          /\ scanned <= MaxScanned /\ disk[Last(q)] # "hit" => v = counted
          /\ scanned <= MaxScanned /\ disk[Last(q)] = "hit" =>
               v \in {IF Len(matched.found) >= MaxResults THEN Truncated(matched) ELSE matched,
                      missed}
      <3> DEFINE within == counted.scanned <= MaxScanned
      <3>1. (scanned <= MaxScanned) = within /\ (scanned > MaxScanned) = ~within
        BY <1>3, <2>3
      <3>2. /\ ~within => v = Truncated(counted)
            /\ within /\ disk[Last(q)] # "hit" => v = counted
            /\ within /\ disk[Last(q)] = "hit" =>
                 v \in {IF Len(matched.found) >= MaxResults THEN Truncated(matched) ELSE matched,
                        missed}
        BY <2>2 DEF Scan, Unread
      <3> QED BY <3>1, <3>2
    <2> HIDE DEF counted, matched, missed, found, rest, scanned
    <2>7. CASE scanned > MaxScanned
      <3>1. v = [counted EXCEPT !.truncated = TRUE, !.pending = {}]
        BY <2>6, <2>7 DEF Truncated
      <3> QED BY <2>3, <3>1 DEF Walks
    <2>8. CASE scanned <= MaxScanned /\ disk[Last(q)] # "hit"
      BY <2>1, <2>3, <2>6, <2>8 DEF rest
    <2>9. CASE scanned <= MaxScanned /\ disk[Last(q)] = "hit" /\ v = missed
      BY <2>5, <2>9 DEF rest
    <2>10. CASE /\ scanned <= MaxScanned /\ disk[Last(q)] = "hit" /\ v # missed
                /\ Len(found) >= MaxResults
      <3>1. v = [matched EXCEPT !.truncated = TRUE, !.pending = {}]
        BY <2>4, <2>6, <2>10 DEF Truncated
      <3>2. v \in Walks /\ v.seen = w.seen /\ v.pending = {} /\ v.truncated /\ v.found = found
        BY <2>4, <3>1 DEF Walks
      <3> QED BY <1>6, <2>10, <3>2 DEF found
    <2>11. CASE /\ scanned <= MaxScanned /\ disk[Last(q)] = "hit" /\ v # missed
                /\ ~(Len(found) >= MaxResults)
      <3>1. v = matched
        BY <2>4, <2>6, <2>11
      <3>2. Len(w.found) + 1 < MaxResults
        BY <1>3, <1>4, <2>11
      <3> QED BY <1>6, <2>4, <2>11, <3>1, <3>2 DEF found, rest
    <2> QED BY <1>3, <2>7, <2>8, <2>9, <2>10, <2>11
  <1>7. CASE Last(q) \notin Dirs \ Ignored /\ Last(q) \notin Files
    <2>1. v = [w EXCEPT !.pending = rest]
      BY <1>7 DEF Look, Passed
    <2> QED BY <1>1, <1>7, <2>1 DEF Walks
  <1> QED BY <1>5, <1>6, <1>7

LEMMA SearchGoesOn ==
  ASSUME TypeOK, NEW w \in Walks, Sought(w), Current(w, disk),
         NEW q \in w.pending, NEW v \in Look(w, q)
  PROVE  v \in Walks /\ Sought(v) /\ Current(v, disk)
  <1>1. v \in Walks /\ v.seen = w.seen
    BY LookCases
  <1>2. Current(v, disk)
    BY <1>1 DEF Current
  <1>3. /\ w.pending \subseteq Paths /\ q \in Paths /\ q \in Seq(Names)
        /\ w.found \in Seq(Paths) /\ Len(w.found) \in Nat /\ MaxResults \in Nat
    BY WorkspaceAssumption DEF Walks, Paths
  <1>4. /\ Apart(w)
        /\ Len(w.found) <= MaxResults \/ Len(w.found) = 1
        /\ Len(w.found) < MaxResults \/ Len(w.found) = 0
    BY DEF Sought
  <1>5. \A i \in DOMAIN w.found :
          Last(w.found[i]) \in Files /\ "hit" \in v.seen[Last(w.found[i])]
    BY <1>1 DEF Sought
  <1>6. ASSUME NEW p \in SearchablePaths
        PROVE  /\ p \in Paths /\ Last(p) = p[Len(p)] /\ Last(p) \in Files
               /\ Len(p) \in Nat /\ Len(q) \in Nat
               /\ \A k \in 1 .. Len(p) - 1 :
                    /\ p[k] \notin Files /\ Parent[p[k + 1]] = Leads(p[k])
                    /\ p[k] \in Dirs \ Ignored
               /\ v.seen[Last(p)] = {"hit"} =>
                    (w.truncated \/ Reached(w, p)) /\ disk[Last(p)] = "hit"
    <2>1. /\ p \in Paths /\ Last(p) = p[Len(p)] /\ Last(p) \in Files
          /\ \A k \in 1 .. Len(p) - 1 : p[k] \in Dirs \ Ignored /\ Parent[p[k + 1]] = Leads(p[k])
      BY SearchableFacts
    <2>2. Len(p) \in Nat /\ Len(q) \in Nat
      BY <1>3, <2>1 DEF Paths
    <2>3. \A k \in 1 .. Len(p) - 1 : p[k] \notin Files
      BY <2>1 DEF Files
    <2>4. v.seen[Last(p)] = {"hit"} => w.truncated \/ Reached(w, p)
      BY <1>1 DEF Sought
    <2>5. v.seen[Last(p)] = {"hit"} => disk[Last(p)] = "hit"
      BY <1>2, <2>1 DEF Current
    <2> QED BY <2>1, <2>2, <2>3, <2>4, <2>5
  <1>7. ASSUME v.found = Append(w.found, q), Last(q) \in Files, disk[Last(q)] = "hit"
        PROVE  /\ \A i \in DOMAIN v.found :
                    Last(v.found[i]) \in Files /\ "hit" \in v.seen[Last(v.found[i])]
               /\ Len(v.found) = Len(w.found) + 1
    <2>1. "hit" \in v.seen[Last(q)]
      BY <1>2, <1>7 DEF Current
    <2>2. ASSUME NEW i \in DOMAIN v.found
          PROVE  Last(v.found[i]) \in Files /\ "hit" \in v.seen[Last(v.found[i])]
      <3>1. CASE i \in DOMAIN w.found
        <4>1. v.found[i] = w.found[i]
          BY <1>3, <1>7, <3>1
        <4> QED BY <1>5, <3>1, <4>1
      <3>2. CASE i = Len(w.found) + 1
        <4>1. v.found[i] = q
          BY <1>3, <1>7, <3>2
        <4> QED BY <1>7, <2>1, <4>1
      <3> QED BY <1>3, <1>7, <3>1, <3>2
    <2>3. Len(v.found) = Len(w.found) + 1
      BY <1>3, <1>7
    <2> QED BY <2>2, <2>3
  <1>8. CASE v.pending = {} /\ v.found = w.found /\ v.truncated
    <2>1. Apart(v)
      BY <1>4, <1>8, ApartDropped
    <2> QED BY <1>1, <1>2, <1>4, <1>5, <1>8, <2>1 DEF Sought
  <1>9. CASE /\ v.pending = {} /\ v.found = Append(w.found, q) /\ v.truncated
             /\ Last(q) \in Files /\ disk[Last(q)] = "hit"
    <2>1. Apart(v)
      BY <1>4, <1>9, ApartFound
    <2>2. Len(v.found) <= MaxResults \/ Len(v.found) = 1
      BY <1>3, <1>4, <1>7, <1>9
    <2> QED BY <1>1, <1>2, <1>7, <1>9, <2>1, <2>2 DEF Sought
  <1>10. CASE /\ v.pending = w.pending \ {q} /\ v.found = Append(w.found, q)
              /\ v.unread = w.unread
              /\ v.truncated = w.truncated /\ Len(w.found) + 1 < MaxResults
              /\ Last(q) \in Files /\ disk[Last(q)] = "hit"
    <2>1. Apart(v)
      BY <1>4, <1>10, ApartFound
    <2>2. Len(v.found) < MaxResults /\ Len(v.found) <= MaxResults
      BY <1>3, <1>7, <1>10
    <2>3. ASSUME NEW p \in SearchablePaths, v.seen[Last(p)] = {"hit"}, ~v.truncated
          PROVE  Reached(v, p)
      <3>1. p \in Paths /\ Reached(w, p) /\ \A k \in 1 .. Len(p) - 1 : p[k] \notin Files
        BY <1>6, <1>10, <2>3
      <3>2. Above(q, p) => q = p
        BY <1>3, <1>10, <3>1, FileIsLast
      <3> QED BY <1>10, <3>1, <3>2, ReachedFound
    <2> QED BY <1>1, <1>2, <1>7, <1>10, <2>1, <2>2, <2>3 DEF Sought
  <1>11. CASE /\ Last(q) \in Dirs \ Ignored
              /\ v.pending = (w.pending \ {q}) \cup Listing(q) /\ v.unread = w.unread
              /\ v.found = w.found /\ v.truncated = w.truncated
    <2>1. \A r \in Listing(q) : \E n \in Names : r = Append(q, n)
      BY <1>3, ListingNames
    <2>2. Apart(v)
      BY <1>4, <1>11, <2>1, ApartEntered
    <2>3. ASSUME NEW p \in SearchablePaths, v.seen[Last(p)] = {"hit"}, ~v.truncated
          PROVE  Reached(v, p)
      <3>1. p \in Paths /\ Reached(w, p) /\ disk[Last(p)] # "absent"
        BY <1>6, <1>11, <2>3
      <3>2. Last(q) \notin Files
        BY <1>11 DEF Files
      <3>3. ASSUME Above(q, p)
            PROVE  \E r \in Listing(q) : Above(r, p)
        <4>1. Len(q) # Len(p)
          BY <1>3, <1>6, <3>1, <3>2, <3>3, AboveEqual
        <4>2. Len(q) < Len(p)
          BY <1>6, <3>3, <4>1 DEF Above
        <4>3. /\ \A k \in 1 .. Len(p) - 1 : p[k] \notin Files /\ Parent[p[k + 1]] = Leads(p[k])
              /\ Last(p) = p[Len(p)]
          BY <1>6
        <4> QED BY <1>3, <3>1, <3>3, <4>2, <4>3, ListedOnTheWay
      <3> QED BY <1>11, <3>1, <3>3, ReachedEntered
    <2> QED BY <1>1, <1>2, <1>4, <1>5, <1>11, <2>2, <2>3 DEF Sought
  <1>12. CASE /\ Last(q) \notin Dirs \ Ignored
              /\ Last(q) \in Files => disk[Last(q)] # "hit"
              /\ v.pending = w.pending \ {q} /\ v.unread = w.unread
              /\ v.found = w.found /\ v.truncated = w.truncated
    <2>1. Apart(v)
      BY <1>4, <1>12, ApartDropped
    <2>2. ASSUME NEW p \in SearchablePaths, v.seen[Last(p)] = {"hit"}, ~v.truncated
          PROVE  Reached(v, p)
      <3>1. p \in Paths /\ Reached(w, p) /\ Last(p) \in Files /\ disk[Last(p)] = "hit"
        BY <1>6, <1>12, <2>2
      <3>2. ~Above(q, p)
        <4>1. SUFFICES ASSUME Above(q, p) PROVE FALSE
          OBVIOUS
        <4>2. CASE Len(q) = Len(p)
          BY <1>3, <1>12, <3>1, <4>1, <4>2, AboveEqual
        <4>3. CASE Len(q) < Len(p)
          <5>1. Last(q) = p[Len(q)] /\ Len(q) \in 1 .. Len(p) - 1
            BY <1>3, <3>1, <4>1, <4>3, NextOnTheWay
          <5> QED BY <1>6, <1>12, <5>1
        <4> QED BY <1>6, <4>1, <4>2, <4>3 DEF Above
      <3> QED BY <1>12, <3>1, <3>2 DEF Reached, Hidden
    <2> QED BY <1>1, <1>2, <1>4, <1>5, <1>12, <2>1, <2>2 DEF Sought
  <1>13. CASE /\ v.pending = w.pending \ {q} /\ v.unread = w.unread \cup {q}
              /\ v.found = w.found /\ v.truncated = w.truncated
    <2>1. Apart(v)
      BY <1>4, <1>13, ApartDropped
    <2>2. ASSUME NEW p \in SearchablePaths, v.seen[Last(p)] = {"hit"}, ~v.truncated
          PROVE  Reached(v, p)
      <3>1. p \in Paths /\ Reached(w, p)
        BY <1>6, <1>13, <2>2
      <3> QED BY <1>13, <3>1, ReachedUnread
    <2> QED BY <1>1, <1>2, <1>4, <1>5, <1>13, <2>1, <2>2 DEF Sought
  <1> QED BY <1>8, <1>9, <1>10, <1>11, <1>12, <1>13, LookCases

-----------------------------------------------------------------------------
(* A file changes while a walk goes on. *)

LEMMA SawMore ==
  ASSUME NEW w \in Walks, NEW f \in Files, NEW state \in States, NEW v, v = Saw(w, f, state),
         NEW d \in [Files -> States], Current(w, d)
  PROVE  /\ v \in Walks /\ v.pending = w.pending /\ Current(v, [d EXCEPT ![f] = state])
         /\ Discovery(w) => Discovery(v)
         /\ Sought(w) => Sought(v)
  <1>1. w.seen \in [Files -> SUBSET States]
    BY DEF Walks
  <1> DEFINE seen == [w.seen EXCEPT ![f] = w.seen[f] \cup {state}]
  <1>2. /\ seen \in [Files -> SUBSET States]
        /\ \A g \in Files : w.seen[g] \subseteq seen[g]
        /\ state \in seen[f]
    BY <1>1
  <1>3. v = [w EXCEPT !.seen = seen]
    BY DEF Saw
  <1> HIDE DEF seen
  <1>4. /\ v \in Walks /\ v.seen = seen /\ v.pending = w.pending /\ v.found = w.found
        /\ v.truncated = w.truncated /\ v.unread = w.unread /\ v.depth = w.depth
    BY <1>2, <1>3 DEF Walks
  <1>5. Current(v, [d EXCEPT ![f] = state])
    BY <1>2, <1>4 DEF Current
  <1>6. \A g \in Files : Existed(w, g) => Existed(v, g)
    BY <1>2, <1>4 DEF Existed
  <1>7. Apart(w) => Apart(v)
    BY <1>4, ApartDropped
  <1>8. \A p : Reached(w, p) <=> Reached(v, p)
    BY <1>4 DEF Reached, Hidden
  <1>9. ASSUME Discovery(w)
        PROVE  Discovery(v)
    <2>1. ASSUME NEW p \in DiscoverablePaths[v.depth], "absent" \notin v.seen[Last(p)],
                 ~v.truncated
          PROVE  Reached(v, p)
      <3>1. "absent" \notin w.seen[Last(p)]
        <4>1. v.depth \in Depths
          BY <1>4, <1>9 DEF Discovery
        <4>2. Last(p) \in Files
          BY <2>1, <4>1, DiscoverableFacts
        <4> QED BY <1>2, <1>4, <2>1, <4>2
      <3> QED BY <1>4, <1>8, <1>9, <2>1, <3>1 DEF Discovery
    <2>2. \A p \in v.pending : Last(p) \in Files => Existed(v, Last(p))
      BY <1>4, <1>6, <1>9 DEF Discovery
    <2>3. \A i \in DOMAIN v.found : Last(v.found[i]) \in Files /\ Existed(v, Last(v.found[i]))
      BY <1>4, <1>6, <1>9 DEF Discovery
    <2>4. v.depth \in Depths /\ Apart(v) /\ Len(v.found) <= MaxFiles
      BY <1>4, <1>7, <1>9 DEF Discovery
    <2> QED BY <2>1, <2>2, <2>3, <2>4 DEF Discovery
  <1>10. ASSUME Sought(w)
         PROVE  Sought(v)
    <2>1. ASSUME NEW p \in SearchablePaths, v.seen[Last(p)] = {"hit"}, ~v.truncated
          PROVE  Reached(v, p)
      <3>1. Last(p) \in Files
        BY SearchableFacts
      <3>2. w.seen[Last(p)] = {"hit"}
        BY <1>2, <1>4, <2>1, <3>1 DEF Current
      <3> QED BY <1>4, <1>8, <1>10, <2>1, <3>2 DEF Sought
    <2>2. \A i \in DOMAIN v.found :
            Last(v.found[i]) \in Files /\ "hit" \in v.seen[Last(v.found[i])]
      BY <1>2, <1>4, <1>10 DEF Sought
    <2>3. /\ Apart(v)
          /\ Len(v.found) <= MaxResults \/ Len(v.found) = 1
          /\ v.pending = {} \/ Len(v.found) < MaxResults \/ Len(v.found) = 0
      BY <1>4, <1>7, <1>10 DEF Sought
    <2> QED BY <2>1, <2>2, <2>3 DEF Sought
  <1> QED BY <1>4, <1>5, <1>9, <1>10

-----------------------------------------------------------------------------
(* The invariant is one. *)

LEMMA NoWalkType == NoWalk \in Walks
  <1>1. [f \in Files |-> {}] \in [Files -> SUBSET States]
    OBVIOUS
  <1> QED BY <1>1 DEF NoWalk, Walks

LEMMA IdleOK ==
  /\ Idle \in Calls /\ \A d : CallOK(Idle, d)
  /\ Idle.age = 0 /\ Idle.skip = FALSE
  <1>1. Idle \in Calls
    BY NoWalkType DEF Idle, Calls, Phases
  <1>2. Idle.age = 0 /\ Idle.skip = FALSE /\ Idle.pc = "idle"
    BY DEF Idle
  <1>3. \A d : CallOK(Idle, d)
    BY <1>2 DEF CallOK, Walking, Discovering, Building, Searching
  <1> QED BY <1>1, <1>2, <1>3

LEMMA WInit == WorkspaceInit => WInv
  <1> SUFFICES ASSUME WorkspaceInit PROVE WInv
    OBVIOUS
  <1>1. Ttl \in Nat
    BY WorkspaceAssumption
  <1>2. cache = [walk |-> NoWalk, age |-> Ttl + 1]
    BY DEF WorkspaceInit, Nothing
  <1>3. cache \in Entries /\ ~(cache.age <= Ttl)
    BY <1>1, <1>2, NoWalkType DEF Entries
  <1>4. disk \in [Files -> States]
    BY DEF WorkspaceInit, States
  <1>5. job \in [Jobs -> Calls] /\ \A j \in Jobs : CallOK(job[j], disk)
    BY IdleOK DEF WorkspaceInit
  <1> QED BY <1>3, <1>4, <1>5 DEF WInv, TypeOK, CacheOK

\* One call's locals change, on the same files.
LEMMA CallChanges ==
  ASSUME WInv, NEW j \in Jobs, NEW x \in Calls, CallOK(x, disk),
         job' = [job EXCEPT ![j] = x], disk' = disk, cache' \in Entries, CacheOK'
  PROVE  WInv'
  <1>1. job \in [Jobs -> Calls] /\ disk \in [Files -> States]
    BY DEF WInv, TypeOK
  <1>2. job' \in [Jobs -> Calls]
    BY <1>1
  <1>3. ASSUME NEW k \in Jobs
        PROVE  CallOK(job'[k], disk')
    <2>1. CallOK(job[k], disk)
      BY DEF WInv
    <2>2. job'[k] = IF k = j THEN x ELSE job[k]
      BY <1>1
    <2> QED BY <2>1, <2>2
  <1> QED BY <1>1, <1>2, <1>3 DEF WInv, TypeOK

LEMMA WNext == WInv /\ [WorkspaceNext]_wsVars => WInv'
  <1> SUFFICES ASSUME WInv, [WorkspaceNext]_wsVars PROVE WInv'
    OBVIOUS
  <1>1. /\ TypeOK /\ disk \in [Files -> States] /\ cache \in Entries
        /\ job \in [Jobs -> Calls] /\ CacheOK /\ Ttl \in Nat
    BY WorkspaceAssumption DEF WInv, TypeOK
  <1>2. cache.walk \in Walks /\ cache.age \in Nat
    BY <1>1 DEF Entries
  <1>3. ASSUME NEW j \in Jobs
        PROVE  /\ job[j] \in Calls /\ job[j].walk \in Walks /\ CallOK(job[j], disk)
               /\ job[j].age \in Nat /\ job[j].skip \in BOOLEAN
    BY <1>1 DEF WInv, Calls
  <1>4. NoWalk \in Walks /\ Depths \subseteq Nat
    BY NoWalkType, WorkspaceAssumption
  <1>5. Nothing \in Entries /\ ~(Nothing.age <= Ttl)
    BY <1>1, <1>4 DEF Nothing, Entries
  <1>6. cache' = cache => cache' \in Entries /\ CacheOK'
    BY <1>1 DEF CacheOK
  <1>7. cache' = Nothing => cache' \in Entries /\ CacheOK'
    BY <1>5 DEF CacheOK
  <1>8. ASSUME NEW j \in Jobs, Build(j)
        PROVE  WInv'
    <2>1. PICK skip \in BOOLEAN :
            \/ /\ ~skip /\ Hit
               /\ job' = [job EXCEPT ![j] = [Idle EXCEPT !.pc = "building", !.walk = cache.walk,
                                                         !.age = cache.age]]
               /\ cache' = cache
            \/ /\ skip \/ ~Hit
               /\ \E depth \in Depths : \E walk \in Opened(depth) :
                    job' = [job EXCEPT ![j] = [Idle EXCEPT !.pc = "discovering", !.skip = skip,
                                                           !.walk = walk]]
               /\ cache' = IF skip THEN cache ELSE Nothing
      BY <1>8 DEF Build
    <2>2. disk' = disk
      BY <1>8 DEF Build
    <2>3. CASE /\ ~skip /\ Hit
               /\ job' = [job EXCEPT ![j] = [Idle EXCEPT !.pc = "building", !.walk = cache.walk,
                                                         !.age = cache.age]]
               /\ cache' = cache
      <3> DEFINE x == [Idle EXCEPT !.pc = "building", !.walk = cache.walk, !.age = cache.age]
      <3>1. x \in Calls
        BY <1>2, IdleOK DEF Calls, Phases
      <3>2. x.pc = "building" /\ x.walk = cache.walk /\ x.age = cache.age /\ x.skip = FALSE
        BY IdleOK DEF Calls
      <3>3. Discovery(cache.walk) /\ cache.walk.pending = {} /\ cache.age <= Ttl
        BY <1>1, <2>3 DEF CacheOK, Hit
      <3>4. job' = [job EXCEPT ![j] = x]
        BY <2>3
      <3> HIDE DEF x
      <3>5. CallOK(x, disk)
        BY <3>2, <3>3 DEF CallOK, Walking, Discovering, Building, Searching
      <3> QED BY <1>6, <2>2, <2>3, <3>1, <3>4, <3>5, CallChanges
    <2>4. CASE /\ skip \/ ~Hit
               /\ \E depth \in Depths : \E walk \in Opened(depth) :
                    job' = [job EXCEPT ![j] = [Idle EXCEPT !.pc = "discovering", !.skip = skip,
                                                           !.walk = walk]]
               /\ cache' = IF skip THEN cache ELSE Nothing
      <3>0. PICK depth \in Depths : \E walk \in Opened(depth) :
              job' = [job EXCEPT ![j] = [Idle EXCEPT !.pc = "discovering", !.skip = skip,
                                                     !.walk = walk]]
        BY <2>4
      <3>1. PICK walk \in Opened(depth) :
              job' = [job EXCEPT ![j] = [Idle EXCEPT !.pc = "discovering", !.skip = skip,
                                                     !.walk = walk]]
        BY <3>0
      <3> DEFINE x == [Idle EXCEPT !.pc = "discovering", !.skip = skip, !.walk = walk]
      <3>2. walk \in Walks /\ Discovery(walk) /\ Current(walk, disk)
        BY <1>1, <1>4, BegunWalk
      <3>3. x \in Calls
        BY <3>2, IdleOK DEF Calls, Phases
      <3>4. x.pc = "discovering" /\ x.walk = walk /\ x.age = 0
        BY IdleOK DEF Calls
      <3>5. job' = [job EXCEPT ![j] = x]
        BY <3>1
      <3>6. cache' \in Entries /\ CacheOK'
        BY <1>6, <1>7, <2>4
      <3> HIDE DEF x
      <3>7. CallOK(x, disk)
        BY <3>2, <3>4 DEF CallOK, Walking, Discovering, Building, Searching
      <3> QED BY <2>2, <3>3, <3>5, <3>6, <3>7, CallChanges
    <2> QED BY <2>1, <2>3, <2>4
  <1>9. ASSUME NEW j \in Jobs, DiscoverEntry(j)
        PROVE  WInv'
    <2>0. PICK path \in job[j].walk.pending :
            \E v \in Discover(job[j].walk, path) : Continue(j, v)
      BY <1>9 DEF DiscoverEntry
    <2>1. PICK v \in Discover(job[j].walk, path) : Continue(j, v)
      BY <2>0
    <2> DEFINE w == job[j].walk
    <2> DEFINE x == [job[j] EXCEPT !.walk = v]
    <2>2. job[j].pc = "discovering" /\ disk' = disk /\ cache' = cache
      BY <1>9 DEF DiscoverEntry
    <2>3. w \in Walks /\ Discovery(w) /\ Current(w, disk) /\ job[j].age = 0
      BY <1>3, <2>2 DEF CallOK, Walking, Discovering
    <2>4. v \in Walks /\ Discovery(v) /\ Current(v, disk)
      BY <1>1, <2>3, DiscoveryGoesOn
    <2>5. job' = [job EXCEPT ![j] = x]
      BY <2>1 DEF Continue
    <2> HIDE DEF w
    <2>6. x \in Calls /\ x.pc = "discovering" /\ x.walk = v /\ x.age = 0
      BY <1>3, <2>2, <2>3, <2>4 DEF Calls
    <2> HIDE DEF x
    <2>7. CallOK(x, disk)
      BY <2>4, <2>6 DEF CallOK, Walking, Discovering, Building, Searching
    <2> QED BY <1>6, <2>2, <2>5, <2>6, <2>7, CallChanges
  <1>10. ASSUME NEW j \in Jobs, Discovered(j)
         PROVE  WInv'
    <2> DEFINE x == [job[j] EXCEPT !.pc = "building"]
    <2>1. /\ job[j].pc = "discovering" /\ job[j].walk.pending = {} /\ disk' = disk
          /\ job' = [job EXCEPT ![j] = x]
          /\ cache' = IF job[j].skip THEN cache ELSE [walk |-> job[j].walk, age |-> 0]
      BY <1>10 DEF Discovered
    <2>2. Discovery(job[j].walk) /\ job[j].age = 0
      BY <1>3, <2>1 DEF CallOK, Discovering
    <2>3. x \in Calls /\ x.pc = "building" /\ x.walk = job[j].walk /\ x.age = 0
      BY <1>3, <2>1, <2>2 DEF Calls, Phases
    <2> HIDE DEF x
    <2>4. CallOK(x, disk)
      BY <1>1, <2>1, <2>2, <2>3 DEF CallOK, Walking, Discovering, Building, Searching
    <2>5. [walk |-> job[j].walk, age |-> 0] \in Entries
      BY <1>3 DEF Entries
    <2>6. cache' \in Entries /\ CacheOK'
      <3>1. CASE job[j].skip
        BY <1>6, <2>1, <3>1
      <3>2. CASE ~job[j].skip
        BY <2>1, <2>2, <2>5, <3>2 DEF CacheOK
      <3> QED BY <3>1, <3>2
    <2> QED BY <2>1, <2>3, <2>4, <2>6, CallChanges
  <1>11. ASSUME NEW j \in Jobs, BuildEnds(j)
         PROVE  WInv'
    <2> DEFINE x == [job[j] EXCEPT !.pc = "returned"]
    <2>1. /\ job[j].pc = "building" /\ disk' = disk /\ cache' = cache
          /\ job' = [job EXCEPT ![j] = x]
      BY <1>11 DEF BuildEnds
    <2>2. /\ x \in Calls /\ x.pc = "returned" /\ x.walk = job[j].walk /\ x.age = job[j].age
          /\ x.skip = job[j].skip
      BY <1>3 DEF Calls, Phases
    <2> HIDE DEF x
    <2>3. Building(job[j])
      BY <1>3 DEF CallOK
    <2>4. CallOK(x, disk)
      BY <2>1, <2>2, <2>3 DEF CallOK, Walking, Discovering, Building, Searching
    <2> QED BY <1>6, <2>1, <2>2, <2>4, CallChanges
  <1>12. ASSUME NEW j \in Jobs, Search(j)
         PROVE  WInv'
    <2>1. PICK walk \in Opened(0) :
            job' = [job EXCEPT ![j] = [Idle EXCEPT !.pc = "searching", !.walk = walk]]
      BY <1>12 DEF Search
    <2> DEFINE x == [Idle EXCEPT !.pc = "searching", !.walk = walk]
    <2>2. job' = [job EXCEPT ![j] = x] /\ disk' = disk /\ cache' = cache
      BY <1>12, <2>1 DEF Search
    <2>3. walk \in Walks /\ Sought(walk) /\ Current(walk, disk)
      BY <1>1, BegunWalk
    <2>4. x \in Calls
      BY <2>3, IdleOK DEF Calls, Phases
    <2>5. x.pc = "searching" /\ x.walk = walk
      BY IdleOK DEF Calls
    <2> HIDE DEF x
    <2>6. CallOK(x, disk)
      BY <2>3, <2>5 DEF CallOK, Walking, Discovering, Building, Searching
    <2> QED BY <1>6, <2>2, <2>4, <2>6, CallChanges
  <1>13. ASSUME NEW j \in Jobs, SearchEntry(j)
         PROVE  WInv'
    <2>0. PICK path \in job[j].walk.pending :
            \E v \in Look(job[j].walk, path) : Continue(j, v)
      BY <1>13 DEF SearchEntry
    <2>1. PICK v \in Look(job[j].walk, path) : Continue(j, v)
      BY <2>0
    <2> DEFINE w == job[j].walk
    <2> DEFINE x == [job[j] EXCEPT !.walk = v]
    <2>2. job[j].pc = "searching" /\ disk' = disk /\ cache' = cache
      BY <1>13 DEF SearchEntry
    <2>3. w \in Walks /\ Sought(w) /\ Current(w, disk)
      BY <1>3, <2>2 DEF CallOK, Walking, Searching
    <2>4. v \in Walks /\ Sought(v) /\ Current(v, disk)
      BY <1>1, <2>3, SearchGoesOn
    <2>5. job' = [job EXCEPT ![j] = x]
      BY <2>1 DEF Continue
    <2> HIDE DEF w
    <2>6. x \in Calls /\ x.pc = "searching" /\ x.walk = v
      BY <1>3, <2>2, <2>4 DEF Calls
    <2> HIDE DEF x
    <2>7. CallOK(x, disk)
      BY <2>4, <2>6 DEF CallOK, Walking, Discovering, Building, Searching
    <2> QED BY <1>6, <2>2, <2>5, <2>6, <2>7, CallChanges
  <1>14. ASSUME NEW j \in Jobs, SearchEnds(j)
         PROVE  WInv'
    <2> DEFINE x == [job[j] EXCEPT !.pc = "searched"]
    <2>1. /\ job[j].pc = "searching" /\ job[j].walk.pending = {} /\ disk' = disk
          /\ cache' = cache /\ job' = [job EXCEPT ![j] = x]
      BY <1>14 DEF SearchEnds
    <2>2. Sought(job[j].walk)
      BY <1>3, <2>1 DEF CallOK, Searching
    <2>3. x \in Calls /\ x.pc = "searched" /\ x.walk = job[j].walk
      BY <1>3 DEF Calls, Phases
    <2> HIDE DEF x
    <2>4. CallOK(x, disk)
      BY <2>1, <2>2, <2>3 DEF CallOK, Walking, Discovering, Building, Searching
    <2> QED BY <1>6, <2>1, <2>3, <2>4, CallChanges
  <1>15. ASSUME NEW f \in Files, Touch(f)
         PROVE  WInv'
    <2>1. PICK state \in Kinds \ {disk[f]} :
            /\ disk' = [disk EXCEPT ![f] = state]
            /\ job' = [j \in Jobs |->
                 IF job[j].pc \in {"discovering", "searching"}
                   THEN [job[j] EXCEPT !.walk = Saw(job[j].walk, f, state)] ELSE job[j]]
      BY <1>15 DEF Touch
    <2>2. cache' = cache /\ disk' \in [Files -> States] /\ state \in States
      BY <1>1, <1>15, <2>1 DEF Touch, Kinds, States
    <2>3. ASSUME NEW j \in Jobs
          PROVE  job'[j] \in Calls /\ CallOK(job'[j], disk')
      <3>1. CASE job[j].pc \in {"discovering", "searching"}
        <4> DEFINE w == job[j].walk
        <4> DEFINE v == Saw(w, f, state)
        <4> DEFINE x == [job[j] EXCEPT !.walk = v]
        <4>1. job'[j] = x
          BY <2>1, <3>1
        <4>2. w \in Walks /\ Current(w, disk)
          BY <1>3, <3>1 DEF CallOK, Walking
        <4>3. /\ v \in Walks /\ Current(v, [disk EXCEPT ![f] = state])
              /\ Discovery(w) => Discovery(v)
              /\ Sought(w) => Sought(v)
          <5> HIDE DEF w
          <5> QED BY <1>1, <2>2, <4>2, SawMore
        <4>4. /\ job[j].pc = "discovering" => Discovery(w) /\ job[j].age = 0
              /\ job[j].pc = "searching" => Sought(w)
          BY <1>3 DEF CallOK, Discovering, Searching
        <4> HIDE DEF w, v
        <4>5. x \in Calls /\ x.pc = job[j].pc /\ x.walk = v /\ x.age = job[j].age
          BY <1>3, <4>3 DEF Calls
        <4> HIDE DEF x
        <4>6. Current(v, disk')
          BY <2>1, <4>3
        <4> QED BY <3>1, <4>1, <4>3, <4>4, <4>5, <4>6
                DEF CallOK, Walking, Discovering, Building, Searching
      <3>2. CASE job[j].pc \notin {"discovering", "searching"}
        <4>1. job'[j] = job[j]
          BY <2>1, <3>2
        <4> QED BY <1>3, <3>2, <4>1 DEF CallOK, Walking
      <3> QED BY <3>1, <3>2
    <2>4. job' \in [Jobs -> Calls]
      <3>1. DOMAIN job' = Jobs /\ job' = [j \in Jobs |-> job'[j]]
        BY <2>1
      <3> QED BY <2>3, <3>1
    <2> QED BY <1>6, <2>2, <2>3, <2>4 DEF WInv, TypeOK
  <1>16. ASSUME UNCHANGED <<disk, job>>, cache' \in Entries, CacheOK'
         PROVE  WInv'
    BY <1>1, <1>3, <1>16 DEF WInv, TypeOK
  <1>17. CASE Invalidate
    BY <1>7, <1>16, <1>17 DEF Invalidate
  <1>18. CASE Tick
    <2>1. cache' = [cache EXCEPT !.age = cache.age + 1]
      BY <1>18 DEF Tick
    <2>2. cache' \in Entries /\ cache'.walk = cache.walk /\ cache'.age = cache.age + 1
      BY <1>1, <1>2, <2>1 DEF Entries
    <2>3. CacheOK'
      BY <1>1, <1>2, <2>2 DEF CacheOK
    <2> QED BY <1>16, <1>18, <2>2, <2>3 DEF Tick
  <1>19. CASE UNCHANGED wsVars
    BY <1>6, <1>16, <1>19 DEF wsVars
  <1> QED BY <1>8, <1>9, <1>10, <1>11, <1>12, <1>13, <1>14, <1>15, <1>17, <1>18, <1>19 DEF WorkspaceNext

-----------------------------------------------------------------------------
(* What the runs check. *)

\* The types of what is kept and of every call's locals.
THEOREM TypeCorrect == WorkspaceSpec => []TypeOK
  <1>1. WInv => TypeOK
    BY DEF WInv
  <1> QED BY <1>1, WInit, WNext, PTL DEF WorkspaceSpec

\* What a walk has reached when nothing is left it has found.
LEMMA ReachedAll ==
  ASSUME NEW w, NEW p, Reached(w, p), w.pending = {}
  PROVE  p \in Range(w.found) \/ Hidden(w, p)
  BY DEF Reached

\* A snapshot is of its time: what build returns is of a discovery that ended
\* at most the ttl before, has no file that never was there and lacks none that
\* always was (file-discovery.ts 65-148, repository-context-builder.ts 53-112,
\* context-cache.ts 29-44).
THEOREM SnapshotCorrect == WorkspaceSpec => []SnapshotIsOfItsTime
  <1>1. ASSUME WInv
        PROVE  SnapshotIsOfItsTime
    <2>1. SUFFICES ASSUME NEW j \in Jobs, job[j].pc = "returned"
                   PROVE  LET w == job[j].walk
                          IN /\ job[j].age <= Ttl /\ (job[j].skip => job[j].age = 0)
                             /\ IsInjective(w.found) /\ Len(w.found) <= MaxFiles
                             /\ \A i \in DOMAIN w.found : w.seen[Last(w.found[i])] # {"absent"}
                             /\ w.truncated \/ \A p \in DiscoverablePaths[w.depth] :
                                  "absent" \notin w.seen[Last(p)] =>
                                    p \in Range(w.found) \/ Hidden(w, p)
      BY DEF SnapshotIsOfItsTime
    <2> DEFINE w == job[j].walk
    <2>2. Building(job[j])
      BY <1>1 DEF WInv, CallOK
    <2>3. /\ Discovery(w) /\ w.pending = {}
          /\ job[j].age <= Ttl /\ (job[j].skip => job[j].age = 0)
      BY <2>1, <2>2 DEF Building
    <2> HIDE DEF w
    <2>4. IsInjective(w.found) /\ Len(w.found) <= MaxFiles
      BY <2>3 DEF Discovery, Apart
    <2>5. \A i \in DOMAIN w.found : w.seen[Last(w.found[i])] # {"absent"}
      BY <2>3 DEF Discovery, Existed
    <2>6. w.truncated \/ \A p \in DiscoverablePaths[w.depth] :
            "absent" \notin w.seen[Last(p)] => p \in Range(w.found) \/ Hidden(w, p)
      BY <2>3, ReachedAll DEF Discovery
    <2> QED BY <2>3, <2>4, <2>5, <2>6 DEF w
  <1> QED BY <1>1, WInit, WNext, PTL DEF WorkspaceSpec

\* A search is honest: it reports what was there, once, and all that was if it
\* does not say it was cut short (file-search.service.ts 121-215).
THEOREM SearchCorrect == WorkspaceSpec => []SearchIsHonest
  <1>1. ASSUME WInv
        PROVE  SearchIsHonest
    <2>1. SUFFICES ASSUME NEW j \in Jobs, job[j].pc = "searched"
                   PROVE  LET w == job[j].walk
                          IN /\ IsInjective(w.found)
                             /\ Len(w.found) <= MaxResults \/ Len(w.found) = 1
                             /\ \A i \in DOMAIN w.found : "hit" \in w.seen[Last(w.found[i])]
                             /\ w.truncated \/ \A p \in SearchablePaths :
                                  w.seen[Last(p)] = {"hit"} =>
                                    p \in Range(w.found) \/ Hidden(w, p)
      BY DEF SearchIsHonest
    <2> DEFINE w == job[j].walk
    <2>2. Sought(w) /\ w.pending = {}
      BY <1>1, <2>1 DEF WInv, CallOK, Searching
    <2> HIDE DEF w
    <2>3. /\ IsInjective(w.found)
          /\ Len(w.found) <= MaxResults \/ Len(w.found) = 1
          /\ \A i \in DOMAIN w.found : "hit" \in w.seen[Last(w.found[i])]
      BY <2>2 DEF Sought, Apart
    <2>4. w.truncated \/ \A p \in SearchablePaths :
            w.seen[Last(p)] = {"hit"} => p \in Range(w.found) \/ Hidden(w, p)
      BY <2>2, ReachedAll DEF Sought
    <2> QED BY <2>3, <2>4 DEF w
  <1> QED BY <1>1, WInit, WNext, PTL DEF WorkspaceSpec
==============================================================================
