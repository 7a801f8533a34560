------------------------- MODULE SimulatorCliProofs -------------------------
(***************************************************************************)
(* Theorems about generate_project and about one process of the simulator  *)
(* generator, for every set of well-formed documents, every clock and      *)
(* reset and every file system: generate_project spares what it did not    *)
(* create and leaves a whole project, the process keeps these promises,    *)
(* and parsing keeps the statements of the hierarchy, in order, and one    *)
(* edge for all of them.                                                   *)
(*                                                                         *)
(* The argument for parsing: the passes over the scopes stay inside of     *)
(* every set that is closed under "below" and has the roots, and end with  *)
(* such a set, so they end with the hierarchy; after k blocks a list is    *)
(* the concatenation of what the first k blocks have for it.               *)
(***************************************************************************)
EXTENDS SimulatorCli, RecursionFacts, SequenceTheorems, FiniteSetTheorems

-----------------------------------------------------------------------------
(* Paths.                                                                  *)

LEMMA PrefixFacts ==
  ASSUME NEW p \in Paths, NEW n \in 0 .. Len(p)
  PROVE  /\ Prefix(p, n) \in Paths /\ Len(Prefix(p, n)) = n
         /\ DOMAIN Prefix(p, n) = 1 .. n
         /\ \A i \in 1 .. n : Prefix(p, n)[i] = p[i]
         /\ Prefix(p, Len(p)) = p /\ Prefix(p, 0) = <<>>
<1>1. p \in Seq(Names) /\ Len(p) \in Nat /\ n \in Nat /\ n <= Len(p)
  BY DEF Paths
<1>2. \A i \in 1 .. n : p[i] \in Names
  BY <1>1, ElementOfSeq
<1>3. /\ SubSeq(p, 1, n) \in Seq(Names)
      /\ Len(SubSeq(p, 1, n)) = IF 1 <= n THEN n - 1 + 1 ELSE 0
      /\ \A i \in 1 .. n - 1 + 1 : SubSeq(p, 1, n)[i] = p[1 + i - 1]
  BY <1>1, <1>2, SubSeqProperties
<1>4. SubSeq(p, 1, Len(p)) = p /\ SubSeq(p, 1, 0) = <<>>
  BY <1>1, SubSeqFull, SubSeqEmpty
<1> DEFINE q == SubSeq(p, 1, n)
<1>5. Len(q) = n /\ q \in Seq(Names)
  BY <1>1, <1>3
<1>6. \A i \in 1 .. n : i \in 1 .. n - 1 + 1 /\ 1 + i - 1 = i
  BY <1>1
<1>7. \A i \in 1 .. n : q[i] = p[i]
  BY <1>3, <1>6
<1> HIDE DEF q
<1>8. DOMAIN q = 1 .. n
  BY <1>5, LenProperties
<1> QED BY <1>4, <1>5, <1>7, <1>8 DEF Prefix, Paths, q

LEMMA FrontFacts ==
  ASSUME NEW p \in Paths, p # <<>>
  PROVE  /\ Len(p) \in Nat \ {0} /\ Len(p) - 1 \in 0 .. Len(p)
         /\ Front(p) = Prefix(p, Len(p) - 1) /\ Front(p) \in Paths
         /\ Len(Front(p)) = Len(p) - 1
         /\ \A i \in 1 .. Len(p) - 1 : Front(p)[i] = p[i]
<1>1. Len(p) \in Nat \ {0} /\ Len(p) - 1 \in 0 .. Len(p)
  <2>1. Len(p) \in Nat /\ Len(p) # 0
    BY EmptySeq DEF Paths
  <2> QED BY <2>1
<1>2. Front(p) = Prefix(p, Len(p) - 1)
  BY DEF Front, Prefix
<1> QED BY <1>1, <1>2, PrefixFacts

LEMMA AppendFacts ==
  ASSUME NEW p \in Paths, NEW c \in Names
  PROVE  /\ Append(p, c) \in Paths /\ Append(p, c) # <<>>
         /\ Len(Append(p, c)) = Len(p) + 1
         /\ \A i \in 1 .. Len(p) : Append(p, c)[i] = p[i]
         /\ Append(p, c)[Len(p) + 1] = c
         /\ \A n \in 0 .. Len(p) : Prefix(Append(p, c), n) = Prefix(p, n)
         /\ Front(Append(p, c)) = p
<1> DEFINE q == Append(p, c)
<1>1. /\ q \in Paths /\ q # <<>>
      /\ Len(q) = Len(p) + 1 /\ Len(p) \in Nat
      /\ \A i \in 1 .. Len(p) : q[i] = p[i]
      /\ q[Len(p) + 1] = c
  <2>1. p \in Seq(Names) /\ Len(p) \in Nat
    BY DEF Paths
  <2> HIDE DEF q
  <2>2. /\ q \in Seq(Names) /\ q # <<>> /\ Len(q) = Len(p) + 1
        /\ \A i \in 1 .. Len(p) : q[i] = p[i]
        /\ q[Len(p) + 1] = c
    <3>1. /\ q \in Seq(Names) /\ Len(q) = Len(p) + 1
          /\ \A i \in 1 .. Len(p) : q[i] = p[i]
          /\ q[Len(p) + 1] = c
      BY <2>1 DEF q
    <3>2. q # <<>>
      BY <2>1, <3>1, EmptySeq
    <3> QED BY <3>1, <3>2
  <2> QED BY <2>1, <2>2 DEF Paths
<1> HIDE DEF q
<1>2. ASSUME NEW n \in 0 .. Len(p) PROVE Prefix(q, n) = Prefix(p, n)
  <2>1. n \in 0 .. Len(q) /\ \A i \in 1 .. n : i \in 1 .. Len(p)
    BY <1>1
  <2>2. /\ Prefix(q, n) \in Seq(Names) /\ Prefix(p, n) \in Seq(Names)
        /\ Len(Prefix(q, n)) = n /\ Len(Prefix(p, n)) = n
        /\ \A i \in 1 .. n : Prefix(q, n)[i] = q[i] /\ Prefix(p, n)[i] = p[i]
    BY <1>1, <2>1, PrefixFacts DEF Paths
  <2> QED BY <1>1, <2>1, <2>2, SeqEqual
<1>3. Front(q) = p
  <2>1. Len(p) \in 0 .. Len(p) /\ Len(q) - 1 = Len(p)
    BY <1>1
  <2>2. Front(q) = Prefix(q, Len(p))
    BY <1>1, <2>1, FrontFacts
  <2> QED BY <1>2, <2>1, <2>2, PrefixFacts
<1> QED BY <1>1, <1>2, <1>3 DEF q

-----------------------------------------------------------------------------
(* Resolving a path, component by component.                               *)

LEMMA PlacesArePaths == Places \subseteq Paths
BY SeqMonotonic DEF Places, Paths

LEMMA LinksType ==
  \A l \in DOMAIN Links : Links[l] \in Paths /\ l \in Paths /\ l # <<>>
BY LinksLeadToDirectories, DirectoriesAreNested, PlacesArePaths

LEMMA WalkType ==
  ASSUME NEW at \in Paths, NEW c \in Names
  PROVE  Walk(at, c) \in Paths
<1>1. Parent(at) \in Paths
  BY FrontFacts DEF Parent
<1>2. Append(at, c) \in Paths
  BY AppendFacts
<1>3. \A p \in Paths : Follow(p) \in Paths
  BY LinksType DEF Follow
<1> QED BY <1>1, <1>2, <1>3 DEF Walk

WalksBy(f, p) ==
  f = [s \in SUBSET DOMAIN p |->
         IF s = {} THEN <<>> ELSE LET x == Max(s) IN Walk(f[s \ {x}], p[x])]

IsWalk(g, p) ==
  /\ g \in [0 .. Len(p) -> Paths]
  /\ g[0] = <<>>
  /\ \A k \in 1 .. Len(p) : g[k] = Walk(g[k - 1], p[k])

\* Resolve goes from the first component to the last.
LEMMA WalkExists ==
  ASSUME NEW p \in Paths
  PROVE  \E g : IsWalk(g, p) /\ Resolve(p) = g[Len(p)]
<1> DEFINE n == Len(p)
           G == [i \in 1 .. n |-> [at \in Paths |-> Walk(at, p[i])]]
           h == CHOOSE f : WalksBy(f, p)
           g == [k \in 0 .. n |-> h[1 .. k]]
<1>1. n \in Nat /\ DOMAIN p = 1 .. n /\ \A i \in 1 .. n : p[i] \in Names
  BY DEF Paths
<1>2. Resolve(p) = h[1 .. n]
  BY <1>1 DEF Resolve, FoldLeft, MapThenFoldSet, WalksBy
<1>e. <<>> \in Paths
  BY DEF Paths
<1>3. WalksBy(h, p)
  <2>1. G \in Steps(n, Paths)
    BY <1>1, WalkType DEF Steps
  <2>2. PICK f \in [SUBSET (1 .. n) -> Paths] : FoldsBy(f, n, <<>>, G)
    <3> HIDE DEF G, n
    <3> QED BY <1>1, <1>e, <2>1, FoldExists
  <2>3. ASSUME NEW s \in SUBSET (1 .. n), s # {}
        PROVE  Max(s) \in s /\ Max(s) \in 1 .. n /\ s \ {Max(s)} \in SUBSET (1 .. n)
    <3>1. \E x \in s : \A y \in s : x >= y
      BY <1>1, <2>3, LargestInside
    <3>2. Max(s) \in s
      BY <3>1 DEF Max
    <3> QED BY <3>2
  <2>4. f = [s \in SUBSET (1 .. n) |->
               IF s = {} THEN <<>> ELSE Walk(f[s \ {Max(s)}], p[Max(s)])]
    <3>1. ASSUME NEW s \in SUBSET (1 .. n), s # {}
          PROVE  G[Max(s)][f[s \ {Max(s)}]] = Walk(f[s \ {Max(s)}], p[Max(s)])
      <4>1. f[s \ {Max(s)}] \in Paths
        BY <2>2, <2>3, <3>1
      <4> QED BY <2>3, <3>1, <4>1
    <3> HIDE DEF G
    <3> QED BY <2>2, <3>1 DEF FoldsBy
  <2>5. WalksBy(f, p)
    BY <1>1, <2>4 DEF WalksBy
  <2> QED BY <2>5
<1> HIDE DEF h
<1>4. g[0] = <<>>
  <2>1. 1 .. 0 = {} /\ {} \in SUBSET DOMAIN p
    OBVIOUS
  <2>2. h[{}] = <<>>
    BY <1>3, <2>1 DEF WalksBy
  <2> QED BY <1>1, <2>1, <2>2
<1>5. ASSUME NEW k \in 1 .. n
      PROVE  g[k] = Walk(g[k - 1], p[k])
  <2>1. Max(1 .. k) = k /\ (1 .. k) \ {k} = 1 .. k - 1 /\ 1 .. k # {}
    BY LargestPosition
  <2>2. 1 .. k \in SUBSET DOMAIN p
    BY <1>1
  <2>3. h[1 .. k] = Walk(h[1 .. k - 1], p[k])
    BY <1>3, <2>1, <2>2 DEF WalksBy
  <2>4. k - 1 \in 0 .. n /\ k \in 0 .. n
    BY <1>1
  <2> QED BY <2>3, <2>4
<1>6. \A k \in 0 .. n : g[k] \in Paths
  <2>1. \A k \in 1 .. n : g[k - 1] \in Paths => g[k] \in Paths
    <3> HIDE DEF g
    <3> QED BY <1>1, <1>5, WalkType
  <2>2. n \in Nat /\ g[0] \in Paths
    BY <1>1, <1>4, <1>e
  <2> HIDE DEF g, n, G
  <2> QED BY ONLY <2>1, <2>2, IterationInvariant
<1>7. g \in [0 .. n -> Paths] /\ Resolve(p) = g[n]
  <2>1. n \in 0 .. n
    BY <1>1
  <2> QED BY <1>2, <1>6, <2>1
<1> HIDE DEF g
<1> QED BY <1>4, <1>5, <1>7 DEF IsWalk

\* The walk along a path is determined by it.
LEMMA WalksAgree ==
  ASSUME NEW p \in Paths, NEW g, g[0] = <<>>,
         \A k \in 1 .. Len(p) : g[k] = Walk(g[k - 1], p[k])
  PROVE  Resolve(p) = g[Len(p)]
<1> DEFINE n == Len(p)
<1>1. PICK f : IsWalk(f, p) /\ Resolve(p) = f[n]
  BY WalkExists
<1>2. n \in Nat
  BY DEF Paths
<1> DEFINE S == {k \in Nat : k <= n => f[k] = g[k]}
<1>3. 0 \in S
  BY <1>1 DEF IsWalk
<1>4. \A k \in S \cap Nat : k + 1 \in S
  <2> SUFFICES ASSUME NEW k \in Nat, k \in S, k + 1 <= n PROVE f[k + 1] = g[k + 1]
    OBVIOUS
  <2>1. k + 1 \in 1 .. n /\ (k + 1) - 1 = k
    OBVIOUS
  <2>2. f[k + 1] = Walk(f[k], p[k + 1]) /\ g[k + 1] = Walk(g[k], p[k + 1])
    BY <1>1, <2>1 DEF IsWalk
  <2>3. f[k] = g[k]
    BY <1>2
  <2> QED BY <2>2, <2>3
<1>5. Nat \subseteq S
  <2> HIDE DEF S
  <2> QED BY <1>3, <1>4, NaturalsInSet
<1>6. n \in S
  BY <1>2, <1>5
<1> QED BY <1>1, <1>2, <1>6

LEMMA ResolveFacts ==
  ASSUME NEW p \in Paths
  PROVE  /\ Resolve(Prefix(p, 0)) = <<>> /\ Prefix(p, Len(p)) = p
         /\ \A n \in 0 .. Len(p) : Resolve(Prefix(p, n)) \in Paths
         /\ \A n \in 1 .. Len(p) :
              Resolve(Prefix(p, n)) = Walk(Resolve(Prefix(p, n - 1)), p[n])
<1>1. PICK g : IsWalk(g, p)
  BY WalkExists
<1>2. Len(p) \in Nat
  BY DEF Paths
<1>3. ASSUME NEW n \in 0 .. Len(p) PROVE Resolve(Prefix(p, n)) = g[n]
  <2>1. /\ Prefix(p, n) \in Paths /\ Len(Prefix(p, n)) = n
        /\ \A i \in 1 .. n : Prefix(p, n)[i] = p[i]
    BY PrefixFacts
  <2>2. \A k \in 1 .. n : k \in 1 .. Len(p)
    BY <1>2
  <2>3. g[0] = <<>> /\ \A k \in 1 .. n : g[k] = Walk(g[k - 1], Prefix(p, n)[k])
    BY <1>1, <2>1, <2>2 DEF IsWalk
  <2> QED BY <2>1, <2>3, WalksAgree
<1>4. 0 \in 0 .. Len(p) /\ \A n \in 1 .. Len(p) : n \in 0 .. Len(p) /\ n - 1 \in 0 .. Len(p)
  BY <1>2
<1>5. Prefix(p, Len(p)) = p
  BY <1>4, PrefixFacts
<1> QED BY <1>1, <1>3, <1>4, <1>5 DEF IsWalk

LEMMA ResolveType ==
  ASSUME NEW p \in Paths
  PROVE  Resolve(p) \in Paths
<1>1. Len(p) \in 0 .. Len(p)
  BY DEF Paths
<1> QED BY <1>1, ResolveFacts

LEMMA ResolveAppend ==
  ASSUME NEW p \in Paths, NEW c \in Names
  PROVE  Resolve(Append(p, c)) = Walk(Resolve(p), c)
<1> DEFINE q == Append(p, c)
<1>1. /\ q \in Paths /\ Len(q) = Len(p) + 1 /\ q[Len(p) + 1] = c
      /\ Prefix(q, Len(p)) = Prefix(p, Len(p)) /\ Len(p) \in Nat
  <2>1. Len(p) \in 0 .. Len(p) /\ Len(p) \in Nat
    BY DEF Paths
  <2> QED BY <2>1, AppendFacts
<1> HIDE DEF q
<1>2. Len(p) + 1 \in 1 .. Len(q) /\ (Len(p) + 1) - 1 = Len(p)
  BY <1>1
<1>3. Resolve(Prefix(q, Len(q))) = Walk(Resolve(Prefix(q, Len(p))), c)
  BY <1>1, <1>2, ResolveFacts
<1> QED BY <1>1, <1>3, ResolveFacts DEF q

LEMMA TwoNames ==
  ASSUME NEW S, NEW c \in S, NEW d \in S
  PROVE  <<c>> \in Seq(S) /\ <<d>> \in Seq(S) /\ <<c>> \o <<d>> = <<c, d>>
<1> DEFINE one == <<c>>
           other == <<d>>
           q == one \o other
           r == <<c, d>>
<1>1. one \in Seq(S) /\ other \in Seq(S) /\ Len(one) = 1 /\ Len(other) = 1
      /\ one[1] = c /\ other[1] = d
  OBVIOUS
<1>2. r \in Seq(S) /\ Len(r) = 2 /\ r[1] = c /\ r[2] = d
  OBVIOUS
<1> HIDE DEF one, other, r
<1>3. q \in Seq(S) /\ Len(q) = 2 /\ q[1] = c /\ q[2] = d
  <2>1. /\ q \in Seq(S) /\ Len(q) = Len(one) + Len(other)
        /\ \A i \in 1 .. Len(one) + Len(other) :
             q[i] = IF i <= Len(one) THEN one[i] ELSE other[i - Len(one)]
    BY <1>1, ConcatProperties
  <2> QED BY <1>1, <2>1
<1> HIDE DEF q
<1>4. \A i \in 1 .. Len(q) : q[i] = r[i]
  BY <1>2, <1>3
<1>5. q = r
  BY <1>2, <1>3, <1>4, SeqEqual
<1> QED BY <1>1, <1>5 DEF one, other, q, r

LEMMA AppendTwo ==
  ASSUME NEW p \in Paths, NEW c \in Names, NEW d \in Names
  PROVE  p \o <<c>> = Append(p, c) /\ p \o <<c, d>> = Append(Append(p, c), d)
<1>1. p \in Seq(Names) /\ <<c>> \in Seq(Names) /\ <<d>> \in Seq(Names)
  BY TwoNames DEF Paths
<1>2. Append(p, c) = p \o <<c>> /\ Append(p, c) \in Seq(Names)
  BY <1>1, AppendIsConcat, AppendFacts DEF Paths
<1>3. Append(Append(p, c), d) = (p \o <<c>>) \o <<d>>
  <2> DEFINE q == Append(p, c)
  <2>1. q \in Seq(Names) /\ q = p \o <<c>>
    BY <1>2
  <2> HIDE DEF q
  <2>2. Append(q, d) = q \o <<d>>
    BY <2>1, AppendIsConcat
  <2> QED BY <2>1, <2>2 DEF q
<1>4. (p \o <<c>>) \o <<d>> = p \o (<<c>> \o <<d>>)
  BY <1>1, ConcatAssociative
<1>5. <<c>> \o <<d>> = <<c, d>>
  BY TwoNames
<1> QED BY <1>2, <1>3, <1>4, <1>5

\* The paths of the files of a project.
LEMMA ProjectParts ==
  /\ Len(ProjectFiles) = 6 /\ DOMAIN ProjectFiles = 1 .. 6
  /\ \A k \in 1 .. 6 :
       \E c \in Names \ {".."}, d \in Names \ {".."} :
         ProjectFiles[k] = <<c>> \/ (c = "src" /\ ProjectFiles[k] = <<c, d>>)
<1>1. Len(ProjectFiles) = 6 /\ DOMAIN ProjectFiles = 1 .. 6 /\ ProjectFiles[1] = <<"Cargo.toml">>
  BY DEF ProjectFiles
<1>2. /\ ProjectFiles[2] = <<"src", "lib.rs">> /\ ProjectFiles[3] = <<"src", "types.rs">>
      /\ ProjectFiles[4] = <<"src", "input.rs">> /\ ProjectFiles[5] = <<"src", "output.rs">>
      /\ ProjectFiles[6] = <<"src", "state.rs">>
  BY DEF ProjectFiles
<1>3. \A k \in 1 .. 6 : k = 1 \/ k = 2 \/ k = 3 \/ k = 4 \/ k = 5 \/ k = 6
  OBVIOUS
<1>4. \A a, b, c, d, e, f, g, n : {a, b, c, d, e, f, g} \subseteq n => a \in n /\ b \in n
        /\ c \in n /\ d \in n /\ e \in n /\ f \in n /\ g \in n
  OBVIOUS
<1>5. /\ "Cargo.toml" \in Names \ {".."} /\ "src" \in Names \ {".."} /\ "lib.rs" \in Names \ {".."}
      /\ "types.rs" \in Names \ {".."} /\ "input.rs" \in Names \ {".."}
      /\ "output.rs" \in Names \ {".."} /\ "state.rs" \in Names \ {".."}
  BY <1>4, ProjectIsNamed, Zenon
<1> QED BY <1>1, <1>2, <1>3, <1>5

LEMMA SourceParts ==
  ASSUME NEW o \in Paths
  PROVE  /\ SourceDir(o) \in Paths /\ Len(SourceDir(o)) = Len(o) + 1 /\ Len(o) \in Nat
         /\ Prefix(SourceDir(o), Len(o)) = o /\ Prefix(SourceDir(o), Len(o) + 1) = SourceDir(o)
<1> DEFINE c == "src"
<1>1. c \in Names
  BY ProjectIsNamed
<1> HIDE DEF c
<1> DEFINE q == Append(o, c)
<1>2. q \in Paths /\ Len(q) = Len(o) + 1 /\ Len(o) \in Nat
  BY <1>1, AppendFacts DEF Paths
<1>3. Len(o) \in 0 .. Len(o) /\ Len(q) \in 0 .. Len(q)
  BY <1>2
<1>4. Prefix(q, Len(o)) = o
  BY <1>1, <1>3, AppendFacts, PrefixFacts
<1>5. Prefix(q, Len(q)) = q
  BY <1>2, <1>3, PrefixFacts
<1>6. SourceDir(o) = q
  BY <1>1, AppendTwo DEF SourceDir, c
<1> QED BY <1>2, <1>4, <1>5, <1>6

-----------------------------------------------------------------------------
(* File systems.                                                           *)

\* Every directory and every file is in a directory; no two of directories,
\* files and links have the same path.
FsOK(ds, fs) ==
  /\ ds \subseteq Places /\ <<>> \in ds
  /\ \A d \in ds : d # <<>> => Front(d) \in ds
  /\ \A l \in DOMAIN Links : l \notin ds /\ Front(l) \in ds /\ Links[l] \in ds
  /\ DOMAIN fs \subseteq Places
  /\ \A f \in DOMAIN fs :
       f # <<>> /\ f \notin ds /\ f \notin DOMAIN Links /\ Front(f) \in ds
  /\ RuntimeDir \in ds

\* There is nothing at the path, and nothing below it.
Fresh(at, ds, fs) ==
  \A p \in ds \cup DOMAIN fs \cup DOMAIN Links : p # <<>> => Front(p) # at

LEMMA ParentIsThere ==
  ASSUME NEW ds, NEW fs, FsOK(ds, fs), NEW at \in ds
  PROVE  Parent(at) \in ds
BY DEF FsOK, Parent

\* A step from a directory leads to a directory or to a place that is no link.
LEMMA WalkLeads ==
  ASSUME NEW ds, NEW fs, FsOK(ds, fs), NEW at \in ds, NEW c \in Names
  PROVE  \/ Walk(at, c) \in ds
         \/ /\ c # ".." /\ Walk(at, c) = Append(at, c)
            /\ Walk(at, c) \notin DOMAIN Links
            /\ Walk(at, c) \in Places /\ Walk(at, c) # <<>> /\ Front(Walk(at, c)) = at
<1>1. CASE c = ".."
  BY <1>1, ParentIsThere DEF Walk
<1>2. CASE c # ".." /\ Append(at, c) \in DOMAIN Links
  BY <1>2 DEF Walk, Follow, FsOK
<1>3. CASE c # ".." /\ Append(at, c) \notin DOMAIN Links
  <2>1. at \in Places /\ at \in Paths
    BY PlacesArePaths DEF FsOK
  <2>2. Append(at, c) # <<>> /\ Front(Append(at, c)) = at
    BY <2>1, AppendFacts
  <2>3. Append(at, c) \in Places
    <3>1. at \in Seq(Names \ {".."}) /\ c \in Names \ {".."}
      BY <1>3, <2>1 DEF Places
    <3> QED BY <3>1, AppendProperties DEF Places
  <2> QED BY <1>3, <2>2, <2>3 DEF Walk, Follow
<1> QED BY <1>1, <1>2, <1>3

\* A step from what is no directory leads to none, unless it is "..".
LEMMA WalkLost ==
  ASSUME NEW ds, NEW fs, FsOK(ds, fs), NEW at \in Paths, at \notin ds,
         NEW c \in Names, c # ".."
  PROVE  Walk(at, c) \notin ds
<1>1. Front(Append(at, c)) = at /\ Append(at, c) # <<>>
  BY AppendFacts
<1>2. Append(at, c) \notin DOMAIN Links
  BY <1>1 DEF FsOK
<1> QED BY <1>1, <1>2 DEF Walk, Follow, FsOK

\* A path goes on below its prefix.
LEMMA AppendExtends ==
  ASSUME NEW p \in Paths, NEW q \in Paths, IsPrefix(p, q), NEW c \in Names
  PROVE  IsPrefix(p, Append(q, c))
<1> DEFINE r == Append(q, c)
<1>1. Len(p) \in Nat /\ Len(q) \in Nat /\ Len(r) = Len(q) + 1 /\ r \in Paths
  BY AppendFacts DEF Paths
<1>2. Len(p) <= Len(q) /\ Prefix(p, Len(p)) = Prefix(q, Len(p))
  BY DEF IsPrefix, Prefix
<1>3. Len(p) \in 0 .. Len(q)
  BY <1>1, <1>2
<1>4. Prefix(r, Len(p)) = Prefix(q, Len(p))
  BY <1>3, AppendFacts
<1> HIDE DEF r
<1> QED BY <1>1, <1>2, <1>4 DEF IsPrefix, Prefix, r

\* Where there is nothing below a place, a step from it leads to a free one
\* with nothing below it.
LEMMA FreshBelow ==
  ASSUME NEW ds, NEW fs, FsOK(ds, fs), NEW at \in Paths, Fresh(at, ds, fs),
         NEW c \in Names \ {".."}
  PROVE  /\ Walk(at, c) = Append(at, c) /\ Walk(at, c) \in Paths
         /\ Walk(at, c) \notin DOMAIN fs /\ Fresh(Walk(at, c), ds, fs)
<1> DEFINE q == Append(at, c)
<1>1. Front(q) = at /\ q # <<>> /\ q \in Paths
  BY AppendFacts
<1> HIDE DEF q
<1>2. q \notin ds \cup DOMAIN fs \cup DOMAIN Links
  BY <1>1 DEF Fresh
<1>3. Walk(at, c) = q
  BY <1>2 DEF Walk, Follow, q
<1>4. Fresh(q, ds, fs)
  BY <1>2 DEF FsOK, Fresh
<1> QED BY <1>1, <1>2, <1>3, <1>4 DEF q

\* Where there is nothing below the output directory, none of the files is.
LEMMA LocatedFresh ==
  ASSUME NEW ds, NEW fs, FsOK(ds, fs), NEW o \in Paths,
         Fresh(Resolve(o), ds, fs), NEW k \in 1 .. 6
  PROVE  /\ Located(o, k) \notin DOMAIN fs
         /\ IsPrefix(Resolve(o), Located(o, k))
<1> DEFINE R == Resolve(o)
<1>1. PICK c \in Names \ {".."}, d \in Names \ {".."} :
        ProjectFiles[k] = <<c>> \/ ProjectFiles[k] = <<c, d>>
  BY ProjectParts
<1>2. R \in Paths /\ IsPrefix(R, R)
  BY ResolveType DEF IsPrefix, Paths
<1> DEFINE q == Walk(R, c)
<1>3. q = Append(R, c) /\ q \in Paths /\ q \notin DOMAIN fs /\ Fresh(q, ds, fs)
  BY <1>2, FreshBelow
<1>4. IsPrefix(R, q)
  BY <1>2, <1>3, AppendExtends
<1>5. Append(o, c) \in Paths /\ Resolve(Append(o, c)) = q
  BY AppendFacts, ResolveAppend
<1> HIDE DEF q
<1> DEFINE r == Walk(q, d)
<1>6. r = Append(q, d) /\ r \notin DOMAIN fs
  BY <1>3, FreshBelow
<1>7. IsPrefix(R, r)
  BY <1>2, <1>3, <1>4, <1>6, AppendExtends
<1>8. Resolve(Append(Append(o, c), d)) = r
  BY <1>5, ResolveAppend
<1> HIDE DEF r
<1>9. o \o <<c>> = Append(o, c) /\ o \o <<c, d>> = Append(Append(o, c), d)
  BY AppendTwo
<1>10. CASE ProjectFiles[k] = <<c>>
  <2>1. Located(o, k) = q
    BY <1>5, <1>9, <1>10 DEF Located
  <2> QED BY <1>3, <1>4, <2>1
<1>11. CASE ProjectFiles[k] = <<c, d>>
  <2>1. Located(o, k) = r
    BY <1>8, <1>9, <1>11 DEF Located
  <2> QED BY <1>6, <1>7, <2>1
<1> QED BY <1>1, <1>10, <1>11

\* A file of the project is one step from a directory once output/src exists.
LEMMA LocatedLeads ==
  ASSUME NEW ds, NEW o \in Paths, Resolve(o) \in ds, Resolve(SourceDir(o)) \in ds,
         NEW k \in 1 .. 6
  PROVE  \E at \in ds, c \in Names : Located(o, k) = Walk(at, c)
<1>1. PICK c \in Names \ {".."}, d \in Names \ {".."} :
        ProjectFiles[k] = <<c>> \/ (c = "src" /\ ProjectFiles[k] = <<c, d>>)
  BY ProjectParts
<1>2. /\ Append(o, c) \in Paths /\ Resolve(Append(o, c)) = Walk(Resolve(o), c)
      /\ o \o <<c>> = Append(o, c) /\ o \o <<c, d>> = Append(Append(o, c), d)
  BY AppendFacts, ResolveAppend, AppendTwo
<1>3. CASE ProjectFiles[k] = <<c>>
  <2>1. Located(o, k) = Walk(Resolve(o), c)
    BY <1>2, <1>3 DEF Located
  <2> QED BY <2>1
<1>4. CASE c = "src" /\ ProjectFiles[k] = <<c, d>>
  <2>1. SourceDir(o) = Append(o, c)
    BY <1>2, <1>4 DEF SourceDir
  <2>2. Resolve(Append(Append(o, c), d)) = Walk(Resolve(Append(o, c)), d)
    BY <1>2, ResolveAppend
  <2>3. Located(o, k) = Walk(Resolve(SourceDir(o)), d)
    BY <1>2, <1>4, <2>1, <2>2 DEF Located
  <2> QED BY <2>3
<1> QED BY <1>1, <1>3, <1>4

-----------------------------------------------------------------------------
(* What the steps of a run and of the user do to a file system.            *)

LEMMA DirectoryAdded ==
  ASSUME NEW ds, NEW fs, FsOK(ds, fs), NEW at \in ds, NEW c \in Names,
         Walk(at, c) \notin DOMAIN fs
  PROVE  FsOK(ds \cup {Walk(at, c)}, fs)
<1> DEFINE new == Walk(at, c)
<1>1. CASE new \in ds
  <2>1. ds \cup {new} = ds
    BY <1>1
  <2> QED BY <2>1
<1>2. CASE new \notin DOMAIN Links /\ new \in Places /\ new # <<>> /\ Front(new) = at
  <2> HIDE DEF new
  <2> QED BY <1>2 DEF FsOK, new
<1> QED BY <1>1, <1>2, WalkLeads

LEMMA FileAdded ==
  ASSUME NEW ds, NEW fs, FsOK(ds, fs), NEW path \in Places, path # <<>>, Front(path) \in ds,
         path \notin ds, path \notin DOMAIN Links, NEW gs, DOMAIN gs = DOMAIN fs \cup {path}
  PROVE  FsOK(ds, gs)
BY DEF FsOK

LEMMA ProjectFileAdded ==
  ASSUME NEW ds, NEW fs, FsOK(ds, fs), NEW o \in Paths, Resolve(o) \in ds,
         Resolve(SourceDir(o)) \in ds, NEW k \in 1 .. 6, Located(o, k) \notin ds,
         NEW gs, DOMAIN gs = DOMAIN fs \cup {Located(o, k)}
  PROVE  FsOK(ds, gs)
<1>1. PICK at \in ds, c \in Names : Located(o, k) = Walk(at, c)
  BY LocatedLeads
<1> DEFINE path == Located(o, k)
<1>2. path \notin DOMAIN Links /\ path \in Places /\ path # <<>> /\ Front(path) = at
  BY <1>1, WalkLeads
<1> HIDE DEF path
<1> QED BY <1>2, FileAdded DEF path

LEMMA FrontOfPrefix ==
  ASSUME NEW p \in Paths, NEW n \in 1 .. Len(p)
  PROVE  Prefix(p, n) # <<>> /\ Front(Prefix(p, n)) = Prefix(p, n - 1)
<1>1. Len(p) \in Nat /\ n \in 0 .. Len(p) /\ n - 1 \in 0 .. Len(p)
  BY DEF Paths
<1> DEFINE q == Prefix(p, n)
           r == Prefix(p, n - 1)
<1>2. q \in Paths /\ Len(q) = n /\ \A i \in 1 .. n : q[i] = p[i]
  BY <1>1, PrefixFacts
<1>3. r \in Paths /\ Len(r) = n - 1 /\ \A i \in 1 .. n - 1 : r[i] = p[i]
  BY <1>1, PrefixFacts
<1> HIDE DEF q, r
<1>4. q # <<>>
  BY <1>2
<1>5. /\ Front(q) \in Paths /\ Len(Front(q)) = n - 1
      /\ \A i \in 1 .. n - 1 : Front(q)[i] = q[i]
  BY <1>2, <1>4, FrontFacts
<1>6. \A i \in 1 .. n - 1 : Front(q)[i] = r[i]
  BY <1>2, <1>3, <1>5
<1>7. Front(q) = r
  BY <1>3, <1>5, <1>6, SeqEqual DEF Paths
<1> QED BY <1>4, <1>7 DEF q, r

LEMMA WithinFront ==
  ASSUME NEW p \in Paths, p # <<>>, NEW D \in Paths, Within(Front(p), D)
  PROVE  Within(p, D)
<1>1. /\ Len(p) \in Nat \ {0} /\ Front(p) = Prefix(p, Len(p) - 1) /\ Front(p) \in Paths
      /\ Len(Front(p)) = Len(p) - 1
  BY FrontFacts
<1>2. Len(D) \in Nat /\ Len(D) <= Len(p) - 1 /\ SubSeq(D, 1, Len(D)) = Prefix(Front(p), Len(D))
  BY <1>1 DEF Within, IsPrefix, Paths, Prefix
<1>3. Len(D) \in 0 .. Len(p) - 1 /\ Len(D) \in 0 .. Len(p)
  BY <1>1, <1>2
<1> DEFINE q == Prefix(Front(p), Len(D))
           r == Prefix(p, Len(D))
<1>4. q \in Paths /\ Len(q) = Len(D) /\ \A i \in 1 .. Len(D) : q[i] = Front(p)[i]
  BY <1>1, <1>3, PrefixFacts
<1>5. r \in Paths /\ Len(r) = Len(D) /\ \A i \in 1 .. Len(D) : r[i] = p[i]
  BY <1>1, <1>3, PrefixFacts
<1>6. \A i \in 1 .. Len(p) - 1 : Front(p)[i] = p[i]
  BY FrontFacts
<1> HIDE DEF q, r
<1>7. \A i \in 1 .. Len(q) : q[i] = r[i]
  BY <1>1, <1>2, <1>4, <1>5, <1>6
<1>8. q = r
  BY <1>4, <1>5, <1>7, SeqEqual DEF Paths
<1> QED BY <1>1, <1>2, <1>8 DEF Within, IsPrefix, q, r, Prefix

LEMMA DirectoryRemoved ==
  ASSUME NEW ds, NEW fs, FsOK(ds, fs), NEW D \in Paths,
         \A path \in {RuntimeDir} \cup DOMAIN Links \cup {Links[l] : l \in DOMAIN Links} :
           ~ Within(path, D),
         NEW gs, DOMAIN gs = {p \in DOMAIN fs : ~ Within(p, D)}
  PROVE  FsOK({d \in ds : ~ Within(d, D)}, gs)
<1> DEFINE es == {d \in ds : ~ Within(d, D)}
<1>1. ~ Within(<<>>, D)
  <2> SUFFICES ASSUME Within(<<>>, D) PROVE FALSE
    OBVIOUS
  <2>1. Len(D) \in Nat /\ Len(D) <= 0
    BY DEF Within, IsPrefix, Paths
  <2>2. D = <<>>
    BY <2>1, EmptySeq DEF Paths
  <2>3. RuntimeDir \in Paths /\ SubSeq(RuntimeDir, 1, 0) = <<>> /\ Len(RuntimeDir) \in Nat
    <3>1. RuntimeDir \in Paths
      BY PlacesArePaths DEF FsOK
    <3> QED BY <3>1, SubSeqEmpty DEF Paths
  <2>4. Within(RuntimeDir, D)
    BY <2>1, <2>2, <2>3 DEF Within, IsPrefix
  <2> QED BY <2>4
<1>2. \A p \in Places : p # <<>> /\ Within(Front(p), D) => Within(p, D)
  BY WithinFront, PlacesArePaths
<1>3. \A d \in es : d # <<>> => Front(d) \in es
  BY <1>2 DEF FsOK
<1>4. \A l \in DOMAIN Links : l \notin es /\ Front(l) \in es /\ Links[l] \in es
  <2>1. \A l \in DOMAIN Links : l \in Places /\ l # <<>>
    BY LinksLeadToDirectories
  <2> QED BY <1>2, <2>1 DEF FsOK
<1>5. \A f \in DOMAIN gs :
        f # <<>> /\ f \notin es /\ f \notin DOMAIN Links /\ Front(f) \in es
  BY <1>2 DEF FsOK
<1>6. es \subseteq Places /\ <<>> \in es /\ DOMAIN gs \subseteq Places /\ RuntimeDir \in es
  BY <1>1 DEF FsOK
<1> QED BY <1>3, <1>4, <1>5, <1>6 DEF FsOK

\* Nothing is within a place that has nothing directly below it.
LEMMA FreshWithin ==
  ASSUME NEW ds, NEW fs, FsOK(ds, fs), NEW at \in Paths, Fresh(at, ds, fs),
         NEW f \in DOMAIN fs, Within(f, at)
  PROVE  f = at
<1>1. f \in Paths /\ Len(f) \in Nat /\ Len(at) \in Nat /\ Len(at) <= Len(f)
  BY PlacesArePaths DEF FsOK, Within, IsPrefix, Paths
<1>2. Prefix(f, Len(at)) = at /\ Prefix(f, Len(f)) = f
  <2>1. Len(at) \in 0 .. Len(at) /\ Len(f) \in 0 .. Len(f)
    BY <1>1
  <2>2. Prefix(at, Len(at)) = at /\ Prefix(f, Len(f)) = f
    BY <1>1, <2>1, PrefixFacts
  <2> QED BY <2>2 DEF Within, IsPrefix, Prefix
<1> SUFFICES ASSUME Len(at) < Len(f) PROVE FALSE
  BY <1>1, <1>2
<1> DEFINE S == {i \in Nat : i < Len(f) => Prefix(f, Len(f) - i) \in ds \cup DOMAIN fs}
<1>3. 0 \in S
  BY <1>1, <1>2
<1>4. \A i \in S \cap Nat : i + 1 \in S
  <2> SUFFICES ASSUME NEW i \in Nat, i \in S, i + 1 < Len(f)
               PROVE  Prefix(f, Len(f) - (i + 1)) \in ds \cup DOMAIN fs
    OBVIOUS
  <2>1. Len(f) - i \in 1 .. Len(f) /\ (Len(f) - i) - 1 = Len(f) - (i + 1) /\ i < Len(f)
    BY <1>1
  <2> DEFINE p == Prefix(f, Len(f) - i)
  <2>2. p # <<>> /\ Front(p) = Prefix(f, Len(f) - (i + 1))
    BY <1>1, <2>1, FrontOfPrefix
  <2>3. p \in ds \cup DOMAIN fs
    BY <2>1
  <2> HIDE DEF p
  <2> QED BY <2>2, <2>3 DEF FsOK
<1>5. Nat \subseteq S
  <2> HIDE DEF S
  <2> QED BY <1>3, <1>4, NaturalsInSet
<1> DEFINE n == Len(at) + 1
           i == Len(f) - n
<1>6. i \in Nat /\ i < Len(f) /\ Len(f) - i = n /\ n \in 1 .. Len(f) /\ n - 1 = Len(at)
  BY <1>1
<1>7. Prefix(f, n) \in ds \cup DOMAIN fs
  <2>1. i \in S
    BY <1>5, <1>6
  <2> HIDE DEF n, i
  <2> QED BY <1>6, <2>1
<1>8. Prefix(f, n) # <<>> /\ Front(Prefix(f, n)) = at
  <2> HIDE DEF n, i
  <2> QED BY <1>1, <1>2, <1>6, FrontOfPrefix
<1> QED BY <1>7, <1>8 DEF Fresh

-----------------------------------------------------------------------------
(* A run of the generator.                                                 *)

AsBefore == before = [files |-> files, directories |-> directories]

\* Until the output directory is looked at nothing is written, and a run has
\* no result before it ends.
IInv ==
  /\ result = "Refused" => AsBefore
  /\ step = "check" => AsBefore
  /\ step # "idle" => result = "none"

\* The order of the steps is that of generate_project.
LEMMA StepOrder ==
  Then("idle") = "check" /\ Then("check") = "create" /\ Then("create") = "write"
BY DEF Then

\* How far a run has come: the directories that exist for sure, ...
Created ==
  \A n \in 0 .. created : Resolve(Prefix(SourceDir(request.output), n)) \in directories

\* ... and the files, which are those from before and the ones it has written.
FilesOfRun ==
  /\ \A f \in DOMAIN files :
       \/ f \in DOMAIN before.files /\ files[f] = before.files[f]
       \/ \E j \in 1 .. written : f = Located(request.output, j)
  /\ \A j \in 1 .. written :
       /\ Located(request.output, j) \in DOMAIN files
       /\ files[Located(request.output, j)] = Content(TRUE)

\* Before the run there was nothing in the output directory.
WasFresh ==
  LeavesThere => Fresh(Resolve(request.output), before.directories, before.files)

Active == step \in {"create", "write"} \/ result = "Ok"

Types ==
  /\ step \in {"idle", "check", "create", "write"}
  /\ result \in {"none", "Refused", "Failed", "Killed", "Ok"}
  /\ request \in Requests /\ runs \in 0 .. MaxRuns
  /\ created \in 0 .. Len(SourceDir(request.output)) /\ written \in 0 .. 6
  /\ \A f \in DOMAIN files : files[f].run \in 0 .. runs

Systems == FsOK(directories, files) /\ FsOK(before.directories, before.files)

Progress ==
  /\ step = "check" => created = 0
  /\ step \in {"check", "create"} => written = 0
  /\ step = "create" => created < Len(SourceDir(request.output))
  /\ step = "write" \/ result = "Ok" => created = Len(SourceDir(request.output))
  /\ step = "write" => written < 6
  /\ result = "Ok" => written = 6

RInv ==
  /\ IInv /\ Types /\ Systems /\ Progress
  /\ Active => Created /\ FilesOfRun /\ WasFresh

LEMMA FirstFileSystem == FsOK(Directories, <<>>)
<1>1. DOMAIN <<>> = {}
  OBVIOUS
<1> QED BY <1>1, DirectoriesAreNested, LinksLeadToDirectories, RuntimeIsThere DEF FsOK

LEMMA RInit == Init => RInv
<1> SUFFICES ASSUME Init PROVE RInv
  OBVIOUS
<1>1. /\ directories = Directories /\ files = <<>> /\ step = "idle" /\ result = "none"
      /\ request \in Requests /\ created = 0 /\ written = 0 /\ runs = 0
      /\ before.files = <<>> /\ before.directories = Directories
  BY DEF Init
<1>2. Types
  <2>1. Len(SourceDir(request.output)) \in Nat
    BY <1>1, RequestsArePaths, SourceParts DEF Paths
  <2>2. DOMAIN <<>> = {}
    OBVIOUS
  <2> QED BY <1>1, <2>1, <2>2, RuntimeIsThere DEF Types
<1>3. Systems
  BY <1>1, FirstFileSystem DEF Systems
<1> QED BY <1>1, <1>2, <1>3 DEF RInv, IInv, Progress, Active

\* Where the path of the output directory leads to nothing, or to a directory
\* with nothing in it, there is nothing below it.
LEMMA MayUseFresh ==
  ASSUME NEW o \in Paths, FsOK(directories, files), MayUse(o),
         \A n \in DOMAIN o : o[n] = ".." => Resolve(Prefix(o, n - 1)) \in directories
  PROVE  Fresh(Resolve(o), directories, files)
<1> DEFINE R == Resolve(o)
<1>1. CASE Exists(o)
  BY <1>1 DEF MayUse, Entries, Fresh
<1>2. CASE ~ Exists(o)
  <2>1. R \notin directories => Fresh(R, directories, files)
    BY DEF Fresh, FsOK
  <2> SUFFICES ASSUME o # <<>>, ~ IsDirectory(Front(o)) PROVE R \notin directories
    BY <1>2, <2>1 DEF Exists
  <2>2. /\ Len(o) \in Nat \ {0} /\ Len(o) - 1 \in 0 .. Len(o) /\ Front(o) = Prefix(o, Len(o) - 1)
        /\ Len(Front(o)) = Len(o) - 1 /\ Front(o) \in Paths
    BY FrontFacts
  <2>3. PICK n \in 0 .. Len(o) - 1 : Resolve(Prefix(Front(o), n)) \notin directories
    BY <2>2 DEF IsDirectory
  <2>4. Prefix(Front(o), n) = Prefix(o, n)
    <3> DEFINE q == Prefix(Front(o), n)
               r == Prefix(o, n)
    <3>1. n \in 0 .. Len(Front(o)) /\ n \in 0 .. Len(o)
      BY <2>2
    <3>2. q \in Paths /\ Len(q) = n /\ \A i \in 1 .. n : q[i] = Front(o)[i]
      BY <2>2, <3>1, PrefixFacts
    <3>3. r \in Paths /\ Len(r) = n /\ \A i \in 1 .. n : r[i] = o[i]
      BY <2>2, <3>1, PrefixFacts
    <3>4. \A i \in 1 .. n : Front(o)[i] = o[i]
      <4>1. \A i \in 1 .. n : i \in 1 .. Len(o) - 1
        BY <2>2
      <4> QED BY <4>1, FrontFacts
    <3> HIDE DEF q, r
    <3> QED BY <3>2, <3>3, <3>4, SeqEqual DEF Paths, q, r
  <2> DEFINE at(m) == Resolve(Prefix(o, m))
             S == {m \in Nat : n + m <= Len(o) => at(n + m) \notin directories}
  <2>5. 0 \in S
    BY <2>2, <2>3, <2>4
  <2>6. \A m \in S \cap Nat : m + 1 \in S
    <3> SUFFICES ASSUME NEW m \in Nat, m \in S, n + (m + 1) <= Len(o)
                 PROVE  at(n + (m + 1)) \notin directories
      OBVIOUS
    <3> DEFINE k == n + (m + 1)
    <3>1. k \in 1 .. Len(o) /\ k - 1 = n + m /\ n + m <= Len(o) /\ k - 1 \in 0 .. Len(o)
      BY <2>2
    <3>2. at(k - 1) \notin directories
      BY <3>1
    <3>3. at(k - 1) \in Paths /\ at(k) = Walk(at(k - 1), o[k])
      <4> HIDE DEF k
      <4> QED BY <3>1, ResolveFacts
    <3>4. o[k] \in Names /\ k \in DOMAIN o
      <4> HIDE DEF k
      <4> QED BY <3>1 DEF Paths
    <3>5. o[k] # ".."
      <4> HIDE DEF k
      <4> QED BY <3>2, <3>4
    <3> HIDE DEF k, S
    <3>6. Walk(at(k - 1), o[k]) \notin directories
      <4> DEFINE p == at(k - 1)
                 c == o[k]
      <4>1. p \in Paths /\ p \notin directories /\ c \in Names /\ c # ".."
        BY <3>2, <3>3, <3>4, <3>5
      <4> HIDE DEF p, c
      <4> QED BY <4>1, WalkLost DEF p, c
    <3> QED BY <3>3, <3>6 DEF k
  <2>7. Nat \subseteq S
    <3> HIDE DEF S
    <3> QED BY <2>5, <2>6, NaturalsInSet
  <2>8. Len(o) - n \in Nat /\ n + (Len(o) - n) = Len(o)
    BY <2>2
  <2>9. at(Len(o)) \notin directories
    <3>1. Len(o) - n \in S
      BY <2>7, <2>8
    <3> QED BY <2>2, <2>8, <3>1
  <2> QED BY <2>2, <2>9, PrefixFacts
<1> QED BY <1>1, <1>2

\* Each step keeps the invariant: generate_project before it looks, ...
LEMMA StartKeeps == RInv /\ Start => RInv'
<1> SUFFICES ASSUME RInv, Start PROVE RInv'
  OBVIOUS
<1>1. /\ UNCHANGED <<directories, files>> /\ request' \in Requests /\ runs' = runs + 1
      /\ runs < MaxRuns /\ created' = 0 /\ written' = 0
      /\ before' = [files |-> files, directories |-> directories]
      /\ (step' = "check" /\ result' = "none") \/ (step' = "idle" /\ result' = "Refused")
  BY StepOrder DEF Start, Finish
<1>2. Types'
  <2>1. runs \in 0 .. MaxRuns /\ MaxRuns \in Nat
    BY RuntimeIsThere DEF RInv, Types
  <2>2. \A f \in DOMAIN files : files[f].run \in 0 .. runs + 1
    BY <2>1 DEF RInv, Types
  <2>3. 0 \in 0 .. Len(SourceDir(request'.output))
    <3>1. request'.output \in Paths
      BY <1>1, RequestsArePaths
    <3> QED BY <3>1, SourceParts DEF Paths
  <2> QED BY <1>1, <2>1, <2>2, <2>3 DEF Types
<1>3. Systems'
  BY <1>1 DEF RInv, Systems
<1>4. IInv' /\ Progress' /\ ~ Active'
  BY <1>1 DEF IInv, AsBefore, Progress, Active
<1> QED BY <1>2, <1>3, <1>4 DEF RInv

\* ... when it looks at the output directory, ...
LEMMA CheckKeeps == RInv /\ Check => RInv'
<1> SUFFICES ASSUME RInv, Check PROVE RInv'
  OBVIOUS
<1>1. /\ UNCHANGED <<directories, files, created, written, request, runs, before>>
      /\ step = "check"
      /\ \/ step' = "create" /\ result' = result /\ MayUse(request.output)
         \/ step' = "idle" /\ result' = "Refused"
  BY StepOrder DEF Check, Finish, Unchanged
<1>2. AsBefore /\ AsBefore' /\ created = 0 /\ written = 0 /\ result = "none"
      /\ request.output \in Paths
  BY <1>1, RequestsArePaths DEF RInv, IInv, AsBefore, Progress, Types
<1>3. Types' /\ Systems'
  BY <1>1 DEF RInv, Types, Systems
<1>4. IInv'
  BY <1>1, <1>2 DEF IInv
<1>5. Len(SourceDir(request.output)) \in Nat \ {0} /\ SourceDir(request.output) \in Paths
  BY <1>2, SourceParts
<1>6. Progress'
  BY <1>1, <1>2, <1>5 DEF Progress
<1>7. CASE step' = "create"
  <2>1. Created'
    <3>1. Prefix(SourceDir(request.output), 0) = <<>>
      BY <1>5, PrefixFacts
    <3>2. Resolve(Prefix(SourceDir(request.output), 0)) \in directories
      BY <1>5, ResolveFacts DEF RInv, Systems, FsOK
    <3> QED BY <1>1, <1>2, <3>2 DEF Created
  <2>2. before'.files = files /\ before'.directories = directories /\ before' = before
    BY <1>1, <1>2 DEF AsBefore
  <2>3. FilesOfRun'
    BY <1>1, <1>2, <2>2 DEF FilesOfRun
  <2>4. MayUse(request.output)
    BY <1>1, <1>7
  <2>5. LeavesThere => Fresh(Resolve(request.output), directories, files)
    BY <1>2, <2>2, <2>4, MayUseFresh DEF RInv, Systems, LeavesThere
  <2>6. WasFresh'
    BY <1>1, <2>2, <2>5 DEF WasFresh, LeavesThere
  <2> QED BY <1>3, <1>4, <1>6, <2>1, <2>3, <2>6 DEF RInv
<1>8. CASE step' = "idle" /\ result' = "Refused"
  BY <1>3, <1>4, <1>6, <1>8 DEF RInv, Active
<1> QED BY <1>1, <1>7, <1>8

\* ... in create_dir_all, ...
LEMMA CreateKeeps == RInv /\ Create => RInv'
<1> DEFINE o == request.output
           len == Len(SourceDir(o))
           new == Resolve(Prefix(SourceDir(o), created + 1))
<1> SUFFICES ASSUME RInv, Create PROVE RInv'
  OBVIOUS
<1>1. /\ UNCHANGED <<files, written, request, runs, before>>
      /\ step = "create" /\ created < len
      /\ \/ /\ new \notin DOMAIN files /\ directories' = directories \cup {new}
            /\ created' = created + 1 /\ result' = result
            /\ step' = IF created' = len THEN "write" ELSE "create"
         \/ /\ step' = "idle" /\ result' = "Failed" /\ UNCHANGED <<directories, created>>
  BY StepOrder DEF Create, Finish, Unchanged
<1>2. o \in Paths /\ SourceDir(o) \in Paths /\ len \in Nat /\ created \in Nat
      /\ created \in 0 .. len /\ written = 0 /\ result = "none"
  BY <1>1, RequestsArePaths, SourceParts DEF RInv, IInv, Types, Progress, Paths
<1>3. Created /\ FilesOfRun /\ WasFresh
  BY <1>1 DEF RInv, Active
<1>4. FilesOfRun' /\ WasFresh'
  BY <1>1, <1>3 DEF FilesOfRun, WasFresh, LeavesThere, Content
<1> HIDE DEF len, new
<1>5. CASE new \notin DOMAIN files /\ directories' = directories \cup {new}
           /\ created' = created + 1 /\ result' = result
           /\ step' = IF created' = len THEN "write" ELSE "create"
  <2>1. FsOK(directories', files')
    <3>1. created \in 0 .. created /\ created + 1 \in 1 .. len /\ (created + 1) - 1 = created
      BY <1>1, <1>2
    <3> DEFINE at == Resolve(Prefix(SourceDir(o), created))
               c == SourceDir(o)[created + 1]
    <3>2. at \in directories
      BY <1>3, <3>1 DEF Created
    <3>3. c \in Names
      BY <1>2, <3>1 DEF Paths, len
    <3>4. new = Walk(at, c)
      BY <1>2, <3>1, ResolveFacts DEF new, len
    <3> HIDE DEF at, c
    <3> QED BY <1>1, <1>5, <3>2, <3>3, <3>4, DirectoryAdded DEF RInv, Systems
  <2>2. Created'
    <3>1. \A n \in 0 .. created + 1 : n \in 0 .. created \/ n = created + 1
      BY <1>2
    <3> QED BY <1>1, <1>3, <1>5, <3>1 DEF Created, new
  <2>3. Types'
    BY <1>1, <1>2, <1>5 DEF RInv, Types, len
  <2>4. IInv' /\ Progress'
    BY <1>1, <1>2, <1>5 DEF IInv, Progress, len
  <2> QED BY <1>1, <1>4, <2>1, <2>2, <2>3, <2>4 DEF RInv, Systems
<1>6. CASE step' = "idle" /\ result' = "Failed" /\ UNCHANGED <<directories, created>>
  <2>1. Types' /\ Systems'
    BY <1>1, <1>6 DEF RInv, Types, Systems
  <2>2. IInv' /\ Progress' /\ ~ Active'
    BY <1>1, <1>6 DEF IInv, Progress, Active
  <2> QED BY <2>1, <2>2 DEF RInv
<1> QED BY <1>1, <1>5, <1>6

\* A file that a step of the run may write is not there, or is the run's own.
LEMMA WritesOwn ==
  ASSUME RInv, step = "write", LeavesThere,
         NEW f \in DOMAIN files, f = Located(request.output, written + 1)
  PROVE  files[f].run = runs
<1>1. request.output \in Paths /\ written + 1 \in 1 .. 6
  BY RequestsArePaths DEF RInv, Types, Progress
<1>2. FilesOfRun /\ Fresh(Resolve(request.output), before.directories, before.files)
  BY DEF RInv, Active, WasFresh
<1>3. f \notin DOMAIN before.files
  BY <1>1, <1>2, LocatedFresh DEF RInv, Systems
<1>4. PICK j \in 1 .. written : f = Located(request.output, j)
  BY <1>2, <1>3 DEF FilesOfRun
<1> QED BY <1>2, <1>4 DEF FilesOfRun, Content

\* What is left of the file system when a file of the project was opened.
LEMMA PutKeeps ==
  ASSUME RInv, step = "write", NEW whole,
         Located(request.output, written + 1) \notin directories,
         NEW gs, gs = Put(Located(request.output, written + 1), Content(whole))
  PROVE  /\ FsOK(directories, gs)
         /\ \A f \in DOMAIN gs : gs[f].run \in 0 .. runs
<1>1. request.output \in Paths /\ written + 1 \in 1 .. 6 /\ runs \in 0 .. runs
  BY RequestsArePaths, RuntimeIsThere DEF RInv, Types, Progress
<1>2. DOMAIN gs = DOMAIN files \cup {Located(request.output, written + 1)}
  BY DEF Put
<1>3. Resolve(request.output) \in directories /\ Resolve(SourceDir(request.output)) \in directories
  <2> DEFINE n == Len(request.output)
  <2>1. /\ created = n + 1 /\ n \in 0 .. n + 1 /\ n + 1 \in 0 .. n + 1 /\ Created
        /\ Prefix(SourceDir(request.output), n) = request.output
        /\ Prefix(SourceDir(request.output), n + 1) = SourceDir(request.output)
    BY <1>1, SourceParts DEF RInv, Progress, Active
  <2> QED BY <2>1 DEF Created
<1>4. FsOK(directories, gs)
  BY <1>1, <1>2, <1>3, ProjectFileAdded DEF RInv, Systems
<1>5. \A f \in DOMAIN gs : gs[f].run \in 0 .. runs
  <2>1. Content(whole).run = runs
    BY DEF Content
  <2> QED BY <1>1, <2>1 DEF Put, RInv, Types
<1> QED BY <1>4, <1>5

LEMMA TornKeeps ==
  ASSUME RInv, step = "write", NEW gs \in {files} \cup Torn
  PROVE  /\ FsOK(directories, gs)
         /\ \A f \in DOMAIN gs : gs[f].run \in 0 .. runs
<1>1. CASE gs = files
  BY <1>1 DEF RInv, Systems, Types
<1>2. CASE gs \in Torn
  BY <1>2, PutKeeps DEF Torn
<1> QED BY <1>1, <1>2

\* ... in write, ...
LEMMA WriteKeeps == RInv /\ Write => RInv'
<1> DEFINE o == request.output
           path == Located(o, written + 1)
<1> SUFFICES ASSUME RInv, Write PROVE RInv'
  OBVIOUS
<1>1. /\ UNCHANGED <<directories, created, request, runs, before>>
      /\ step = "write"
      /\ \/ /\ path \notin directories /\ files' = Put(path, Content(TRUE))
            /\ written' = written + 1
            /\ IF AllWritten(written') THEN Finish("Ok") ELSE UNCHANGED <<step, result>>
         \/ files' \in {files} \cup Torn /\ Finish("Failed") /\ written' = written
  BY DEF Write, Unchanged
<1>2. o \in Paths /\ written \in Nat /\ written < 6 /\ result = "none" /\ Len(ProjectFiles) = 6
  BY <1>1, RequestsArePaths, ProjectParts DEF RInv, IInv, Types, Progress
<1>3. Created /\ FilesOfRun /\ WasFresh /\ created = Len(SourceDir(o))
  BY <1>1 DEF RInv, Active, Progress
<1> HIDE DEF o
<1>4. CASE path \notin directories /\ files' = Put(path, Content(TRUE))
           /\ written' = written + 1
           /\ IF AllWritten(written') THEN Finish("Ok") ELSE UNCHANGED <<step, result>>
  <2>1. /\ FsOK(directories, files')
        /\ \A f \in DOMAIN files' : files'[f].run \in 0 .. runs
    BY <1>1, <1>4, PutKeeps DEF o
  <2>2. \/ step' = "idle" /\ result' = "Ok" /\ written + 1 = 6
        \/ step' = "write" /\ result' = "none" /\ written + 1 # 6
    BY <1>1, <1>2, <1>4 DEF AllWritten, Finish
  <2>3. Types' /\ Systems'
    <3>1. written' \in 0 .. 6
      BY <1>2, <1>4
    <3>2. Types'
      BY <1>1, <2>1, <2>2, <3>1 DEF RInv, Types
    <3> QED BY <1>1, <2>1, <3>2 DEF RInv, Systems
  <2>4. IInv' /\ Progress'
    BY <1>1, <1>2, <1>3, <1>4, <2>2 DEF IInv, Progress, o
  <2>5. Created' /\ WasFresh'
    BY <1>1, <1>3 DEF Created, WasFresh, LeavesThere
  <2>6. FilesOfRun'
    <3> DEFINE C == Content(TRUE)
    <3>1. C' = C
      BY <1>1 DEF Content
    <3> HIDE DEF path, C
    <3>2. /\ DOMAIN files' = DOMAIN files \cup {path} /\ files'[path] = C
          /\ \A f \in DOMAIN files : f # path => files'[f] = files[f]
      BY <1>4 DEF Put, C
    <3>3. \A j \in 1 .. written' : j \in 1 .. written \/ j = written + 1
      BY <1>2, <1>4
    <3>4. 1 .. written \subseteq 1 .. written' /\ written + 1 \in 1 .. written'
      BY <1>2, <1>4
    <3>5. \A f \in DOMAIN files' :
            \/ f \in DOMAIN before.files /\ files'[f] = before.files[f]
            \/ \E j \in 1 .. written' : f = Located(o, j)
      <4> SUFFICES ASSUME NEW f \in DOMAIN files', f # path
                   PROVE  \/ f \in DOMAIN before.files /\ files'[f] = before.files[f]
                          \/ \E j \in 1 .. written' : f = Located(o, j)
        BY <3>4 DEF path
      <4> QED BY <1>3, <3>2, <3>4 DEF FilesOfRun, o
    <3>6. \A j \in 1 .. written' :
            Located(o, j) \in DOMAIN files' /\ files'[Located(o, j)] = C
      <4> SUFFICES ASSUME NEW j \in 1 .. written', Located(o, j) # path
                   PROVE  Located(o, j) \in DOMAIN files' /\ files'[Located(o, j)] = C
        BY <3>2
      <4>1. j \in 1 .. written
        BY <3>3 DEF path
      <4>2. Located(o, j) \in DOMAIN files /\ files[Located(o, j)] = C
        BY <1>3, <4>1 DEF FilesOfRun, o, C
      <4> QED BY <3>2, <4>2
    <3> QED BY <1>1, <3>1, <3>5, <3>6 DEF FilesOfRun, o, C
  <2> QED BY <2>3, <2>4, <2>5, <2>6 DEF RInv
<1>5. CASE files' \in {files} \cup Torn /\ Finish("Failed") /\ written' = written
  <2>1. /\ FsOK(directories, files')
        /\ \A f \in DOMAIN files' : files'[f].run \in 0 .. runs
    BY <1>1, <1>5, TornKeeps
  <2>2. step' = "idle" /\ result' = "Failed"
    BY <1>5 DEF Finish
  <2>3. Types' /\ Systems'
    BY <1>1, <1>5, <2>1, <2>2 DEF RInv, Types, Systems
  <2>4. IInv' /\ Progress' /\ ~ Active'
    BY <2>2 DEF IInv, Progress, Active
  <2> QED BY <2>3, <2>4 DEF RInv
<1> QED BY <1>1, <1>4, <1>5

\* ... when it is killed, ...
LEMMA KillKeeps == RInv /\ Kill => RInv'
<1> SUFFICES ASSUME RInv, Kill PROVE RInv'
  OBVIOUS
<1>1. /\ UNCHANGED <<directories, created, written, request, runs, before>>
      /\ step' = "idle" /\ result' = "Killed"
      /\ files' = files \/ (step = "write" /\ files' \in {files} \cup Torn)
  BY DEF Kill, Finish, Unchanged
<1>2. /\ FsOK(directories, files')
      /\ \A f \in DOMAIN files' : files'[f].run \in 0 .. runs
  BY <1>1, TornKeeps DEF RInv, Systems, Types
<1>3. Types' /\ Systems'
  BY <1>1, <1>2 DEF RInv, Types, Systems
<1>4. IInv' /\ Progress' /\ ~ Active'
  BY <1>1 DEF IInv, Progress, Active
<1> QED BY <1>3, <1>4 DEF RInv

\* ... and when the user writes or removes files between two runs.
LEMMA UserKeeps == RInv /\ (UserWrites \/ UserRemoves) => RInv'
<1> SUFFICES ASSUME RInv, UserWrites \/ UserRemoves PROVE RInv'
  OBVIOUS
<1>1. /\ UNCHANGED <<step, created, written, request, runs, before>>
      /\ step = "idle" /\ result' = "none"
  BY DEF UserWrites, UserRemoves, Unchanged
<1>2. /\ FsOK(directories', files')
      /\ \A f \in DOMAIN files' : files'[f].run \in 0 .. runs
  <2>1. CASE UserWrites
    <3>1. PICK path \in UserFiles :
            /\ Parent(path) \in directories /\ path \notin directories
            /\ files' = Put(path, UserContent) /\ directories' = directories
      BY <2>1 DEF UserWrites
    <3>2. path \in Places /\ path # <<>> /\ path \notin DOMAIN Links /\ Front(path) \in directories
      BY <3>1, UserFilesAreFiles DEF Parent
    <3>3. DOMAIN files' = DOMAIN files \cup {path}
      BY <3>1 DEF Put
    <3>4. FsOK(directories, files')
      BY <3>1, <3>2, <3>3, FileAdded DEF RInv, Systems
    <3>5. 0 \in 0 .. runs /\ UserContent.run = 0
      BY RuntimeIsThere DEF RInv, Types, UserContent
    <3> QED BY <3>1, <3>4, <3>5 DEF Put, RInv, Types
  <2>2. CASE UserRemoves
    <3>1. PICK D \in {Resolve(r.output) : r \in Requests} :
            /\ \A path \in {RuntimeDir} \cup DOMAIN Links \cup {Links[l] : l \in DOMAIN Links} :
                 ~ Within(path, D)
            /\ directories' = {d \in directories : ~ Within(d, D)}
            /\ files' = [f \in {p \in DOMAIN files : ~ Within(p, D)} |-> files[f]]
      BY <2>2 DEF UserRemoves
    <3>2. D \in Paths
      BY RequestsArePaths, ResolveType
    <3>3. DOMAIN files' = {p \in DOMAIN files : ~ Within(p, D)}
      BY <3>1
    <3>4. FsOK(directories', files')
      BY <3>1, <3>2, <3>3, DirectoryRemoved DEF RInv, Systems
    <3>5. \A f \in DOMAIN files' : f \in DOMAIN files /\ files'[f] = files[f]
      BY <3>1
    <3> QED BY <3>4, <3>5 DEF RInv, Types
  <2> QED BY <2>1, <2>2
<1>3. Types' /\ Systems'
  BY <1>1, <1>2 DEF RInv, Types, Systems
<1>4. IInv' /\ Progress' /\ ~ Active'
  BY <1>1 DEF IInv, Progress, Active
<1> QED BY <1>3, <1>4 DEF RInv

LEMMA RNext == RInv /\ [Next]_vars => RInv'
<1> SUFFICES ASSUME RInv, [Next]_vars PROVE RInv'
  OBVIOUS
<1>1. CASE UNCHANGED vars
  BY <1>1 DEF vars, RInv, IInv, AsBefore, Types, Systems, Progress, Active, Created, FilesOfRun,
              WasFresh, LeavesThere, Content
<1> QED
  BY <1>1, StartKeeps, CheckKeeps, CreateKeeps, WriteKeeps, KillKeeps, UserKeeps
  DEF Next, GeneratorStep

-----------------------------------------------------------------------------
(* Resolved paths.                                                         *)

\* ".." and links have been followed: no directory on the way is a link.
Resolved(p) == p \in Places /\ \A n \in 1 .. Len(p) : Prefix(p, n) \notin DOMAIN Links

LEMMA PrefixStep ==
  ASSUME NEW p \in Paths, NEW n \in 1 .. Len(p)
  PROVE  Prefix(p, n) = Append(Prefix(p, n - 1), p[n])
<1>1. Len(p) \in Nat /\ n \in 0 .. Len(p) /\ n - 1 \in 0 .. Len(p) /\ p[n] \in Names
  BY DEF Paths
<1> DEFINE q == Prefix(p, n)
           r == Prefix(p, n - 1)
           s == Append(r, p[n])
<1>2. q \in Paths /\ Len(q) = n /\ \A i \in 1 .. n : q[i] = p[i]
  BY <1>1, PrefixFacts
<1>3. r \in Paths /\ Len(r) = n - 1 /\ \A i \in 1 .. n - 1 : r[i] = p[i]
  BY <1>1, PrefixFacts
<1> HIDE DEF q, r
<1>4. /\ s \in Paths /\ Len(s) = Len(r) + 1 /\ \A i \in 1 .. Len(r) : s[i] = r[i]
      /\ s[Len(r) + 1] = p[n]
  BY <1>1, <1>3, AppendFacts
<1> HIDE DEF s
<1>5. \A i \in 1 .. n : q[i] = s[i]
  <2>1. \A i \in 1 .. n : i \in 1 .. n - 1 \/ i = n
    OBVIOUS
  <2> QED BY <1>2, <1>3, <1>4, <2>1
<1>6. q = s
  BY <1>2, <1>3, <1>4, <1>5, SeqEqual DEF Paths
<1> QED BY <1>6 DEF q, r, s

LEMMA PrefixInPlaces ==
  ASSUME NEW p \in Places, NEW n \in 0 .. Len(p)
  PROVE  Prefix(p, n) \in Places /\ Len(Prefix(p, n)) = n /\ Len(p) \in Nat
<1> DEFINE N == Names \ {".."}
<1>1. p \in Seq(N) /\ Len(p) \in Nat /\ n \in Nat /\ n <= Len(p)
  BY DEF Places
<1>2. \A i \in 1 .. n : p[i] \in N
  BY <1>1, ElementOfSeq
<1>3. SubSeq(p, 1, n) \in Seq(N)
  BY <1>1, <1>2, SubSeqProperties
<1> QED BY <1>1, <1>3, PrefixFacts, PlacesArePaths DEF Places, Prefix

LEMMA PrefixOfPrefix ==
  ASSUME NEW p \in Paths, NEW n \in 0 .. Len(p), NEW m \in 0 .. n
  PROVE  Prefix(Prefix(p, n), m) = Prefix(p, m)
<1> DEFINE q == Prefix(p, n)
           r == Prefix(q, m)
           s == Prefix(p, m)
<1>1. Len(p) \in Nat /\ m \in 0 .. Len(p)
  BY DEF Paths
<1>2. q \in Paths /\ Len(q) = n /\ \A i \in 1 .. n : q[i] = p[i]
  BY PrefixFacts
<1>3. s \in Paths /\ Len(s) = m /\ \A i \in 1 .. m : s[i] = p[i]
  BY <1>1, PrefixFacts
<1> HIDE DEF q, s
<1>4. r \in Paths /\ Len(r) = m /\ \A i \in 1 .. m : r[i] = q[i]
  BY <1>2, PrefixFacts
<1> HIDE DEF r
<1>5. \A i \in 1 .. m : r[i] = s[i]
  BY <1>1, <1>2, <1>3, <1>4
<1>6. r = s
  BY <1>3, <1>4, <1>5, SeqEqual DEF Paths
<1> QED BY <1>6 DEF q, r, s

LEMMA ResolvedPrefix ==
  ASSUME NEW p, Resolved(p), NEW n \in 0 .. Len(p)
  PROVE  Resolved(Prefix(p, n))
<1>1. p \in Paths /\ p \in Places /\ Len(p) \in Nat
  BY PlacesArePaths DEF Resolved, Places
<1>2. Prefix(p, n) \in Places /\ Len(Prefix(p, n)) = n
  BY <1>1, PrefixInPlaces
<1>3. ASSUME NEW m \in 1 .. n PROVE Prefix(Prefix(p, n), m) \notin DOMAIN Links
  <2>1. m \in 0 .. n /\ m \in 1 .. Len(p)
    BY <1>1
  <2> QED BY <1>1, <2>1, PrefixOfPrefix DEF Resolved
<1> QED BY <1>2, <1>3 DEF Resolved

\* A resolved path leads to itself.
LEMMA ResolvedStays ==
  ASSUME NEW p, Resolved(p)
  PROVE  Resolve(p) = p
<1> DEFINE g == [k \in 0 .. Len(p) |-> Prefix(p, k)]
<1>1. p \in Paths /\ p \in Places /\ Len(p) \in Nat
  BY PlacesArePaths DEF Resolved, Places
<1>2. g[0] = <<>> /\ g[Len(p)] = p
  <2>1. 0 \in 0 .. Len(p) /\ Len(p) \in 0 .. Len(p)
    BY <1>1
  <2> QED BY <1>1, <2>1, PrefixFacts
<1>3. ASSUME NEW k \in 1 .. Len(p) PROVE g[k] = Walk(g[k - 1], p[k])
  <2>1. k \in 0 .. Len(p) /\ k - 1 \in 0 .. Len(p)
    BY <1>1
  <2>2. p[k] # ".."
    BY <1>1 DEF Places
  <2>3. Prefix(p, k) = Append(Prefix(p, k - 1), p[k]) /\ Prefix(p, k) \notin DOMAIN Links
    BY <1>1, PrefixStep DEF Resolved
  <2> QED BY <2>1, <2>2, <2>3 DEF Walk, Follow
<1> HIDE DEF g
<1> QED BY <1>1, <1>2, <1>3, WalksAgree

\* The directories there are at first have been resolved.
LEMMA DirectoriesResolved ==
  ASSUME NEW p \in Directories
  PROVE  Resolved(p)
<1>1. p \in Places /\ p \in Paths /\ Len(p) \in Nat /\ Len(p) \in 0 .. Len(p)
  BY DirectoriesAreNested, PlacesArePaths DEF Places
<1> DEFINE S == {i \in Nat : i <= Len(p) => Prefix(p, Len(p) - i) \in Directories}
<1>2. 0 \in S
  BY <1>1, PrefixFacts
<1>3. \A i \in S \cap Nat : i + 1 \in S
  <2> SUFFICES ASSUME NEW i \in Nat, i \in S, i + 1 <= Len(p)
               PROVE  Prefix(p, Len(p) - (i + 1)) \in Directories
    OBVIOUS
  <2>1. Len(p) - i \in 1 .. Len(p) /\ (Len(p) - i) - 1 = Len(p) - (i + 1) /\ i <= Len(p)
    BY <1>1
  <2>2. /\ Prefix(p, Len(p) - i) # <<>>
        /\ Front(Prefix(p, Len(p) - i)) = Prefix(p, Len(p) - (i + 1))
    BY <1>1, <2>1, FrontOfPrefix
  <2> QED BY <2>1, <2>2, DirectoriesAreNested
<1>4. Nat \subseteq S
  <2> HIDE DEF S
  <2> QED BY <1>2, <1>3, NaturalsInSet
<1>5. ASSUME NEW n \in 1 .. Len(p) PROVE Prefix(p, n) \notin DOMAIN Links
  <2>1. Len(p) - n \in Nat /\ Len(p) - n <= Len(p) /\ Len(p) - (Len(p) - n) = n
    BY <1>1
  <2>2. Prefix(p, n) \in Directories
    <3>1. Len(p) - n \in S
      BY <1>4, <2>1
    <3> QED BY <2>1, <3>1
  <2> QED BY <2>2, LinksLeadToDirectories
<1> QED BY <1>1, <1>5 DEF Resolved

LEMMA WalkResolved ==
  ASSUME NEW at, Resolved(at), NEW c \in Names
  PROVE  Resolved(Walk(at, c))
<1>1. at \in Places /\ at \in Paths /\ Len(at) \in Nat
  BY PlacesArePaths DEF Resolved, Places
<1>2. CASE c = ".."
  <2>1. CASE at = <<>>
    BY <1>2, <2>1 DEF Walk, Parent
  <2>2. CASE at # <<>>
    <3>1. Len(at) - 1 \in 0 .. Len(at) /\ Front(at) = Prefix(at, Len(at) - 1)
      BY <1>1, <2>2, FrontFacts
    <3> QED BY <1>2, <2>2, <3>1, ResolvedPrefix DEF Walk, Parent
  <2> QED BY <2>1, <2>2
<1>3. CASE c # ".." /\ Append(at, c) \in DOMAIN Links
  BY <1>3, DirectoriesResolved, LinksLeadToDirectories DEF Walk, Follow
<1>4. CASE c # ".." /\ Append(at, c) \notin DOMAIN Links
  <2> DEFINE q == Append(at, c)
  <2>1. q \in Places
    <3>1. at \in Seq(Names \ {".."}) /\ c \in Names \ {".."}
      BY <1>1, <1>4 DEF Places
    <3> QED BY <3>1, AppendProperties DEF Places
  <2>2. Len(q) = Len(at) + 1 /\ q \in Paths
    BY <1>1, AppendFacts
  <2>3. \A n \in 0 .. Len(at) : Prefix(q, n) = Prefix(at, n)
    BY <1>1, AppendFacts
  <2>4. Walk(at, c) = q
    BY <1>4 DEF Walk, Follow
  <2>5. q \notin DOMAIN Links
    BY <1>4
  <2> HIDE DEF q
  <2>6. Prefix(q, Len(q)) = q
    BY <1>1, <2>2, PrefixFacts
  <2>7. \A n \in 1 .. Len(q) : n \in 1 .. Len(at) \/ n = Len(q)
    BY <1>1, <2>2
  <2>8. \A n \in 1 .. Len(at) : n \in 0 .. Len(at)
    OBVIOUS
  <2> QED BY <2>1, <2>3, <2>4, <2>5, <2>6, <2>7, <2>8 DEF Resolved
<1> QED BY <1>2, <1>3, <1>4

\* And so has what a path leads to.
LEMMA ResolveResolved ==
  ASSUME NEW p \in Paths
  PROVE  Resolved(Resolve(p))
<1> DEFINE g == [n \in 0 .. Len(p) |-> Resolve(Prefix(p, n))]
           A == {q \in Places : Resolved(q)}
<1>1. /\ Len(p) \in Nat
      /\ \A n \in 1 .. Len(p) : p[n] \in Names /\ n \in 0 .. Len(p) /\ n - 1 \in 0 .. Len(p)
  BY DEF Paths
<1>2. g[0] \in A
  <2>1. <<>> \in Directories /\ <<>> \in Places
    BY DirectoriesAreNested
  <2>2. g[0] = <<>>
    BY <1>1, ResolveFacts
  <2> HIDE DEF g
  <2> QED BY <2>1, <2>2, DirectoriesResolved
<1>3. \A n \in 1 .. Len(p) : g[n - 1] \in A => g[n] \in A
  <2>1. \A n \in 1 .. Len(p) : g[n] = Walk(g[n - 1], p[n])
    BY <1>1, ResolveFacts
  <2> HIDE DEF g
  <2>2. \A q : Resolved(q) => q \in Places
    BY DEF Resolved
  <2> QED BY <1>1, <2>1, <2>2, WalkResolved
<1>4. \A n \in 0 .. Len(p) : g[n] \in A
  <2> HIDE DEF g, A
  <2> QED BY <1>1, <1>2, <1>3, IterationInvariant
<1>5. g[Len(p)] = Resolve(p)
  BY <1>1, ResolveFacts
<1>6. g[Len(p)] \in A
  BY <1>1, <1>4
<1> QED BY <1>5, <1>6

-----------------------------------------------------------------------------
(* absolute_normalized: first without the file system.                     *)

Plain(at, c) == IF c = ".." THEN Parent(at) ELSE Append(at, c)

LEMMA PlainType ==
  ASSUME NEW at \in Places, NEW c \in Names
  PROVE  Plain(at, c) \in Places
<1>1. CASE c = ".." /\ at # <<>>
  <2>1. Len(at) - 1 \in 0 .. Len(at) /\ Front(at) = Prefix(at, Len(at) - 1)
    BY <1>1, FrontFacts, PlacesArePaths
  <2> QED BY <1>1, <2>1, PrefixInPlaces DEF Plain, Parent
<1>2. CASE c # ".."
  <2>1. at \in Seq(Names \ {".."}) /\ c \in Names \ {".."}
    BY <1>2 DEF Places
  <2>2. Append(at, c) \in Places
    BY <2>1, AppendProperties DEF Places
  <2> QED BY <1>2, <2>2 DEF Plain
<1> QED BY <1>1, <1>2 DEF Plain, Parent

PlainBy(f, p) ==
  f = [s \in SUBSET DOMAIN p |->
         IF s = {} THEN <<>> ELSE LET x == Max(s) IN Plain(f[s \ {x}], p[x])]

LEMMA NormalizedFacts ==
  ASSUME NEW p \in Paths
  PROVE  /\ Normalized(p) \in Places
         /\ p \in Places => Normalized(p) = p
<1> DEFINE n == Len(p)
           G == [i \in 1 .. n |-> [at \in Places |-> Plain(at, p[i])]]
           h == CHOOSE f : PlainBy(f, p)
           g == [k \in 0 .. n |-> h[1 .. k]]
<1>1. n \in Nat /\ DOMAIN p = 1 .. n /\ \A i \in 1 .. n : p[i] \in Names
  BY DEF Paths
<1>2. Normalized(p) = h[1 .. n]
  BY <1>1 DEF Normalized, FoldLeft, MapThenFoldSet, PlainBy, Plain
<1>e. <<>> \in Places
  BY DEF Places
<1>3. PlainBy(h, p)
  <2>1. G \in Steps(n, Places)
    BY <1>1, PlainType DEF Steps
  <2>2. PICK f \in [SUBSET (1 .. n) -> Places] : FoldsBy(f, n, <<>>, G)
    <3> HIDE DEF G, n
    <3> QED BY <1>1, <1>e, <2>1, FoldExists
  <2>3. ASSUME NEW s \in SUBSET (1 .. n), s # {}
        PROVE  Max(s) \in s /\ Max(s) \in 1 .. n /\ s \ {Max(s)} \in SUBSET (1 .. n)
    <3>1. \E x \in s : \A y \in s : x >= y
      BY <1>1, <2>3, LargestInside
    <3>2. Max(s) \in s
      BY <3>1 DEF Max
    <3> QED BY <3>2
  <2>4. f = [s \in SUBSET (1 .. n) |->
               IF s = {} THEN <<>> ELSE Plain(f[s \ {Max(s)}], p[Max(s)])]
    <3>1. ASSUME NEW s \in SUBSET (1 .. n), s # {}
          PROVE  G[Max(s)][f[s \ {Max(s)}]] = Plain(f[s \ {Max(s)}], p[Max(s)])
      <4>1. f[s \ {Max(s)}] \in Places
        BY <2>2, <2>3, <3>1
      <4> QED BY <2>3, <3>1, <4>1
    <3> HIDE DEF G
    <3> QED BY <2>2, <3>1 DEF FoldsBy
  <2>5. PlainBy(f, p)
    BY <1>1, <2>4 DEF PlainBy
  <2> QED BY <2>5
<1> HIDE DEF h
<1>4. g[0] = <<>>
  <2>1. 1 .. 0 = {} /\ {} \in SUBSET DOMAIN p
    OBVIOUS
  <2>2. h[{}] = <<>>
    BY <1>3, <2>1 DEF PlainBy
  <2> QED BY <1>1, <2>1, <2>2
<1>5. ASSUME NEW k \in 1 .. n
      PROVE  g[k] = Plain(g[k - 1], p[k])
  <2>1. Max(1 .. k) = k /\ (1 .. k) \ {k} = 1 .. k - 1 /\ 1 .. k # {}
    BY LargestPosition
  <2>2. 1 .. k \in SUBSET DOMAIN p
    BY <1>1
  <2>3. h[1 .. k] = Plain(h[1 .. k - 1], p[k])
    BY <1>3, <2>1, <2>2 DEF PlainBy
  <2>4. k - 1 \in 0 .. n /\ k \in 0 .. n
    BY <1>1
  <2> QED BY <2>3, <2>4
<1>6. \A k \in 0 .. n : g[k] \in Places
  <2>1. \A k \in 1 .. n : g[k - 1] \in Places => g[k] \in Places
    <3> HIDE DEF g
    <3> QED BY <1>1, <1>5, PlainType
  <2>2. n \in Nat /\ g[0] \in Places
    BY <1>1, <1>4, <1>e
  <2> HIDE DEF g, n, G
  <2> QED BY ONLY <2>1, <2>2, IterationInvariant
<1>7. Normalized(p) = g[n]
  BY <1>1, <1>2
<1>8. n \in 0 .. n
  BY <1>1
<1> HIDE DEF g
<1>9. ASSUME p \in Places PROVE g[n] = p
  <2> DEFINE S == {k \in Nat : k <= n => g[k] = Prefix(p, k)}
  <2>1. 0 \in S
    <3>1. 0 \in 0 .. Len(p)
      BY <1>1
    <3> QED BY <1>4, <3>1, PrefixFacts
  <2>2. \A k \in S \cap Nat : k + 1 \in S
    <3> SUFFICES ASSUME NEW k \in Nat, k \in S, k + 1 <= n PROVE g[k + 1] = Prefix(p, k + 1)
      OBVIOUS
    <3>1. k + 1 \in 1 .. n /\ (k + 1) - 1 = k /\ k <= n
      BY <1>1
    <3>2. p[k + 1] # ".."
      BY <1>9, <3>1 DEF Places
    <3>3. Prefix(p, k + 1) = Append(Prefix(p, k), p[k + 1])
      BY <3>1, PrefixStep
    <3>4. g[k + 1] = Plain(g[k], p[k + 1])
      BY <1>5, <3>1
    <3> QED BY <3>1, <3>2, <3>3, <3>4 DEF Plain
  <2>3. Nat \subseteq S
    <3> HIDE DEF S
    <3> QED BY <2>1, <2>2, NaturalsInSet
  <2>4. n \in S
    BY <1>1, <2>3
  <2> QED BY <1>1, <1>8, <2>4, PrefixFacts
<1> QED BY <1>6, <1>7, <1>8, <1>9

LEMMA ConcatStep ==
  ASSUME NEW at \in Paths, NEW p \in Paths, NEW n \in Nat, NEW m \in Nat, n <= m, m < Len(p)
  PROVE  /\ at \o SubSeq(p, n + 1, m) \in Paths
         /\ at \o SubSeq(p, n + 1, m + 1) = Append(at \o SubSeq(p, n + 1, m), p[m + 1])
<1> DEFINE a == SubSeq(p, n + 1, m)
           c == p[m + 1]
<1>1. at \in Seq(Names) /\ p \in Seq(Names) /\ Len(p) \in Nat
  BY DEF Paths
<1>2. n + 1 \in 1 .. Len(p) /\ m + 1 \in n + 1 .. Len(p) /\ (m + 1) - 1 = m /\ m + 1 \in 1 .. Len(p)
  BY <1>1
<1>3. SubSeq(p, n + 1, m + 1) = a \o <<c>>
  BY <1>1, <1>2, SubSeqRecursiveSecond
<1>4. a \in Seq(Names)
  <2>1. \A i \in n + 1 .. m : p[i] \in Names
    <3>1. \A i \in n + 1 .. m : i \in 1 .. Len(p)
      BY <1>1
    <3> QED BY <1>1, <3>1, ElementOfSeq
  <2> QED BY <2>1, SubSeqProperties
<1>5. c \in Names /\ <<c>> \in Seq(Names)
  BY <1>1, <1>2, ElementOfSeq, TwoNames
<1> HIDE DEF a, c
<1>6. at \o a \in Seq(Names)
  BY <1>1, <1>4, ConcatProperties
<1>7. (at \o a) \o <<c>> = at \o (a \o <<c>>)
  BY <1>1, <1>4, <1>5, ConcatAssociative
<1>8. Append(at \o a, c) = (at \o a) \o <<c>>
  BY <1>5, <1>6, AppendIsConcat
<1> QED BY <1>3, <1>6, <1>7, <1>8 DEF a, c, Paths

\* The components that do not exist are no links: they stay as they are.
LEMMA RestIsKept ==
  ASSUME FsOK(directories, files), NEW p \in Places, NEW n \in 0 .. Len(p),
         Exists(Prefix(p, n)), n < Len(p) => ~ Exists(Prefix(p, n + 1))
  PROVE  Resolve(Prefix(p, n)) \o SubSeq(p, n + 1, Len(p)) = Resolve(p)
<1> DEFINE g == [m \in 0 .. Len(p) |-> Resolve(Prefix(p, m))]
           at == Resolve(Prefix(p, n))
<1>1. p \in Paths /\ Len(p) \in Nat /\ n \in Nat /\ n <= Len(p)
      /\ \A m \in 1 .. Len(p) : p[m] \in Names /\ p[m] # ".."
  BY PlacesArePaths DEF Places
<1>2. /\ \A m \in 0 .. Len(p) : g[m] \in Paths
      /\ \A m \in 1 .. Len(p) : g[m] = Walk(g[m - 1], p[m])
      /\ g[Len(p)] = Resolve(p) /\ g[n] = at /\ g[0] = <<>>
  <2>1. \A m \in 1 .. Len(p) : m \in 0 .. Len(p) /\ m - 1 \in 0 .. Len(p)
    BY <1>1
  <2>2. 0 \in 0 .. Len(p) /\ Len(p) \in 0 .. Len(p) /\ n \in 0 .. Len(p)
    BY <1>1
  <2> QED BY <1>1, <2>1, <2>2, ResolveFacts
\* Below a directory there is nothing of the name.
<1>3. n < Len(p) /\ at \in directories => g[n + 1] \notin directories
  <2> SUFFICES ASSUME n < Len(p), at \in directories, g[n + 1] \in directories PROVE FALSE
    OBVIOUS
  <2>1. n + 1 \in 1 .. Len(p) /\ (n + 1) - 1 = n /\ n + 1 \in 0 .. Len(p)
    BY <1>1
  <2> DEFINE q == Prefix(p, n)
             r == Prefix(p, n + 1)
  <2>2. Front(r) = q /\ r # <<>> /\ Resolve(r) \in directories
    BY <1>1, <2>1, FrontOfPrefix
  <2>3. q \in Paths /\ Len(q) = n /\ Resolve(q) \in directories
    BY <1>1, PrefixFacts
  <2>4. \A m \in 0 .. n : Prefix(q, m) = Prefix(p, m)
    BY <1>1, PrefixOfPrefix
  <2>5. ASSUME NEW m \in 0 .. n PROVE Resolve(Prefix(q, m)) \in directories
    <3>1. CASE m = n
      <4>1. n \in 0 .. n
        BY <1>1
      <4> QED BY <2>3, <2>4, <3>1, <4>1
    <3>2. CASE m < n
      <4>1. n \in 1 .. Len(p) /\ n - 1 \in 0 .. Len(p) /\ m \in 0 .. n - 1
        BY <1>1, <3>2
      <4>2. q # <<>> /\ Front(q) = Prefix(p, n - 1)
        BY <1>1, <4>1, FrontOfPrefix
      <4>3. IsDirectory(Front(q))
        BY <4>2 DEF Exists
      <4>4. Len(Front(q)) = n - 1 /\ Prefix(Front(q), m) = Prefix(p, m)
        BY <1>1, <4>1, <4>2, PrefixFacts, PrefixOfPrefix
      <4>5. Resolve(Prefix(Front(q), m)) \in directories
        BY <4>1, <4>3, <4>4 DEF IsDirectory
      <4> QED BY <2>4, <4>4, <4>5
    <3> QED BY <1>1, <3>1, <3>2
  <2>6. IsDirectory(q)
    BY <2>3, <2>5 DEF IsDirectory
  <2> HIDE DEF q
  <2> QED BY <2>2, <2>6 DEF Exists
<1>4. ASSUME NEW m \in Nat, n <= m, m < Len(p), m # n => g[m] \notin directories
      PROVE  g[m + 1] = Append(g[m], p[m + 1]) /\ g[m + 1] \notin directories
  <2>1. m + 1 \in 1 .. Len(p) /\ (m + 1) - 1 = m /\ m \in 0 .. Len(p)
    BY <1>1, <1>4
  <2> DEFINE cur == g[m]
             c == p[m + 1]
  <2>2. g[m + 1] = Walk(cur, c) /\ cur \in Paths /\ c \in Names /\ c # ".."
    <3> HIDE DEF g
    <3> QED BY <1>1, <1>2, <2>1
  <2>3. CASE cur \in directories
    <3>1. m = n /\ g[m + 1] \notin directories
      <4> HIDE DEF g
      <4> QED BY <1>2, <1>3, <1>4, <2>3
    <3> HIDE DEF g, cur, c
    <3> QED BY <2>2, <2>3, <3>1, WalkLeads DEF cur, c
  <2>4. CASE cur \notin directories
    <3> HIDE DEF g, cur, c
    <3>1. Front(Append(cur, c)) = cur /\ Append(cur, c) # <<>>
      BY <2>2, AppendFacts
    <3>2. Append(cur, c) \notin DOMAIN Links /\ Append(cur, c) \notin directories
      BY <2>4, <3>1 DEF FsOK
    <3> QED BY <2>2, <3>2 DEF Walk, Follow, cur, c
  <2> QED BY <2>3, <2>4
<1> HIDE DEF g
<1>5. at \in Paths
  <2>1. n \in 0 .. Len(p)
    BY <1>1
  <2> QED BY <1>2, <2>1
<1> HIDE DEF at
<1> DEFINE q == [m \in 0 .. Len(p) |-> at \o SubSeq(p, n + 1, m)]
<1>6. g[n] = q[n]
  <2>1. SubSeq(p, n + 1, n) = <<>>
    BY <1>1, SubSeqEmpty
  <2>2. at \o <<>> = at
    BY <1>5, ConcatEmptySeq DEF Paths
  <2> QED BY <1>1, <1>2, <2>1, <2>2
<1>7. ASSUME NEW m \in Nat, n <= m, m < Len(p) PROVE q[m + 1] = Append(q[m], p[m + 1])
  <2>1. m \in 0 .. Len(p) /\ m + 1 \in 0 .. Len(p)
    BY <1>1, <1>7
  <2>2. at \o SubSeq(p, n + 1, m + 1) = Append(at \o SubSeq(p, n + 1, m), p[m + 1])
    BY <1>1, <1>5, <1>7, ConcatStep
  <2> QED BY <2>1, <2>2
<1>8. q[Len(p)] = at \o SubSeq(p, n + 1, Len(p))
  <2>1. Len(p) \in 0 .. Len(p)
    BY <1>1
  <2> QED BY <2>1
<1> HIDE DEF q
<1> DEFINE S == {i \in Nat : n + i <= Len(p) =>
                   (i # 0 => g[n + i] \notin directories) /\ g[n + i] = q[n + i]}
<1>9. 0 \in S
  BY <1>1, <1>6
<1>10. \A i \in S \cap Nat : i + 1 \in S
  <2> SUFFICES ASSUME NEW i \in Nat, i \in S, n + (i + 1) <= Len(p)
               PROVE  g[n + (i + 1)] \notin directories /\ g[n + (i + 1)] = q[n + (i + 1)]
    OBVIOUS
  <2> DEFINE m == n + i
  <2>1. m \in Nat /\ n <= m /\ m < Len(p) /\ n + (i + 1) = m + 1 /\ (m # n => i # 0) /\ m <= Len(p)
    BY <1>1
  <2>2. (m # n => g[m] \notin directories) /\ g[m] = q[m]
    BY <2>1
  <2> HIDE DEF m, S
  <2>3. g[m + 1] = Append(g[m], p[m + 1]) /\ g[m + 1] \notin directories
    BY <1>4, <2>1, <2>2
  <2>4. q[m + 1] = Append(q[m], p[m + 1])
    BY <1>7, <2>1
  <2> QED BY <2>1, <2>2, <2>3, <2>4
<1>11. Nat \subseteq S
  <2> HIDE DEF S
  <2> QED BY <1>9, <1>10, NaturalsInSet
<1>12. g[Len(p)] = q[Len(p)]
  <2> DEFINE i == Len(p) - n
  <2>1. i \in Nat /\ n + i = Len(p) /\ Len(p) <= Len(p)
    BY <1>1
  <2> HIDE DEF i
  <2>2. i \in S
    BY <1>11, <2>1
  <2>3. g[n + i] = q[n + i]
    BY <2>1, <2>2
  <2> QED BY <2>1, <2>3
<1> QED BY <1>2, <1>8, <1>12 DEF at

\* absolute_normalized leads where the path without its ".." leads.
LEMMA AbsoluteIsResolved ==
  ASSUME FsOK(directories, files), NEW path \in Paths
  PROVE  AbsoluteNormalized(path) = Resolve(Normalized(path))
<1> DEFINE p == Normalized(path)
           Good(k) == /\ Exists(Prefix(p, k))
                      /\ k < Len(p) => ~ Exists(Prefix(p, k + 1))
           n == CHOOSE k \in 0 .. Len(p) : Good(k)
<1>1. p \in Places /\ Len(p) \in Nat
  BY NormalizedFacts DEF Places
<1>2. \E k \in 0 .. Len(p) : Good(k)
  <2> SUFFICES ASSUME \A k \in 0 .. Len(p) : ~ Good(k) PROVE FALSE
    OBVIOUS
  <2> DEFINE S == {k \in Nat : k <= Len(p) => Exists(Prefix(p, k))}
  <2> HIDE DEF p
  <2>1. 0 \in S
    <3>1. 0 \in 0 .. Len(p) /\ p \in Paths
      BY <1>1, PlacesArePaths
    <3>2. Prefix(p, 0) = <<>> /\ Resolve(Prefix(p, 0)) = <<>>
      BY <3>1, PrefixFacts, ResolveFacts
    <3> QED BY <3>2 DEF Exists, FsOK
  <2>2. \A k \in S \cap Nat : k + 1 \in S
    <3> SUFFICES ASSUME NEW k \in Nat, k \in S, k + 1 <= Len(p) PROVE Exists(Prefix(p, k + 1))
      OBVIOUS
    <3>1. k \in 0 .. Len(p) /\ k < Len(p) /\ Exists(Prefix(p, k))
      BY <1>1
    <3> QED BY <3>1
  <2>3. Nat \subseteq S
    <3> HIDE DEF S
    <3> QED BY <2>1, <2>2, NaturalsInSet
  <2>4. Good(Len(p)) /\ Len(p) \in 0 .. Len(p)
    BY <1>1, <2>3
  <2> QED BY <2>4
<1>3. n \in 0 .. Len(p) /\ Good(n)
  <2> HIDE DEF Good
  <2> QED BY <1>2
<1>4. AbsoluteNormalized(path) = Resolve(Prefix(p, n)) \o SubSeq(p, n + 1, Len(p))
  BY DEF AbsoluteNormalized
<1> HIDE DEF n
<1>5. Exists(Prefix(p, n)) /\ (n < Len(p) => ~ Exists(Prefix(p, n + 1)))
  BY <1>3
<1> HIDE DEF p
<1> QED BY <1>1, <1>3, <1>4, <1>5, RestIsKept DEF p

LEMMA AbsoluteStays ==
  ASSUME FsOK(directories, files), NEW p, Resolved(p)
  PROVE  AbsoluteNormalized(p) = p
<1>1. p \in Places /\ p \in Paths
  BY PlacesArePaths DEF Resolved
<1> QED BY <1>1, AbsoluteIsResolved, NormalizedFacts, ResolvedStays

-----------------------------------------------------------------------------
(* relative_path.                                                          *)

\* Up from source to where the paths part, then down to target.
LEMMA UpAndDown ==
  ASSUME NEW source, Resolved(source), NEW target, Resolved(target),
         NEW c \in 0 .. Len(source), IsPrefix(Prefix(source, c), target)
  PROVE  Resolve(source \o ([i \in 1 .. Len(source) - c |-> ".."]
                              \o SubSeq(target, c + 1, Len(target)))) = target
<1> DEFINE s == Len(source)
           t == Len(target)
           a == s - c
           up == [i \in 1 .. a |-> ".."]
           down == SubSeq(target, c + 1, t)
           rest == up \o down
           p == source \o rest
<1>1. /\ source \in Paths /\ target \in Paths /\ source \in Seq(Names) /\ target \in Seq(Names)
      /\ s \in Nat /\ t \in Nat /\ a \in Nat /\ c \in Nat /\ c + a = s
      /\ \A i \in 1 .. t : target[i] \in Names /\ target[i] # ".."
  BY PlacesArePaths DEF Resolved, Paths, Places
<1>2. c <= t /\ Prefix(source, c) = Prefix(target, c)
  <2>1. Len(Prefix(source, c)) = c /\ Prefix(source, c) \in Paths /\ c \in 0 .. c
    BY <1>1, PrefixFacts
  <2>2. Prefix(Prefix(source, c), c) = Prefix(source, c)
    BY <2>1, PrefixFacts
  <2> QED BY <2>1, <2>2 DEF IsPrefix, Prefix
<1>3. up \in Seq(Names) /\ Len(up) = a /\ \A i \in 1 .. a : up[i] = ".."
  <2> DEFINE d == ".."
             u == [i \in 1 .. a |-> d]
  <2>1. d \in Names
    BY ProjectIsNamed
  <2> HIDE DEF d, a
  <2>2. u \in Seq(Names) /\ Len(u) = a /\ \A i \in 1 .. a : u[i] = d
    BY <1>1, <2>1
  <2> QED BY <2>2 DEF d, a
<1>4. down \in Seq(Names) /\ Len(down) = t - c /\ \A i \in 1 .. t - c : down[i] = target[c + i]
  <2>1. \A i \in c + 1 .. t : target[i] \in Names
    BY <1>1
  <2>2. /\ down \in Seq(Names) /\ Len(down) = IF c + 1 <= t THEN t - (c + 1) + 1 ELSE 0
        /\ \A i \in 1 .. t - (c + 1) + 1 : down[i] = target[(c + 1) + i - 1]
    BY <1>1, <2>1, SubSeqProperties
  <2> HIDE DEF down, t
  <2>3. \A i \in 1 .. t - c : i \in 1 .. t - (c + 1) + 1 /\ (c + 1) + i - 1 = c + i
    BY <1>1
  <2>4. Len(down) = t - c
    BY <1>1, <1>2, <2>2
  <2> QED BY <2>2, <2>3, <2>4
<1> HIDE DEF up, down, s, t, a
<1>5. /\ rest \in Seq(Names) /\ Len(rest) = a + (t - c)
      /\ \A i \in 1 .. a : rest[i] = ".."
      /\ \A i \in a + 1 .. a + (t - c) : rest[i] = target[c + (i - a)]
  <2>1. /\ rest \in Seq(Names) /\ Len(rest) = Len(up) + Len(down)
        /\ \A i \in 1 .. Len(up) + Len(down) :
             rest[i] = IF i <= Len(up) THEN up[i] ELSE down[i - Len(up)]
    BY <1>3, <1>4, ConcatProperties
  <2> HIDE DEF rest
  <2>2. Len(rest) = a + (t - c) /\ t - c \in Nat
    BY <1>1, <1>2, <1>3, <1>4, <2>1
  <2>3. \A i \in 1 .. a : rest[i] = ".."
    BY <1>1, <1>3, <2>1, <2>2
  <2>4. ASSUME NEW i \in a + 1 .. a + (t - c) PROVE rest[i] = target[c + (i - a)]
    <3>1. i \in 1 .. a + (t - c) /\ ~ (i <= a) /\ i - a \in 1 .. t - c
      BY <1>1, <2>2
    <3>2. rest[i] = down[i - a]
      BY <1>3, <2>1, <2>2, <3>1
    <3> QED BY <1>4, <3>1, <3>2
  <2> QED BY <2>1, <2>2, <2>3, <2>4
<1> HIDE DEF rest
<1> DEFINE len == s + (a + (t - c))
<1>6. /\ p \in Paths /\ Len(p) = len
      /\ \A k \in 1 .. s : p[k] = source[k]
      /\ \A k \in s + 1 .. s + a : p[k] = ".."
      /\ \A k \in s + a + 1 .. len : p[k] = target[c + (k - (s + a))]
  <2>1. /\ p \in Seq(Names) /\ Len(p) = s + Len(rest)
        /\ \A k \in 1 .. s + Len(rest) : p[k] = IF k <= s THEN source[k] ELSE rest[k - s]
    BY <1>1, <1>5, ConcatProperties DEF s
  <2> HIDE DEF p
  <2>2. \A k \in 1 .. s : p[k] = source[k]
    <3>1. \A k \in 1 .. s : k \in 1 .. s + Len(rest) /\ k <= s
      BY <1>1, <1>2, <1>5
    <3> QED BY <2>1, <3>1
  <2>3. ASSUME NEW k \in s + 1 .. s + a PROVE p[k] = ".."
    <3>1. k \in 1 .. s + Len(rest) /\ ~ (k <= s) /\ k - s \in 1 .. a
      BY <1>1, <1>2, <1>5
    <3> QED BY <1>5, <2>1, <3>1
  <2>4. ASSUME NEW k \in s + a + 1 .. len PROVE p[k] = target[c + (k - (s + a))]
    <3>1. /\ k \in 1 .. s + Len(rest) /\ ~ (k <= s) /\ k - s \in a + 1 .. a + (t - c)
          /\ (k - s) - a = k - (s + a)
      BY <1>1, <1>2, <1>5
    <3> QED BY <1>5, <2>1, <3>1
  <2> QED BY <1>5, <2>1, <2>2, <2>3, <2>4 DEF Paths
<1> HIDE DEF p
\* Where the first k components lead.
<1> DEFINE g == [k \in 0 .. len |->
                   IF k <= s THEN Prefix(source, k)
                   ELSE IF k <= s + a THEN Prefix(source, s - (k - s))
                   ELSE Prefix(target, c + (k - (s + a)))]
<1>7. len \in Nat /\ len = s + a + (t - c) /\ s + a <= len
  BY <1>1, <1>2
<1> HIDE DEF len
<1>8. g[0] = <<>> /\ g[len] = target
  <2>1. 0 \in 0 .. len /\ 0 <= s /\ len \in 0 .. len /\ 0 \in 0 .. Len(source)
    BY <1>1, <1>7 DEF s
  <2>2. g[0] = <<>>
    BY <1>1, <2>1, PrefixFacts
  <2>3. Prefix(target, t) = target
    BY <1>1, PrefixFacts DEF t
  <2>4. CASE t = c
    <3>1. len = s + a
      BY <1>1, <1>7, <2>4
    <3>2. CASE a = 0
      <4>1. len <= s /\ len = c
        BY <1>1, <3>1, <3>2
      <4> QED BY <1>2, <2>1, <2>2, <2>3, <2>4, <4>1
    <3>3. CASE a # 0
      <4>1. ~ (len <= s) /\ len <= s + a /\ s - (len - s) = c
        BY <1>1, <3>1, <3>3
      <4> QED BY <1>2, <2>1, <2>2, <2>3, <2>4, <4>1
    <3> QED BY <3>2, <3>3
  <2>5. CASE t # c
    <3>1. ~ (len <= s) /\ ~ (len <= s + a) /\ c + (len - (s + a)) = t
      BY <1>1, <1>2, <1>7, <2>5
    <3> QED BY <2>1, <2>2, <2>3, <3>1
  <2> QED BY <2>4, <2>5
<1>9. ASSUME NEW k \in 1 .. len PROVE g[k] = Walk(g[k - 1], p[k])
  <2>1. k \in 0 .. len /\ k - 1 \in 0 .. len
    BY <1>7
  <2>2. CASE k <= s
    <3>1. k \in 1 .. s /\ k - 1 <= s
      BY <1>1, <2>2
    <3>2. Prefix(source, k) = Append(Prefix(source, k - 1), source[k])
      BY <1>1, <3>1, PrefixStep DEF s
    <3>3. Prefix(source, k) \notin DOMAIN Links /\ source[k] # ".."
      BY <1>1, <3>1 DEF Resolved, s, Places
    <3>4. g[k] = Prefix(source, k) /\ g[k - 1] = Prefix(source, k - 1)
      BY <2>1, <2>2, <3>1
    <3>5. p[k] = source[k]
      BY <1>6, <3>1
    <3> HIDE DEF g
    <3> QED BY <3>2, <3>3, <3>4, <3>5 DEF Walk, Follow
  <2>3. CASE ~ (k <= s) /\ k <= s + a
    <3> DEFINE m == s - (k - s)
    <3>1. k \in s + 1 .. s + a /\ m + 1 \in 1 .. s /\ (m + 1) - 1 = m
      BY <1>1, <2>3
    <3>2. g[k] = Prefix(source, m)
      BY <2>1, <2>3
    <3>3. g[k - 1] = Prefix(source, m + 1)
      <4>1. CASE k - 1 <= s
        <5>1. m + 1 = k - 1
          BY <1>1, <2>3, <4>1
        <5> QED BY <2>1, <4>1, <5>1
      <4>2. CASE ~ (k - 1 <= s)
        <5>1. m + 1 = s - ((k - 1) - s) /\ k - 1 <= s + a
          BY <1>1, <2>3, <4>2
        <5> QED BY <2>1, <4>2, <5>1
      <4> QED BY <4>1, <4>2
    <3>4. p[k] = ".."
      BY <1>6, <3>1
    <3> HIDE DEF g, m
    <3>5. Prefix(source, m + 1) # <<>> /\ Front(Prefix(source, m + 1)) = Prefix(source, m)
      BY <1>1, <3>1, FrontOfPrefix DEF s
    <3> QED BY <3>2, <3>3, <3>4, <3>5 DEF Walk, Parent
  <2>4. CASE ~ (k <= s) /\ ~ (k <= s + a)
    <3> DEFINE m == c + (k - (s + a))
    <3>1. k \in s + a + 1 .. len /\ m \in 1 .. t /\ m - 1 \in Nat
      BY <1>1, <1>2, <1>7, <2>4
    <3>2. g[k] = Prefix(target, m)
      BY <2>1, <2>4
    <3>3. g[k - 1] = Prefix(target, m - 1)
      <4>1. CASE k - 1 = s + a
        <5>1. m - 1 = c
          BY <1>1, <4>1
        <5>2. CASE a = 0
          <6>1. k - 1 <= s /\ k - 1 = c
            BY <1>1, <4>1, <5>2
          <6> QED BY <1>2, <2>1, <5>1, <6>1
        <5>3. CASE a # 0
          <6>1. ~ (k - 1 <= s) /\ k - 1 <= s + a /\ s - ((k - 1) - s) = c
            BY <1>1, <4>1, <5>3
          <6> QED BY <1>2, <2>1, <5>1, <6>1
        <5> QED BY <5>2, <5>3
      <4>2. CASE k - 1 # s + a
        <5>1. ~ (k - 1 <= s) /\ ~ (k - 1 <= s + a) /\ c + ((k - 1) - (s + a)) = m - 1
          BY <1>1, <2>4, <4>2
        <5> QED BY <2>1, <5>1
      <4> QED BY <4>1, <4>2
    <3>4. p[k] = target[m]
      BY <1>6, <3>1
    <3> HIDE DEF g, m
    <3>5. Prefix(target, m) = Append(Prefix(target, m - 1), target[m])
      BY <1>1, <3>1, PrefixStep DEF t
    <3>6. Prefix(target, m) \notin DOMAIN Links /\ target[m] # ".."
      BY <1>1, <3>1 DEF Resolved, t
    <3> QED BY <3>2, <3>3, <3>4, <3>5, <3>6 DEF Walk, Follow
  <2> QED BY <2>2, <2>3, <2>4
<1> HIDE DEF g
<1>10. Resolve(p) = target
  BY <1>6, <1>8, <1>9, WalksAgree
<1> QED BY <1>10 DEF p, rest, up, down, a, s, t

LEMMA RelativeLeads ==
  ASSUME FsOK(directories, files), NEW from, Resolved(from), NEW to, Resolved(to)
  PROVE  Resolve(from \o RelativePath(from, to)) = to
<1> DEFINE Good(n) == /\ IsPrefix(Prefix(from, n), to)
                      /\ n < Len(from) => ~ IsPrefix(Prefix(from, n + 1), to)
           c == CHOOSE n \in 0 .. Len(from) : Good(n)
<1>1. from \in Paths /\ to \in Paths /\ Len(from) \in Nat /\ Len(to) \in Nat
  BY PlacesArePaths DEF Resolved, Paths
<1>2. \E n \in 0 .. Len(from) : Good(n)
  <2> SUFFICES ASSUME \A n \in 0 .. Len(from) : ~ Good(n) PROVE FALSE
    OBVIOUS
  <2> DEFINE S == {n \in Nat : n <= Len(from) => IsPrefix(Prefix(from, n), to)}
  <2>1. 0 \in S
    <3>1. 0 \in 0 .. Len(from) /\ 0 \in 0 .. Len(to) /\ Len(<<>>) = 0
      BY <1>1
    <3>2. Prefix(from, 0) = <<>> /\ Prefix(to, 0) = <<>>
      BY <1>1, <3>1, PrefixFacts
    <3>3. SubSeq(<<>>, 1, 0) = <<>>
      BY SubSeqEmpty
    <3>4. IsPrefix(<<>>, to)
      BY <1>1, <3>1, <3>2, <3>3 DEF IsPrefix, Prefix
    <3> QED BY <3>2, <3>4
  <2>2. \A n \in S \cap Nat : n + 1 \in S
    <3> SUFFICES ASSUME NEW n \in Nat, n \in S, n + 1 <= Len(from)
                 PROVE  IsPrefix(Prefix(from, n + 1), to)
      OBVIOUS
    <3>1. n \in 0 .. Len(from) /\ n < Len(from) /\ IsPrefix(Prefix(from, n), to)
      BY <1>1
    <3> QED BY <3>1
  <2>3. Nat \subseteq S
    <3> HIDE DEF S
    <3> QED BY <2>1, <2>2, NaturalsInSet
  <2>4. Good(Len(from)) /\ Len(from) \in 0 .. Len(from)
    BY <1>1, <2>3
  <2> QED BY <2>4
<1>3. c \in 0 .. Len(from) /\ IsPrefix(Prefix(from, c), to)
  <2>1. c \in 0 .. Len(from) /\ Good(c)
    <3> HIDE DEF Good
    <3> QED BY <1>2
  <2> QED BY <2>1
<1>4. RelativePath(from, to)
        = [i \in 1 .. Len(from) - c |-> ".."] \o SubSeq(to, c + 1, Len(to))
  BY AbsoluteStays DEF RelativePath
<1> HIDE DEF c
<1> QED BY <1>3, <1>4, UpAndDown

-----------------------------------------------------------------------------

\* The dependency that was computed leads to the runtime, whatever has been
\* created since: the way along a path does not depend on it.
LeadsToRuntime ==
  Resolve(Normalized(request.output)) = Resolve(request.output) =>
    Resolve(Resolve(request.output) \o dependency) = RuntimeDir

DInv == RInv /\ (step # "idle" \/ result = "Ok" => LeadsToRuntime)

LEMMA DependencyComputed ==
  ASSUME FsOK(directories, files), NEW o \in Paths,
         Resolve(Normalized(o)) = Resolve(o)
  PROVE  Resolve(Resolve(o) \o RelativePath(AbsoluteNormalized(o), RuntimeDir)) = RuntimeDir
<1>1. AbsoluteNormalized(o) = Resolve(o) /\ Resolved(Resolve(o))
  BY AbsoluteIsResolved, ResolveResolved
<1>2. Resolved(RuntimeDir)
  BY DirectoriesResolved, RuntimeIsThere
<1> QED BY <1>1, <1>2, RelativeLeads

LEMMA DInit == Init => DInv
BY RInit DEF Init, DInv

LEMMA DNext == DInv /\ [Next]_vars => DInv'
<1> SUFFICES ASSUME DInv, [Next]_vars PROVE DInv'
  OBVIOUS
<1>1. RInv /\ RInv'
  BY RNext DEF DInv
<1>2. CASE Start
  <2>1. \/ /\ dependency' = RelativePath(AbsoluteNormalized(request'.output), RuntimeDir)
           /\ request' \in Requests
        \/ step' = "idle" /\ result' = "Refused"
    BY <1>2 DEF Start, Finish
  <2>2. ASSUME dependency' = RelativePath(AbsoluteNormalized(request'.output), RuntimeDir),
               request' \in Requests
        PROVE  LeadsToRuntime'
    <3>1. request'.output \in Paths
      BY <2>2, RequestsArePaths
    <3>2. Resolve(Normalized(request'.output)) = Resolve(request'.output) =>
            Resolve(Resolve(request'.output) \o dependency') = RuntimeDir
      BY <1>1, <2>2, <3>1, DependencyComputed DEF RInv, Systems
    <3> QED BY <3>2 DEF LeadsToRuntime
  <2> QED BY <1>1, <2>1, <2>2 DEF DInv
<1>3. CASE Check \/ Create \/ Write \/ Kill \/ UserWrites \/ UserRemoves \/ UNCHANGED vars
  <2>1. UNCHANGED <<request, dependency>>
    BY <1>3 DEF Check, Create, Write, Kill, UserWrites, UserRemoves, Unchanged, vars
  <2>2. step' # "idle" \/ result' = "Ok" => step # "idle" \/ result = "Ok"
    BY <1>3 DEF Check, Create, Write, Kill, Finish, UserWrites, UserRemoves, vars
  <2> QED BY <1>1, <2>1, <2>2 DEF DInv, LeadsToRuntime
<1> QED BY <1>2, <1>3 DEF Next, GeneratorStep

-----------------------------------------------------------------------------
(* The theorems.                                                           *)

\* Whatever was there, and whatever earlier runs left behind when they failed
\* or were killed: a run that refuses its options, its path or a directory
\* that is not empty leaves the file system as it found it (generate_project).
THEOREM RefusalsChangeNothing == Spec => []RefusalChangesNothing
<1>1. RInv => RefusalChangesNothing
  BY DEF RInv, IInv, AsBefore, RefusalChangesNothing
<1> QED BY <1>1, RInit, RNext, PTL DEF Spec

\* The only file a step touches is not there yet, or the run's own.
LEMMA KeepsOthers == RInv /\ GeneratorStep /\ LeavesThere =>
  \A f \in DOMAIN files : files[f].run # runs' => f \in DOMAIN files' /\ files'[f] = files[f]
<1> SUFFICES ASSUME RInv, GeneratorStep, LeavesThere, NEW f \in DOMAIN files,
                    files[f].run # runs'
             PROVE  f \in DOMAIN files' /\ files'[f] = files[f]
  OBVIOUS
<1>1. \/ files' = files
      \/ /\ step = "write" /\ runs' = runs
         /\ \E whole \in BOOLEAN :
              files' = Put(Located(request.output, written + 1), Content(whole))
  BY DEF GeneratorStep, Start, Check, Create, Write, Kill, Unchanged, Torn
<1>2. CASE step = "write" /\ runs' = runs
  <2>1. f # Located(request.output, written + 1)
    BY <1>2, WritesOwn
  <2> QED BY <1>1, <2>1 DEF Put
<1> QED BY <1>1, <1>2

\* No step of a run of generate_project overwrites, truncates or removes a
\* file of the user or of an earlier run, however the run ends.
THEOREM OthersFilesKeptCorrect == Spec => OthersFilesKept
<1>1. RInv /\ [Next]_vars =>
        [GeneratorStep /\ LeavesThere =>
           \A f \in DOMAIN files :
             files[f].run # runs' => f \in DOMAIN files' /\ files'[f] = files[f]]_vars
  BY KeepsOthers
<1> QED BY <1>1, RInit, RNext, PTL DEF Spec, OthersFilesKept

\* What was in the directory before is nothing, and what is in it now is there
\* because the run wrote it.
LEMMA OkIsComplete == RInv => SuccessIsComplete
<1> SUFFICES ASSUME RInv, result = "Ok", LeavesThere
             PROVE  /\ {f \in DOMAIN files : Within(f, Resolve(request.output))}
                         = {Located(request.output, k) : k \in DOMAIN ProjectFiles}
                    /\ \A k \in DOMAIN ProjectFiles :
                         files[Located(request.output, k)] = Content(TRUE)
  BY DEF SuccessIsComplete
<1> DEFINE o == request.output
           R == Resolve(o)
<1>1. o \in Paths /\ R \in Paths /\ DOMAIN ProjectFiles = 1 .. 6 /\ written = 6
  BY RequestsArePaths, ResolveType, ProjectParts DEF RInv, Types, Progress
<1>2. FilesOfRun /\ Fresh(R, before.directories, before.files) /\ R \in directories
  <2>1. Created /\ created = Len(SourceDir(o))
    BY DEF RInv, Active, Progress
  <2>2. Len(o) \in 0 .. Len(SourceDir(o)) /\ Prefix(SourceDir(o), Len(o)) = o
    BY <1>1, SourceParts
  <2>3. R \in directories
    BY <2>1, <2>2 DEF Created
  <2> QED BY <2>3 DEF RInv, Active, WasFresh
<1> HIDE DEF o, R
<1>3. \A f \in DOMAIN files : Within(f, R) => \E k \in 1 .. 6 : f = Located(o, k)
  <2> SUFFICES ASSUME NEW f \in DOMAIN files, Within(f, R), f \in DOMAIN before.files
               PROVE  FALSE
    BY <1>1, <1>2 DEF FilesOfRun, o
  <2>1. f = R
    BY <1>1, <1>2, FreshWithin DEF RInv, Systems
  <2> QED BY <1>2, <2>1 DEF RInv, Systems, FsOK
<1>4. \A k \in 1 .. 6 :
        /\ Located(o, k) \in DOMAIN files /\ Within(Located(o, k), R)
        /\ files[Located(o, k)] = Content(TRUE)
  <2>1. \A k \in 1 .. 6 : IsPrefix(R, Located(o, k))
    BY <1>1, <1>2, LocatedFresh DEF RInv, Systems, R
  <2> QED BY <1>1, <1>2, <2>1 DEF FilesOfRun, Within, o
<1> QED BY <1>1, <1>3, <1>4 DEF o, R

\* After a run that succeeded the output directory holds the six files of this
\* run, whole, and nothing else, whatever earlier runs left (generate_project).
THEOREM SuccessIsCompleteCorrect == Spec => []SuccessIsComplete
BY OkIsComplete, RInit, RNext, PTL DEF Spec

\* The variables keep their types, and every file is in a directory.
THEOREM TypeCorrect == Spec => []TypeOK
<1>1. RInv => TypeOK
  <2> SUFFICES ASSUME RInv PROVE TypeOK
    OBVIOUS
  <2>1. Len(ProjectFiles) = 6
    BY ProjectParts
  <2>2. \A f \in DOMAIN files : f \in Places /\ f # <<>> /\ Front(f) \in directories
    BY DEF RInv, Systems, FsOK
  <2> QED BY <2>1, <2>2 DEF RInv, Types, Systems, FsOK, TypeOK, Parent
<1> QED BY <1>1, RInit, RNext, PTL DEF Spec

\* The runtime's path in the manifest leads from the output directory to the
\* runtime, through whichever links it was reached (absolute_normalized,
\* relative_path), except where the path leaves a link by "..".
THEOREM DependencyLeadsCorrect == Spec => []DependencyLeadsToRuntime
<1>1. DInv => DependencyLeadsToRuntime
  BY DEF DInv, LeadsToRuntime, DependencyLeadsToRuntime
<1> QED BY <1>1, DInit, DNext, PTL DEF Spec

-----------------------------------------------------------------------------
(* The command.                                                            *)

\* A process that parses a document first and may fail there (main.rs, run)
\* does to the file system what generate_project does: the theorems above
\* hold of it.
THEOREM CliImplementsGenerator == CliSpec => Spec
<1>1. CliInit => Init
  BY DEF CliInit
<1>2. [CliNext]_cliVars => [Next]_vars
  <2> SUFFICES ASSUME [CliNext]_cliVars PROVE Next \/ UNCHANGED vars
    OBVIOUS
  <2>1. CASE Parse \/ ParsingFails
    BY <2>1 DEF Parse, ParsingFails
  <2>2. CASE Generate
    BY <2>2 DEF Generate, Next, GeneratorStep
  <2>3. CASE Later
    BY <2>3 DEF Later
  <2>4. CASE UNCHANGED cliVars
    BY <2>4 DEF cliVars, vars
  <2> QED BY <2>1, <2>2, <2>3, <2>4 DEF CliNext
<1> QED BY <1>1, <1>2, PTL DEF CliSpec, Spec

\* So the run's claims hold of the command as well.
THEOREM CliKeepsItsPromises ==
  CliSpec => /\ OthersFilesKept
             /\ [](RefusalChangesNothing /\ SuccessIsComplete /\ DependencyLeadsToRuntime)
BY CliImplementsGenerator, RefusalsChangeNothing, OthersFilesKeptCorrect, SuccessIsCompleteCorrect,
   DependencyLeadsCorrect, PTL

-----------------------------------------------------------------------------
(* Lists.                                                                  *)

\* What FlattenSeq has put together after so many of the lists.
IsFlat(g, f) ==
  /\ DOMAIN g = 0 .. Len(f)
  /\ g[0] = <<>>
  /\ \A k \in 1 .. Len(f) : g[k] = g[k - 1] \o f[k]
Flat(f) == CHOOSE g : IsFlat(g, f)

LEMMA FlatFacts ==
  ASSUME NEW T, NEW f \in Seq(Seq(T))
  PROVE  /\ IsFlat(Flat(f), f)
         /\ \A k \in 0 .. Len(f) : Flat(f)[k] \in Seq(T)
         /\ FlattenSeq(f) = Flat(f)[Len(f)]
<1> DEFINE n == Len(f)
           A == Seq(T)
           append == [k \in 1 .. n |-> [x \in A |-> x \o f[k]]]
<1>1. n \in Nat /\ DOMAIN f = 1 .. n /\ \A k \in 1 .. n : f[k] \in A
  OBVIOUS
<1>2. <<>> \in A /\ \A x \in A, y \in A : x \o y \in A
  OBVIOUS
<1>3. append \in Steps(n, A)
  BY <1>1, <1>2 DEF Steps
<1> HIDE DEF n, A
<1>4. PICK h : Iterates(h, n, A, <<>>, append)
  <2> HIDE DEF append
  <2> QED BY <1>1, <1>2, <1>3, IterationExists
<1>5. \A k \in 0 .. n : h[k] \in A
  BY <1>4 DEF Iterates
<1>6. IsFlat(h, f)
  <2>1. ASSUME NEW k \in 1 .. n PROVE h[k] = h[k - 1] \o f[k]
    <3>1. k - 1 \in 0 .. n
      BY <1>1
    <3> QED BY <1>4, <1>5, <3>1 DEF Iterates
  <2> QED BY <1>4, <2>1 DEF Iterates, IsFlat, n
<1> DEFINE g == Flat(f)
<1>7. IsFlat(g, f)
  BY <1>6 DEF Flat
<1> HIDE DEF g
<1>8. g[0] \in A /\ \A k \in 1 .. n : g[k - 1] \in A => g[k] \in A
  BY <1>1, <1>2, <1>7 DEF IsFlat, n
<1>9. \A k \in 0 .. n : g[k] \in A
  BY ONLY <1>1, <1>8, IterationInvariant
<1>10. FlattenSeq(f) = g[n]
  <2>1. CASE n = 0
    <3>1. f = <<>>
      BY <1>1, <2>1, EmptySeq DEF n
    <3> QED BY <1>7, <2>1, <3>1 DEF FlattenSeq, IsFlat, n
  <2>2. CASE n # 0
    <3> DEFINE flatten[i \in 1 .. n] == IF i = 1 THEN f[i] ELSE flatten[i - 1] \o f[i]
               r == [i \in 1 .. n |-> g[i]]
    <3>1. FlattenSeq(f) = flatten[n]
      BY <2>2 DEF FlattenSeq, n
    <3>2. r = [i \in 1 .. n |-> IF i = 1 THEN f[i] ELSE r[i - 1] \o f[i]]
      <4>1. ASSUME NEW i \in 1 .. n, i # 1 PROVE r[i] = r[i - 1] \o f[i]
        <5>1. i - 1 \in 1 .. n
          BY <1>1, <4>1
        <5> QED BY <1>7, <5>1 DEF IsFlat, n
      <4>2. g[1] = f[1]
        <5>1. 1 \in 1 .. n /\ 1 - 1 = 0
          BY <1>1, <2>2
        <5>2. g[1] = <<>> \o f[1]
          BY <1>7, <5>1 DEF IsFlat, n
        <5> QED BY <1>1, <5>1, <5>2 DEF A
      <4> HIDE DEF flatten
      <4> QED BY <4>1, <4>2
    <3> HIDE DEF r
    <3>3. flatten = [i \in 1 .. n |-> IF i = 1 THEN f[i] ELSE flatten[i - 1] \o f[i]]
      BY <3>2
    <3> HIDE DEF flatten
    <3> DEFINE S == {k \in Nat : k + 1 <= n => flatten[k + 1] = g[k + 1]}
    <3>4. 0 \in S
      <4>1. 1 \in 1 .. n /\ r[1] = g[1]
        BY <1>1, <2>2 DEF r
      <4>2. r[1] = f[1] /\ flatten[1] = f[1]
        BY <3>2, <3>3, <4>1
      <4> QED BY ONLY <4>1, <4>2, 0 + 1 = 1, 0 \in Nat
    <3>5. ASSUME NEW k \in S PROVE k + 1 \in S
      <4> SUFFICES ASSUME (k + 1) + 1 <= n PROVE flatten[(k + 1) + 1] = g[(k + 1) + 1]
        OBVIOUS
      <4> DEFINE j == (k + 1) + 1
      <4>1. j \in 1 .. n /\ j # 1 /\ j - 1 = k + 1
        BY <1>1
      <4>2. flatten[k + 1] = g[k + 1]
        <5>1. k \in Nat /\ (k + 1 <= n => flatten[k + 1] = g[k + 1])
          BY k \in S
        <5>2. k + 1 <= n
          BY <1>1, <5>1
        <5> QED BY <5>1, <5>2
      <4> HIDE DEF j
      <4>3. flatten[j] = flatten[j - 1] \o f[j]
        BY <3>3, <4>1
      <4>4. g[j] = g[j - 1] \o f[j]
        BY <1>7, <4>1 DEF IsFlat, n
      <4> QED BY <4>1, <4>2, <4>3, <4>4 DEF j
    <3>6. n - 1 \in S /\ (n - 1) + 1 = n
      <4> HIDE DEF S
      <4> QED BY <1>1, <2>2, <3>4, <3>5, NaturalsInSet
    <3> QED BY <1>1, <3>1, <3>6
  <2> QED BY <2>1, <2>2
<1> QED BY <1>7, <1>9, <1>10 DEF g, n, A

\* The elements of the flat list are those of the lists.
LEMMA FlatElements ==
  ASSUME NEW T, NEW f \in Seq(Seq(T))
  PROVE  /\ FlattenSeq(f) \in Seq(T)
         /\ ToSet(FlattenSeq(f)) = UNION {ToSet(f[i]) : i \in DOMAIN f}
<1> DEFINE n == Len(f)
           g == Flat(f)
           Below(k) == UNION {ToSet(f[i]) : i \in 1 .. k}
<1>1. n \in Nat /\ DOMAIN f = 1 .. n /\ \A k \in 1 .. n : f[k] \in Seq(T)
  OBVIOUS
<1>2. /\ g[0] = <<>> /\ FlattenSeq(f) = g[n]
      /\ \A k \in 0 .. n : g[k] \in Seq(T)
      /\ \A k \in 1 .. n : g[k] = g[k - 1] \o f[k]
  BY FlatFacts DEF IsFlat
<1> HIDE DEF g, n
<1>3. \A x, y \in Seq(T) : ToSet(x \o y) = ToSet(x) \cup ToSet(y)
  <2> TAKE x, y \in Seq(T)
  <2>1. /\ Len(x) \in Nat /\ Len(y) \in Nat
        /\ DOMAIN x = 1 .. Len(x) /\ DOMAIN y = 1 .. Len(y)
        /\ x \o y \in Seq(T) /\ Len(x \o y) = Len(x) + Len(y)
        /\ \A i \in 1 .. Len(x) + Len(y) :
             (x \o y)[i] = IF i <= Len(x) THEN x[i] ELSE y[i - Len(x)]
    BY ConcatProperties, LenProperties
  <2>2. DOMAIN (x \o y) = 1 .. Len(x) + Len(y)
    BY <2>1, LenProperties
  <2>3. \A i \in 1 .. Len(x) : i \in 1 .. Len(x) + Len(y) /\ i <= Len(x)
    BY <2>1
  <2>4. \A i \in 1 .. Len(y) :
          Len(x) + i \in 1 .. Len(x) + Len(y) /\ ~ (Len(x) + i <= Len(x)) /\ Len(x) + i - Len(x) = i
    BY <2>1
  <2>5. \A i \in 1 .. Len(x) + Len(y) : ~ (i <= Len(x)) => i - Len(x) \in 1 .. Len(y)
    BY <2>1
  <2>6. \A i \in 1 .. Len(x) + Len(y) : i <= Len(x) => i \in 1 .. Len(x)
    BY <2>1
  <2>7. ToSet(x) \subseteq ToSet(x \o y)
    BY <2>1, <2>2, <2>3 DEF ToSet
  <2>8. ToSet(y) \subseteq ToSet(x \o y)
    <3> SUFFICES ASSUME NEW i \in 1 .. Len(y) PROVE y[i] \in ToSet(x \o y)
      BY <2>1 DEF ToSet
    <3>1. (x \o y)[Len(x) + i] = y[i]
      BY <2>1, <2>4
    <3> QED BY <2>2, <2>4, <3>1 DEF ToSet
  <2>9. ToSet(x \o y) \subseteq ToSet(x) \cup ToSet(y)
    BY <2>1, <2>2, <2>5, <2>6 DEF ToSet
  <2> QED BY <2>7, <2>8, <2>9
<1> DEFINE S == {k \in Nat : k <= n => ToSet(g[k]) = Below(k)}
<1>4. 0 \in S
  <2>1. ToSet(<<>>) = {}
    BY DEF ToSet
  <2> QED BY <1>2, <2>1
<1>5. ASSUME NEW k \in S PROVE k + 1 \in S
  <2> SUFFICES ASSUME k + 1 <= n PROVE ToSet(g[k + 1]) = Below(k + 1)
    OBVIOUS
  <2>1. k \in Nat /\ (k <= n => ToSet(g[k]) = Below(k))
    BY k \in S
  <2> HIDE DEF S
  <2>2. k + 1 \in 1 .. n /\ (k + 1) - 1 = k /\ k \in 0 .. n /\ k <= n
    <3>1. k \in Nat /\ n \in Nat
      BY <1>1, <2>1
    <3> QED BY ONLY <3>1, k + 1 <= n
  <2>3. \A i : i \in 1 .. k + 1 <=> i \in 1 .. k \/ i = k + 1
    BY <2>1
  <2>4. Below(k + 1) = Below(k) \cup ToSet(f[k + 1])
    BY <2>3
  <2> HIDE DEF Below
  <2>5. ToSet(g[k + 1]) = Below(k) \cup ToSet(f[k + 1])
    <3>1. g[k + 1] = g[k] \o f[k + 1]
      BY <1>2, <2>2
    <3>2. g[k] \in Seq(T) /\ f[k + 1] \in Seq(T)
      BY <1>1, <1>2, <2>2
    <3> QED BY <1>3, <2>1, <2>2, <3>1, <3>2
  <2> QED BY <2>5, <2>4
<1>6. n \in S
  <2> HIDE DEF S
  <2> QED BY <1>1, <1>4, <1>5, NaturalsInSet
<1> QED BY <1>1, <1>2, <1>6

-----------------------------------------------------------------------------
(* Documents.  P is an instance of AstParser, so it has its own copies of  *)
(* the operators of the community modules; they are the same operators.    *)

LEMMA SameOperators ==
  /\ \A s : P!ToSet(s) = ToSet(s)
  /\ \A f : P!FlattenSeq(f) = FlattenSeq(f)
  /\ \A s : P!Max(s) = Max(s)
BY DEF P!ToSet, ToSet, P!FlattenSeq, FlattenSeq, P!Max, Max

LEMMA DocumentFacts ==
  ASSUME NEW doc, P!DocumentOK(doc)
  PROVE  /\ Len(doc.scopes) \in Nat /\ DOMAIN doc.scopes = 1 .. Len(doc.scopes)
         /\ P!ScopeAddresses(doc) = {doc.scopes[i].addr : i \in 1 .. Len(doc.scopes)}
         /\ \A i \in 1 .. Len(doc.scopes) :
              /\ doc.scopes[i].addr[1] \in Nat
              /\ doc.scopes[i].variables \in Seq(ToSet(doc.scopes[i].variables))
              /\ doc.scopes[i].blocks \in Seq(ToSet(doc.scopes[i].blocks))
              /\ \A block \in ToSet(doc.scopes[i].blocks) :
                   /\ block.statements \in Seq(ToSet(block.statements))
                   /\ \A k \in DOMAIN block.statements : block.statements[k].kind \in P!Kinds
         /\ ToSet(doc.root) \subseteq P!ScopeAddresses(doc)
         /\ doc.scopes # <<>> => Len(doc.scopes) # 0
<1>1. doc.scopes \in Seq(ToSet(doc.scopes))
  BY SameOperators DEF P!DocumentOK, P!IsList, P!Scopes
<1>2. Len(doc.scopes) \in Nat /\ DOMAIN doc.scopes = 1 .. Len(doc.scopes)
  BY <1>1, LenProperties
<1>3. \A i \in 1 .. Len(doc.scopes) : doc.scopes[i] \in ToSet(doc.scopes)
  BY <1>2 DEF ToSet
<1>4. doc.scopes # <<>> => Len(doc.scopes) # 0
  BY <1>1, EmptySeq
<1>5. \A i \in 1 .. Len(doc.scopes) :
        /\ doc.scopes[i].addr[1] \in Nat
        /\ P!IsList(doc.scopes[i].variables) /\ P!IsList(doc.scopes[i].blocks)
        /\ \A block \in ToSet(doc.scopes[i].blocks) :
             /\ P!IsList(block.statements)
             /\ \A s \in ToSet(block.statements) : s.kind \in P!Kinds
  BY <1>3, SameOperators DEF P!DocumentOK, P!Scopes
<1>6. \A block : \A k \in DOMAIN block.statements : block.statements[k] \in ToSet(block.statements)
  BY DEF ToSet
<1> QED BY <1>2, <1>4, <1>5, <1>6, SameOperators DEF P!DocumentOK, P!IsList, P!ScopeAddresses, P!Scopes

-----------------------------------------------------------------------------
(* find_scopes. *)

\* What one step of a pass adds.
WithScope(found, scope) ==
  IF scope.above \in found THEN found \cup {scope.addr} ELSE found

PassesBy(f, doc, known) ==
  f = [s \in SUBSET DOMAIN doc.scopes |->
         IF s = {} THEN known ELSE LET x == Max(s) IN WithScope(f[s \ {x}], doc.scopes[x])]

\* A pass takes the scopes in file order.
LEMMA PassRuns ==
  ASSUME NEW doc, P!DocumentOK(doc), NEW known
  PROVE  \E g : /\ g[0] = known /\ g[Len(doc.scopes)] = P!PassOnce(doc, known)
                /\ \A k \in 1 .. Len(doc.scopes) : g[k] = WithScope(g[k - 1], doc.scopes[k])
<1> DEFINE n == Len(doc.scopes)
           A == SUBSET (known \cup P!ScopeAddresses(doc))
           G == [i \in 1 .. n |-> [found \in A |-> WithScope(found, doc.scopes[i])]]
           h == CHOOSE f : PassesBy(f, doc, known)
           g == [k \in 0 .. n |-> h[1 .. k]]
<1>1. n \in Nat /\ DOMAIN doc.scopes = 1 .. n /\ \A i \in 1 .. n : doc.scopes[i].addr \in P!ScopeAddresses(doc)
  BY DocumentFacts
<1>2. P!PassOnce(doc, known) = h[1 .. n]
  BY <1>1, SameOperators
     DEF P!PassOnce, P!FoldLeft, P!MapThenFoldSet, PassesBy, WithScope, P!Scopes, P!Max, Max
<1>3. PassesBy(h, doc, known)
  <2>1. G \in Steps(n, A)
    BY <1>1 DEF Steps, WithScope
  <2>2. PICK f \in [SUBSET (1 .. n) -> A] : FoldsBy(f, n, known, G)
    <3>1. known \in A
      OBVIOUS
    <3> HIDE DEF G, n, A
    <3> QED BY <1>1, <2>1, <3>1, FoldExists
  <2>3. ASSUME NEW s \in SUBSET (1 .. n), s # {}
        PROVE  Max(s) \in s /\ Max(s) \in 1 .. n /\ s \ {Max(s)} \in SUBSET (1 .. n)
    <3>1. \E x \in s : \A y \in s : x >= y
      BY <1>1, <2>3, LargestInside
    <3>2. Max(s) \in s
      BY <3>1 DEF Max
    <3> QED BY <3>2
  <2>4. f = [s \in SUBSET (1 .. n) |->
               IF s = {} THEN known ELSE WithScope(f[s \ {Max(s)}], doc.scopes[Max(s)])]
    <3>1. ASSUME NEW s \in SUBSET (1 .. n), s # {}
          PROVE  G[Max(s)][f[s \ {Max(s)}]] = WithScope(f[s \ {Max(s)}], doc.scopes[Max(s)])
      <4>1. f[s \ {Max(s)}] \in A
        BY <2>2, <2>3, <3>1
      <4> HIDE DEF A
      <4> QED BY <2>3, <3>1, <4>1
    <3> HIDE DEF G, A
    <3> QED BY <2>2, <3>1 DEF FoldsBy
  <2>5. PassesBy(f, doc, known)
    BY <1>1, <2>4 DEF PassesBy
  <2> QED BY <2>5
<1> HIDE DEF h
<1>4. g[0] = known
  <2>1. 1 .. 0 = {} /\ {} \in SUBSET DOMAIN doc.scopes
    OBVIOUS
  <2>2. h[{}] = known
    BY <1>3, <2>1 DEF PassesBy
  <2> QED BY <1>1, <2>1, <2>2
<1>5. ASSUME NEW k \in 1 .. n
      PROVE  g[k] = WithScope(g[k - 1], doc.scopes[k])
  <2>1. Max(1 .. k) = k /\ (1 .. k) \ {k} = 1 .. k - 1 /\ 1 .. k # {}
    BY LargestPosition
  <2>2. 1 .. k \in SUBSET DOMAIN doc.scopes
    BY <1>1
  <2>3. h[1 .. k] = WithScope(h[1 .. k - 1], doc.scopes[k])
    BY <1>3, <2>1, <2>2 DEF PassesBy
  <2>4. k - 1 \in 0 .. n /\ k \in 0 .. n
    BY <1>1
  <2> QED BY <2>3, <2>4
<1>6. g[n] = P!PassOnce(doc, known)
  <2>1. n \in 0 .. n
    BY <1>1
  <2> QED BY <1>2, <2>1
<1> HIDE DEF g
<1> QED BY <1>4, <1>5, <1>6

\* A set of scopes has with a scope the scopes below it.
ClosedBelow(doc, set) == \A i \in DOMAIN doc.scopes : doc.scopes[i].above \in set => doc.scopes[i].addr \in set

\* A pass stays inside of the hierarchy, and adds nothing only if there is
\* nothing left to add.
LEMMA PassFacts ==
  ASSUME NEW doc, P!DocumentOK(doc), NEW known
  PROVE  /\ known \subseteq P!PassOnce(doc, known)
         /\ \A set : known \subseteq set /\ ClosedBelow(doc, set) => P!PassOnce(doc, known) \subseteq set
         /\ P!PassOnce(doc, known) = known => ClosedBelow(doc, known)
<1> DEFINE n == Len(doc.scopes)
<1>1. n \in Nat /\ DOMAIN doc.scopes = 1 .. n
  BY DocumentFacts
<1>2. PICK g : /\ g[0] = known /\ g[n] = P!PassOnce(doc, known)
               /\ \A k \in 1 .. n : g[k] = WithScope(g[k - 1], doc.scopes[k])
  BY PassRuns
<1> HIDE DEF n
<1>3. n \in 0 .. n /\ 0 \in 0 .. n
  BY <1>1
<1>4. ASSUME NEW T, known \subseteq T, ClosedBelow(doc, T)
      PROVE  \A k \in 0 .. n : g[k] \in SUBSET T
  <2>1. \A k \in 1 .. n : g[k - 1] \in SUBSET T => g[k] \in SUBSET T
    BY <1>1, <1>2, <1>4, ZenonT(60) DEF WithScope, ClosedBelow
  <2>2. g[0] \in SUBSET T
    BY <1>2, <1>4
  <2> QED BY ONLY <1>1, <2>1, <2>2, IterationInvariant
<1> DEFINE U == known \cup P!ScopeAddresses(doc)
<1>5. \A k \in 0 .. n : g[k] \in SUBSET U
  <2>1. known \subseteq U /\ ClosedBelow(doc, U)
    BY <1>1, DocumentFacts DEF ClosedBelow, n
  <2> HIDE DEF U
  <2> QED BY <1>4, <2>1
\* What is found once stays.
<1>6. ASSUME NEW m \in 0 .. n, NEW a \in g[m]
      PROVE  a \in g[n]
  <2> DEFINE C == {set \in SUBSET U : a \in set}
             f == [k \in 0 .. n |-> IF k < m THEN {a} ELSE g[k]]
  <2>1. f[0] \in C
    BY <1>1, <1>3, <1>5, <1>6
  <2>2. ASSUME NEW k \in 1 .. n, f[k - 1] \in C PROVE f[k] \in C
    <3>1. k \in 0 .. n /\ k - 1 \in 0 .. n /\ m \in Nat
      BY <1>1, <1>6
    <3>2. CASE k < m \/ k = m
      BY <1>5, <1>6, <3>1, <3>2
    <3>3. CASE k > m
      <4>1. ~ (k - 1 < m) /\ ~ (k < m)
        BY <3>1, <3>3
      <4>2. a \in g[k - 1]
        BY <2>2, <3>1, <4>1
      <4> QED BY <1>2, <1>5, <3>1, <4>1, <4>2 DEF WithScope
    <3> QED BY <3>1, <3>2, <3>3
  <2>3. f[n] \in C
    <3>1. \A k \in 0 .. n : f[k] \in C
      <4> HIDE DEF f, C
      <4> QED BY ONLY <1>1, <2>1, <2>2, IterationInvariant
    <3> QED BY <1>3, <3>1
  <2>4. ~ (n < m)
    BY <1>1, <1>6
  <2> QED BY <1>3, <2>3, <2>4
<1>7. ASSUME g[n] = known PROVE ClosedBelow(doc, known)
  <2> SUFFICES ASSUME NEW i \in 1 .. n, doc.scopes[i].above \in known
               PROVE  doc.scopes[i].addr \in known
    BY <1>1 DEF ClosedBelow
  <2>1. i \in 0 .. n /\ i - 1 \in 0 .. n
    BY <1>1
  <2> DEFINE j == i - 1
  <2>2. known \subseteq g[j]
    <3> HIDE DEF j
    <3> SUFFICES ASSUME NEW a \in known PROVE a \in g[j]
      OBVIOUS
    <3> DEFINE C == {set \in SUBSET U : a \in set}
    <3>1. g[0] \in C
      BY <1>2
    <3>2. \A k \in 1 .. n : g[k - 1] \in C => g[k] \in C
      <4> SUFFICES ASSUME NEW k \in 1 .. n, g[k - 1] \in C PROVE g[k] \in C
        OBVIOUS
      <4>1. k \in 0 .. n
        BY <1>1
      <4> QED BY <1>2, <1>5, <4>1 DEF WithScope
    <3>3. \A k \in 0 .. n : g[k] \in C
      <4> HIDE DEF C
      <4> QED BY ONLY <1>1, <3>1, <3>2, IterationInvariant
    <3> QED BY <2>1, <3>3 DEF j
  <2>3. doc.scopes[i].addr \in g[i]
    BY <1>2, <2>2 DEF WithScope
  <2> QED BY <1>6, <1>7, <2>1, <2>3
<1>8. known \subseteq g[n]
  BY <1>2, <1>3, <1>6
<1>9. \A set : known \subseteq set /\ ClosedBelow(doc, set) => g[n] \subseteq set
  BY <1>3, <1>4
<1> QED BY <1>2, <1>7, <1>8, <1>9

\* The scopes the design is made of.
Hierarchy(doc) == {addr \in P!ScopeAddresses(doc) : P!InHierarchy(doc, addr)}

LEMMA BelowInHierarchy ==
  ASSUME NEW doc, P!DocumentOK(doc), doc.root # <<>>, NEW addr
  PROVE  P!InHierarchy(doc, addr) <=>
           \A set \in SUBSET P!ScopeAddresses(doc) :
             ToSet(doc.root) \subseteq set /\ ClosedBelow(doc, set) => addr \in set
<1>1. \A set : ClosedBelow(doc, set) <=>
        \A scope \in P!ToSet(P!Scopes(doc)) : scope.above \in set => scope.addr \in set
  BY SameOperators DEF ClosedBelow, P!ToSet, P!Scopes
<1> QED BY <1>1, SameOperators DEF P!InHierarchy

\* Between the roots and the hierarchy, a pass stays there, and has reached
\* the hierarchy if it adds nothing.
LEMMA PassInHierarchy ==
  ASSUME NEW doc, P!DocumentOK(doc), doc.root # <<>>,
         NEW known, ToSet(doc.root) \subseteq known, known \subseteq Hierarchy(doc)
  PROVE  /\ ToSet(doc.root) \subseteq P!PassOnce(doc, known)
         /\ P!PassOnce(doc, known) \subseteq Hierarchy(doc)
         /\ P!PassOnce(doc, known) = known => known = Hierarchy(doc)
<1>1. ToSet(doc.root) \subseteq P!PassOnce(doc, known)
  BY PassFacts
<1>2. known \subseteq P!ScopeAddresses(doc)
  BY DEF Hierarchy
<1>3. P!PassOnce(doc, known) \subseteq P!ScopeAddresses(doc)
  <2>1. ClosedBelow(doc, P!ScopeAddresses(doc))
    BY DocumentFacts DEF ClosedBelow
  <2> QED BY <1>2, <2>1, PassFacts
<1>4. P!PassOnce(doc, known) \subseteq Hierarchy(doc)
  <2> SUFFICES ASSUME NEW a \in P!PassOnce(doc, known) PROVE P!InHierarchy(doc, a)
    BY <1>3 DEF Hierarchy
  <2> SUFFICES ASSUME NEW set \in SUBSET P!ScopeAddresses(doc),
                      ToSet(doc.root) \subseteq set, ClosedBelow(doc, set)
               PROVE  a \in set
    BY BelowInHierarchy
  <2>1. known \subseteq set
    BY BelowInHierarchy DEF Hierarchy
  <2> QED BY <2>1, PassFacts
<1>5. ASSUME P!PassOnce(doc, known) = known PROVE Hierarchy(doc) \subseteq known
  <2>1. ClosedBelow(doc, known)
    BY <1>5, PassFacts
  <2> QED BY <1>2, <2>1, BelowInHierarchy DEF Hierarchy
<1> QED BY <1>1, <1>4, <1>5

LEMMA LegacyFacts ==
  ASSUME NEW doc, P!DocumentOK(doc), doc.root = <<>>, doc.scopes # <<>>
  PROVE  {P!LegacyScope(doc).addr} = Hierarchy(doc)
<1> DEFINE all == {doc.scopes[i] : i \in DOMAIN doc.scopes}
           tops == {s \in all : s.addr[2] = "TOP"}
           full == {s \in tops : s.blocks # <<>>}
           best == IF full # {} THEN full ELSE IF tops # {} THEN tops ELSE all
           ids == {s.addr[1] : s \in best}
<1>1. P!LegacyScope(doc) = CHOOSE s \in best : \A t \in best : s.addr[1] <= t.addr[1]
  BY DEF P!LegacyScope, P!Scopes
<1>2. all # {} /\ (\A s \in all : s.addr[1] \in Nat) /\ (\A s \in all : s.addr \in P!ScopeAddresses(doc))
  <2>1. Len(doc.scopes) \in Nat /\ Len(doc.scopes) # 0 /\ DOMAIN doc.scopes = 1 .. Len(doc.scopes)
    BY DocumentFacts
  <2>2. 1 \in DOMAIN doc.scopes
    BY <2>1
  <2> QED BY <2>2, DocumentFacts
<1>3. best # {} /\ best \subseteq all
  BY <1>2
<1> HIDE DEF best, all
<1>4. PICK x \in ids : \A y \in ids : x <= y
  <2>1. ids \subseteq Nat /\ ids # {}
    BY <1>2, <1>3
  <2> HIDE DEF ids
  <2> QED BY <2>1, LeastNatural
<1>5. \E s \in best : \A t \in best : s.addr[1] <= t.addr[1]
  BY <1>4
<1>6. P!LegacyScope(doc) \in best
  BY <1>1, <1>5
<1>7. P!LegacyScope(doc).addr \in P!ScopeAddresses(doc)
  BY <1>2, <1>3, <1>6
<1> QED BY <1>7 DEF Hierarchy, P!InHierarchy

LEMMA RootsInHierarchy ==
  ASSUME NEW doc, P!DocumentOK(doc), doc.root # <<>>
  PROVE  ToSet(doc.root) \subseteq Hierarchy(doc)
BY DocumentFacts, BelowInHierarchy DEF Hierarchy

-----------------------------------------------------------------------------
(* The lists that are put together from the scopes. *)

LEMMA ListsOfLists ==
  ASSUME NEW n \in Nat, NEW f, f = [i \in 1 .. n |-> f[i]],
         \A i \in 1 .. n : f[i] \in Seq(ToSet(f[i]))
  PROVE  /\ FlattenSeq(f) \in Seq(UNION {ToSet(f[i]) : i \in 1 .. n})
         /\ f \in Seq(Seq(UNION {ToSet(f[i]) : i \in 1 .. n}))
         /\ Len(f) = n
         /\ ToSet(FlattenSeq(f)) = UNION {ToSet(f[i]) : i \in 1 .. n}
<1> DEFINE T == UNION {ToSet(f[i]) : i \in 1 .. n}
<1>1. \A i \in 1 .. n : f[i] \in Seq(T)
  <2> SUFFICES ASSUME NEW i \in 1 .. n PROVE f[i] \in Seq(T)
    OBVIOUS
  <2>1. ToSet(f[i]) \subseteq T
    OBVIOUS
  <2> HIDE DEF T
  <2> QED BY <2>1, SeqMonotonic
<1> HIDE DEF T
<1>2. f \in [1 .. n -> Seq(T)]
  BY <1>1
<1>3. f \in Seq(Seq(T)) /\ Len(f) = n /\ DOMAIN f = 1 .. n
  BY <1>2, SeqDef, LenProperties
<1>4. FlattenSeq(f) \in Seq(T) /\ ToSet(FlattenSeq(f)) = UNION {ToSet(f[i]) : i \in DOMAIN f}
  BY <1>3, FlatElements
<1> QED BY <1>3, <1>4 DEF T

LEMMA EmptyList == <<>> \in Seq(ToSet(<<>>)) /\ ToSet(<<>>) = {}
BY DEF ToSet

LEMMA BlocksFacts ==
  ASSUME NEW doc, P!DocumentOK(doc), NEW found
  PROVE  /\ P!ActiveBlocks(doc, found) \in Seq(ToSet(P!ActiveBlocks(doc, found)))
         /\ \A block \in ToSet(P!ActiveBlocks(doc, found)) :
              /\ block.statements \in Seq(ToSet(block.statements))
              /\ \A k \in DOMAIN block.statements : block.statements[k].kind \in P!Kinds
         /\ \A i \in DOMAIN doc.scopes : doc.scopes[i].addr \in found =>
              \A k \in DOMAIN doc.scopes[i].blocks :
                doc.scopes[i].blocks[k] \in ToSet(P!ActiveBlocks(doc, found))
<1> DEFINE n == Len(doc.scopes)
           f == [i \in 1 .. n |-> IF doc.scopes[i].addr \in found THEN doc.scopes[i].blocks ELSE <<>>]
           T == UNION {ToSet(f[i]) : i \in 1 .. n}
<1>1. n \in Nat /\ DOMAIN doc.scopes = 1 .. n
  BY DocumentFacts
<1>2. P!ActiveBlocks(doc, found) = FlattenSeq(f)
  BY <1>1, SameOperators DEF P!ActiveBlocks, P!Scopes
<1>3. \A i \in 1 .. n : f[i] \in Seq(ToSet(f[i]))
  BY DocumentFacts, EmptyList
<1>4. FlattenSeq(f) \in Seq(T) /\ ToSet(FlattenSeq(f)) = T
  <2>1. f = [i \in 1 .. n |-> f[i]]
    OBVIOUS
  <2> HIDE DEF f, n
  <2>2. FlattenSeq(f) \in Seq(T)
    BY <1>1, <1>3, <2>1, ListsOfLists, SMTT(30)
  <2>3. ToSet(FlattenSeq(f)) = T
    BY <1>1, <1>3, <2>1, ListsOfLists
  <2> QED BY <2>2, <2>3
<1>5. \A i \in 1 .. n : ToSet(f[i]) \subseteq ToSet(doc.scopes[i].blocks)
  BY EmptyList
<1>6. \A block \in T :
              /\ block.statements \in Seq(ToSet(block.statements))
              /\ \A k \in DOMAIN block.statements : block.statements[k].kind \in P!Kinds
  <2> HIDE DEF f
  <2> QED BY <1>5, DocumentFacts
<1>7. \A i \in 1 .. n : doc.scopes[i].addr \in found =>
        \A k \in DOMAIN doc.scopes[i].blocks : doc.scopes[i].blocks[k] \in T
  <2> SUFFICES ASSUME NEW i \in 1 .. n, doc.scopes[i].addr \in found,
                      NEW k \in DOMAIN doc.scopes[i].blocks
               PROVE  doc.scopes[i].blocks[k] \in T
    OBVIOUS
  <2>1. doc.scopes[i].blocks[k] \in ToSet(f[i])
    BY DEF ToSet
  <2> QED BY <2>1
<1> QED BY <1>1, <1>2, <1>4, <1>6, <1>7

LEMMA VariablesFacts ==
  ASSUME NEW doc, P!DocumentOK(doc), NEW found
  PROVE  DOMAIN P!VariablesOf(doc, found) \subseteq Nat
<1> DEFINE n == Len(doc.scopes)
           Part(scope) ==
             IF scope.addr \in found
             THEN [k \in DOMAIN scope.variables |->
                     [scope |-> scope.addr, name |-> scope.variables[k].name,
                      direction |-> scope.variables[k].direction, width |-> scope.variables[k].width]]
             ELSE <<>>
           f == [i \in 1 .. n |-> Part(doc.scopes[i])]
           T == UNION {ToSet(f[i]) : i \in 1 .. n}
<1>1. n \in Nat /\ DOMAIN doc.scopes = 1 .. n
  BY DocumentFacts
<1>2. P!VariablesOf(doc, found) = FlattenSeq(f)
  BY <1>1, SameOperators DEF P!VariablesOf, P!Scopes
<1>3. ASSUME NEW i \in 1 .. n PROVE f[i] \in Seq(ToSet(f[i]))
  <2>1. CASE doc.scopes[i].addr \notin found
    BY <2>1, EmptyList
  <2>2. CASE doc.scopes[i].addr \in found
    <3>1. PICK m \in Nat : DOMAIN doc.scopes[i].variables = 1 .. m
      <4>1. doc.scopes[i].variables \in Seq(ToSet(doc.scopes[i].variables))
        BY DocumentFacts
      <4> QED BY <4>1, LenProperties
    <3>2. f[i] = [k \in 1 .. m |-> f[i][k]]
      BY <2>2, <3>1
    <3> HIDE DEF f
    <3>3. f[i] \in [1 .. m -> ToSet(f[i])]
      BY <3>2 DEF ToSet
    <3> QED BY <3>3, SeqDef
  <2> QED BY <2>1, <2>2
<1>4. FlattenSeq(f) \in Seq(T)
  <2>1. f = [i \in 1 .. n |-> f[i]]
    OBVIOUS
  <2> HIDE DEF f, n
  <2> QED BY <1>1, <1>3, <2>1, ListsOfLists, SMTT(30)
<1> HIDE DEF f, T
<1>5. DOMAIN FlattenSeq(f) = 1 .. Len(FlattenSeq(f)) /\ Len(FlattenSeq(f)) \in Nat
  BY <1>4, LenProperties
<1> QED BY <1>2, <1>5

-----------------------------------------------------------------------------
(* parse_block: which statements each list gets. *)

NameOf == [static |-> "", initial |-> "", combinational |-> "", sequential |-> "sequent"]
KindsOf == [static |-> {"INITIALSTATIC"}, initial |-> {"INITIAL"}, combinational |-> {"ALWAYS"},
            sequential |-> {"INITIALSTATIC", "INITIAL", "ALWAYS"}]
ListNames == {"static", "initial", "combinational", "sequential"}

Picked(statements, kinds) ==
  [i \in DOMAIN statements |-> IF statements[i].kind \in kinds THEN <<statements[i]>> ELSE <<>>]

\* What a block adds to a list.
Share(block, x) ==
  IF block.name = NameOf[x] THEN P!Kept(block.statements, KindsOf[x]) ELSE <<>>

LEMMA KeptFacts ==
  ASSUME NEW T, NEW statements \in Seq(T), NEW kinds
  PROVE  /\ P!Kept(statements, kinds) = Flat(Picked(statements, kinds))[Len(statements)]
         /\ IsFlat(Flat(Picked(statements, kinds)), Picked(statements, kinds))
         /\ Len(Picked(statements, kinds)) = Len(statements)
         /\ \A k \in 0 .. Len(statements) : Flat(Picked(statements, kinds))[k] \in Seq(T)
<1> DEFINE f == Picked(statements, kinds)
           n == Len(statements)
<1>1. n \in Nat /\ DOMAIN statements = 1 .. n /\ \A i \in 1 .. n : statements[i] \in T
  BY LenProperties, ElementOfSeq
<1>2. f \in [1 .. n -> Seq(T)]
  <2>1. \A i \in 1 .. n : <<statements[i]>> \in Seq(T) /\ <<>> \in Seq(T)
    BY <1>1
  <2> QED BY <1>1, <2>1 DEF Picked
<1>3. P!Kept(statements, kinds) = FlattenSeq(f)
  BY SameOperators DEF P!Kept, Picked
<1> HIDE DEF f
<1>4. f \in Seq(Seq(T)) /\ Len(f) = n
  BY <1>1, <1>2, SeqDef, LenProperties
<1>5. IsFlat(Flat(f), f) /\ FlattenSeq(f) = Flat(f)[n] /\ \A k \in 0 .. n : Flat(f)[k] \in Seq(T)
  BY <1>4, FlatFacts
<1> QED BY <1>3, <1>4, <1>5 DEF f

LEMMA ListTables ==
  /\ "static" \in ListNames /\ "initial" \in ListNames /\ "combinational" \in ListNames
  /\ "sequential" \in ListNames
  /\ \A x \in ListNames : x \in {"static", "initial", "combinational", "sequential"}
  /\ NameOf["static"] = "" /\ NameOf["initial"] = "" /\ NameOf["combinational"] = ""
  /\ NameOf["sequential"] = "sequent"
  /\ KindsOf["static"] = {"INITIALSTATIC"} /\ KindsOf["initial"] = {"INITIAL"}
  /\ KindsOf["combinational"] = {"ALWAYS"}
  /\ KindsOf["sequential"] = {"INITIALSTATIC", "INITIAL", "ALWAYS"}
BY DEF ListNames, NameOf, KindsOf

LEMMA ListOfFacts ==
  ASSUME NEW block, P!Parsed(block), NEW s, s.kind \in P!Kinds, s.kind # "OTHER"
  PROVE  /\ P!ListOf(block, s) \in ListNames
         /\ \A x \in ListNames :
              x = P!ListOf(block, s) <=> block.name = NameOf[x] /\ s.kind \in KindsOf[x]
<1>1. s.kind \in {"INITIALSTATIC", "INITIAL", "ALWAYS"} /\ block.name \in {"", "sequent"}
  BY DEF P!Kinds, P!Parsed
<1>2. CASE block.name = ""
  <2>1. CASE s.kind = "INITIALSTATIC"
    <3>1. P!ListOf(block, s) = "static"
      BY <1>2, <2>1 DEF P!ListOf
    <3> QED BY <1>2, <2>1, <3>1, ListTables
  <2>2. CASE s.kind = "INITIAL"
    <3>1. P!ListOf(block, s) = "initial"
      BY <1>2, <2>2 DEF P!ListOf
    <3> QED BY <1>2, <2>2, <3>1, ListTables
  <2>3. CASE s.kind = "ALWAYS"
    <3>1. P!ListOf(block, s) = "combinational"
      BY <1>2, <2>3 DEF P!ListOf
    <3> QED BY <1>2, <2>3, <3>1, ListTables
  <2> QED BY <1>1, <2>1, <2>2, <2>3
<1>3. CASE block.name = "sequent"
  BY <1>1, <1>3 DEF P!ListOf, ListNames, NameOf, KindsOf
<1> QED BY <1>1, <1>2, <1>3

\* What a statement does to the lists.
WithStatement(now, block, s) == [now EXCEPT ![P!ListOf(block, s)] = Append(@, s)]

AddsBy(f, block, sorted) ==
  f = [s \in SUBSET DOMAIN block.statements |->
         IF s = {} THEN sorted
         ELSE LET x == Max(s) IN WithStatement(f[s \ {x}], block, block.statements[x])]

\* Statement by statement.
LEMMA AddedRuns ==
  ASSUME NEW T, NEW block, block.statements \in Seq(T), NEW sorted \in [ListNames -> Seq(T)]
  PROVE  \E g : /\ g[0] = sorted /\ g[Len(block.statements)] = P!Added(sorted, block)
                /\ \A k \in 1 .. Len(block.statements) :
                     g[k] = WithStatement(g[k - 1], block, block.statements[k])
<1> DEFINE st == block.statements
           n == Len(st)
           A == [ListNames -> Seq(T)]
           Put1(now, s) == WithStatement(now, block, s)
           G == [i \in 1 .. n |-> [now \in A |-> Put1(now, st[i])]]
           h == CHOOSE f : AddsBy(f, block, sorted)
           g == [k \in 0 .. n |-> h[1 .. k]]
<1>1. n \in Nat /\ DOMAIN st = 1 .. n /\ \A i \in 1 .. n : st[i] \in T
  BY LenProperties, ElementOfSeq
<1>2. P!Added(sorted, block) = h[1 .. n]
  BY <1>1 DEF P!Added, P!FoldLeft, P!MapThenFoldSet, AddsBy, WithStatement, P!Max, Max
<1>3. AddsBy(h, block, sorted)
  <2>1. G \in Steps(n, A)
    <3>1. ASSUME NEW i \in 1 .. n, NEW now \in A PROVE Put1(now, st[i]) \in A
      <4>1. \A x \in ListNames : Append(now[x], st[i]) \in Seq(T)
        BY <1>1, AppendProperties
      <4> QED BY <4>1 DEF WithStatement
    <3> HIDE DEF Put1, A
    <3> QED BY <3>1 DEF Steps
  <2>2. PICK f \in [SUBSET (1 .. n) -> A] : FoldsBy(f, n, sorted, G)
    <3>1. sorted \in A
      OBVIOUS
    <3> HIDE DEF G, n, A
    <3> QED BY <1>1, <2>1, <3>1, FoldExists
  <2>3. ASSUME NEW s \in SUBSET (1 .. n), s # {}
        PROVE  Max(s) \in s /\ Max(s) \in 1 .. n /\ s \ {Max(s)} \in SUBSET (1 .. n)
    <3>1. \E x \in s : \A y \in s : x >= y
      BY <1>1, <2>3, LargestInside
    <3>2. Max(s) \in s
      BY <3>1 DEF Max
    <3> QED BY <3>2
  <2>4. f = [s \in SUBSET (1 .. n) |->
               IF s = {} THEN sorted ELSE Put1(f[s \ {Max(s)}], st[Max(s)])]
    <3>1. ASSUME NEW s \in SUBSET (1 .. n), s # {}
          PROVE  G[Max(s)][f[s \ {Max(s)}]] = Put1(f[s \ {Max(s)}], st[Max(s)])
      <4>1. f[s \ {Max(s)}] \in A
        BY <2>2, <2>3, <3>1
      <4> HIDE DEF A, Put1
      <4> QED BY <2>3, <3>1, <4>1
    <3> HIDE DEF G, A, Put1
    <3> QED BY <2>2, <3>1 DEF FoldsBy
  <2>5. AddsBy(f, block, sorted)
    BY <1>1, <2>4 DEF AddsBy
  <2> QED BY <2>5
<1> HIDE DEF h
<1>4. g[0] = sorted
  <2>1. 1 .. 0 = {} /\ {} \in SUBSET DOMAIN st
    OBVIOUS
  <2>2. h[{}] = sorted
    BY <1>3, <2>1 DEF AddsBy
  <2> QED BY <1>1, <2>1, <2>2
<1>5. ASSUME NEW k \in 1 .. n
      PROVE  g[k] = Put1(g[k - 1], st[k])
  <2>1. Max(1 .. k) = k /\ (1 .. k) \ {k} = 1 .. k - 1 /\ 1 .. k # {}
    BY LargestPosition
  <2>2. 1 .. k \in SUBSET DOMAIN st
    BY <1>1
  <2>3. h[1 .. k] = Put1(h[1 .. k - 1], st[k])
    BY <1>3, <2>1, <2>2 DEF AddsBy
  <2>4. k - 1 \in 0 .. n /\ k \in 0 .. n
    BY <1>1
  <2> HIDE DEF Put1
  <2> QED BY <2>3, <2>4
<1>6. g[n] = P!Added(sorted, block)
  <2>1. n \in 0 .. n
    BY <1>1
  <2> QED BY <1>2, <2>1
<1> HIDE DEF g
<1> QED BY <1>4, <1>5, <1>6

\* A block adds its share to each list.
LEMMA AddedFacts ==
  ASSUME NEW T, NEW block, block.statements \in Seq(T), P!Parsed(block), P!Supported(block),
         \A k \in DOMAIN block.statements : block.statements[k].kind \in P!Kinds,
         NEW sorted \in [ListNames -> Seq(T)]
  PROVE  /\ P!Added(sorted, block) \in [ListNames -> Seq(T)]
         /\ \A x \in ListNames : P!Added(sorted, block)[x] = sorted[x] \o Share(block, x)
<1> DEFINE st == block.statements
           n == Len(st)
           Part(x, k) == IF block.name = NameOf[x] THEN Flat(Picked(st, KindsOf[x]))[k] ELSE <<>>
<1>1. n \in Nat /\ DOMAIN st = 1 .. n /\ \A i \in 1 .. n : st[i] \in T
  BY LenProperties, ElementOfSeq
<1>2. \A i \in 1 .. n : st[i].kind \in P!Kinds /\ st[i].kind # "OTHER"
  BY <1>1 DEF P!Supported
<1>3. PICK g : /\ g[0] = sorted /\ g[n] = P!Added(sorted, block)
               /\ \A k \in 1 .. n : g[k] = WithStatement(g[k - 1], block, st[k])
  BY AddedRuns
<1> HIDE DEF n, st
<1>4. \A x : /\ \A k \in 0 .. n : Part(x, k) \in Seq(T)
             /\ Part(x, 0) = <<>>
  <2> TAKE x
  <2>1. \A k \in 0 .. n : Flat(Picked(st, KindsOf[x]))[k] \in Seq(T)
    BY KeptFacts DEF n, st
  <2>2. Flat(Picked(st, KindsOf[x]))[0] = <<>>
    BY KeptFacts DEF IsFlat, n, st
  <2> QED BY <2>1, <2>2
<1>5. \A x \in ListNames, k \in 1 .. n :
        Part(x, k) = IF x = P!ListOf(block, st[k]) THEN Append(Part(x, k - 1), st[k]) ELSE Part(x, k - 1)
  <2> TAKE x \in ListNames, k \in 1 .. n
  <2> DEFINE p == Picked(st, KindsOf[x])
  <2>1. Flat(p)[k] = Flat(p)[k - 1] \o p[k]
    <3>1. IsFlat(Flat(p), p) /\ Len(p) = n
      BY KeptFacts DEF n, st
    <3> HIDE DEF p
    <3> QED BY <3>1 DEF IsFlat
  <2>2. x = P!ListOf(block, st[k]) <=> block.name = NameOf[x] /\ st[k].kind \in KindsOf[x]
    BY <1>2, ListOfFacts
  <2>3. p[k] = IF st[k].kind \in KindsOf[x] THEN <<st[k]>> ELSE <<>>
    BY <1>1 DEF Picked
  <2>4. k - 1 \in 0 .. n /\ Flat(p)[k - 1] \in Seq(T)
    <3>1. k - 1 \in 0 .. n
      BY <1>1
    <3> QED BY <3>1, KeptFacts DEF n, st
  <2>5. \A q \in Seq(T) : q \o <<>> = q /\ q \o <<st[k]>> = Append(q, st[k])
    BY <1>1
  <2> HIDE DEF p
  <2> QED BY <2>1, <2>2, <2>3, <2>4, <2>5 DEF p
<1> DEFINE C(k) == /\ g[k] \in [ListNames -> Seq(T)]
                   /\ \A x \in ListNames : g[k][x] = sorted[x] \o Part(x, k)
           S == {k \in Nat : k <= n => C(k)}
<1>6. 0 \in S
  <2>1. \A x \in ListNames : sorted[x] \o <<>> = sorted[x]
    OBVIOUS
  <2> HIDE DEF Part
  <2>2. C(0)
    BY <1>3, <1>4, <2>1
  <2> QED BY <2>2
<1>7. ASSUME NEW k \in S PROVE k + 1 \in S
  <2>1. k \in Nat /\ (k <= n => C(k))
    BY k \in S
  <2> HIDE DEF S
  <2>2. ASSUME k + 1 <= n PROVE C(k + 1)
    <3>1. k <= n /\ k + 1 \in 1 .. n /\ (k + 1) - 1 = k /\ k \in 0 .. n
      BY ONLY <1>1, <2>1, <2>2
    <3> DEFINE y == P!ListOf(block, st[k + 1])
    <3>2. y \in ListNames
      BY <1>2, <3>1, ListOfFacts
    <3>3. g[k + 1] = [g[k] EXCEPT ![y] = Append(g[k][y], st[k + 1])]
      BY <1>3, <3>1 DEF WithStatement
    <3>4. C(k)
      BY <2>1, <3>1
    <3>5. \A x \in ListNames :
            Part(x, k + 1) = IF x = y THEN Append(Part(x, k), st[k + 1]) ELSE Part(x, k)
      BY <1>5, <3>1
    <3>6. st[k + 1] \in T /\ \A x \in ListNames : Part(x, k) \in Seq(T)
      BY <1>1, <1>4, <3>1
    <3>7. \A a, b \in Seq(T) : Append(a \o b, st[k + 1]) = a \o Append(b, st[k + 1])
      <4> TAKE a, b \in Seq(T)
      <4>1. a \o b \in Seq(T) /\ <<st[k + 1]>> \in Seq(T)
        BY <3>6
      <4>2. Append(a \o b, st[k + 1]) = (a \o b) \o <<st[k + 1]>>
        BY <3>6, <4>1, AppendIsConcat
      <4>3. Append(b, st[k + 1]) = b \o <<st[k + 1]>>
        BY <3>6, AppendIsConcat
      <4> QED BY <4>1, <4>2, <4>3, ConcatAssociative
    <3>8. \A a \in Seq(T) : Append(a, st[k + 1]) \in Seq(T)
      BY <3>6
    <3> HIDE DEF y, Part
    <3>9. g[k + 1] \in [ListNames -> Seq(T)]
      BY <3>2, <3>3, <3>4, <3>8
    <3>10. \A x \in ListNames : g[k + 1][x] = sorted[x] \o Part(x, k + 1)
      <4> TAKE x \in ListNames
      <4>1. g[k][x] = sorted[x] \o Part(x, k) /\ sorted[x] \in Seq(T) /\ Part(x, k) \in Seq(T)
        BY <3>4, <3>6
      <4>2. CASE x = y
        <5>1. g[k + 1][x] = Append(g[k][x], st[k + 1]) /\ Part(x, k + 1) = Append(Part(x, k), st[k + 1])
          BY <3>3, <3>4, <3>5, <4>2
        <5> QED BY <3>7, <4>1, <5>1
      <4>3. CASE x # y
        <5>1. g[k + 1][x] = g[k][x] /\ Part(x, k + 1) = Part(x, k)
          BY <3>3, <3>4, <3>5, <4>3
        <5> QED BY <4>1, <5>1
      <4> QED BY <4>2, <4>3
    <3> QED BY <3>9, <3>10
  <2> QED BY <2>1, <2>2 DEF S
<1>8. C(n)
  <2>1. n \in S
    <3> HIDE DEF S
    <3> QED BY <1>1, <1>6, <1>7, NaturalsInSet
  <2> QED BY <1>1, <2>1
<1>9. \A x \in ListNames : Part(x, n) = Share(block, x)
  BY KeptFacts DEF Share, n, st
<1> HIDE DEF Part
<1> QED BY <1>3, <1>8, <1>9

-----------------------------------------------------------------------------
(* What the lists have after so many blocks. *)

Shares(blocks, x) == [i \in DOMAIN blocks |-> Share(blocks[i], x)]
Gathered(blocks, k) == [x \in ListNames |-> Flat(Shares(blocks, x))[k]]
Statements(blocks) == UNION {ToSet(block.statements) : block \in ToSet(blocks)}

LEMMA SharesFacts ==
  ASSUME NEW doc, P!DocumentOK(doc), NEW found, NEW x \in ListNames,
         NEW blocks, blocks = P!ActiveBlocks(doc, found)
  PROVE  /\ IsFlat(Flat(Shares(blocks, x)), Shares(blocks, x))
         /\ Len(Shares(blocks, x)) = Len(blocks)
         /\ \A k \in 0 .. Len(blocks) : Flat(Shares(blocks, x))[k] \in Seq(Statements(blocks))
         /\ FlattenSeq(Shares(blocks, x)) = Flat(Shares(blocks, x))[Len(blocks)]
<1> DEFINE T == Statements(blocks)
           f == Shares(blocks, x)
           n == Len(blocks)
<1>1. blocks \in Seq(ToSet(blocks))
  BY BlocksFacts
<1>2. n \in Nat /\ DOMAIN blocks = 1 .. n
  BY <1>1, LenProperties
<1>3. ASSUME NEW i \in 1 .. n PROVE Share(blocks[i], x) \in Seq(T)
  <2> DEFINE st == blocks[i].statements
  <2>1. blocks[i] \in ToSet(blocks)
    BY <1>2 DEF ToSet
  <2>2. st \in Seq(ToSet(st))
    BY <2>1, BlocksFacts
  <2>3. ToSet(st) \subseteq T
    BY <2>1 DEF Statements
  <2>4. Len(st) \in 0 .. Len(st)
    BY <2>2, LenProperties
  <2>5. P!Kept(st, KindsOf[x]) \in Seq(ToSet(st))
    <3> HIDE DEF st
    <3> QED BY <2>2, <2>4, KeptFacts
  <2>6. P!Kept(st, KindsOf[x]) \in Seq(T) /\ <<>> \in Seq(T)
    <3> HIDE DEF T, st
    <3> QED BY <2>3, <2>5, SeqMonotonic
  <2> QED BY <2>6 DEF Share
<1>4. f \in [1 .. n -> Seq(T)]
  BY <1>2, <1>3 DEF Shares
<1> HIDE DEF f, T, n
<1>5. f \in Seq(Seq(T)) /\ Len(f) = n
  BY <1>2, <1>4, SeqDef, LenProperties
<1>6. /\ IsFlat(Flat(f), f) /\ FlattenSeq(f) = Flat(f)[n]
      /\ \A k \in 0 .. n : Flat(f)[k] \in Seq(T)
  BY <1>5, FlatFacts
<1> QED BY <1>5, <1>6 DEF f, T, n

\* Nothing before the first block, then one block after the other.
LEMMA GatheredFacts ==
  ASSUME NEW doc, P!DocumentOK(doc), NEW found, NEW blocks, blocks = P!ActiveBlocks(doc, found)
  PROVE  /\ Gathered(blocks, 0) = P!NoLists
         /\ \A k \in 0 .. Len(blocks) : Gathered(blocks, k) \in [ListNames -> Seq(Statements(blocks))]
         /\ \A x \in ListNames : Gathered(blocks, Len(blocks))[x] = FlattenSeq(Shares(blocks, x))
<1> DEFINE n == Len(blocks)
<1>1. n \in Nat /\ DOMAIN blocks = 1 .. n
  BY BlocksFacts, LenProperties
<1>2. \A x \in ListNames :
        /\ IsFlat(Flat(Shares(blocks, x)), Shares(blocks, x)) /\ Len(Shares(blocks, x)) = n
        /\ \A k \in 0 .. n : Flat(Shares(blocks, x))[k] \in Seq(Statements(blocks))
        /\ FlattenSeq(Shares(blocks, x)) = Flat(Shares(blocks, x))[n]
  BY SharesFacts
<1> HIDE DEF n
<1>3. Gathered(blocks, 0) = P!NoLists
  <2>1. \A x \in ListNames : Flat(Shares(blocks, x))[0] = <<>>
    BY <1>2 DEF IsFlat
  <2>2. Gathered(blocks, 0) = [x \in ListNames |-> <<>>]
    BY <2>1 DEF Gathered
  <2> QED BY <2>2 DEF P!NoLists, ListNames
<1>4. \A k \in 0 .. n : Gathered(blocks, k) \in [ListNames -> Seq(Statements(blocks))]
  BY <1>2 DEF Gathered
<1>6. \A x \in ListNames : Gathered(blocks, n)[x] = FlattenSeq(Shares(blocks, x))
  BY <1>2 DEF Gathered
<1> QED BY <1>3, <1>4, <1>6 DEF n

\* All of them are what the hierarchy has for the list.
LEMMA GatheredAll ==
  ASSUME NEW doc, P!DocumentOK(doc), NEW x \in ListNames
  PROVE  FlattenSeq(Shares(P!ActiveBlocks(doc, Hierarchy(doc)), x))
           = P!OfBlocks(doc, KindsOf[x], NameOf[x])
<1>1. \A i \in DOMAIN doc.scopes :
        doc.scopes[i].addr \in Hierarchy(doc) <=> P!InHierarchy(doc, doc.scopes[i].addr)
  BY DocumentFacts DEF Hierarchy
<1>2. [i \in DOMAIN doc.scopes |->
         IF doc.scopes[i].addr \in Hierarchy(doc) THEN doc.scopes[i].blocks ELSE <<>>]
        = [i \in DOMAIN doc.scopes |->
             IF P!InHierarchy(doc, doc.scopes[i].addr) THEN doc.scopes[i].blocks ELSE <<>>]
  BY <1>1
<1>3. P!ActiveBlocks(doc, Hierarchy(doc))
        = P!FlattenSeq([i \in DOMAIN doc.scopes |->
            IF P!InHierarchy(doc, doc.scopes[i].addr) THEN doc.scopes[i].blocks ELSE <<>>])
  BY <1>2 DEF P!ActiveBlocks, P!Scopes
<1> QED BY <1>3, SameOperators DEF P!OfBlocks, Shares, Share, P!Scopes

-----------------------------------------------------------------------------
(* The inductive invariant of parsing. *)

Blocks == P!ActiveBlocks(document, addresses)

Reached ==
  /\ addresses \subseteq Hierarchy(document)
  /\ phase = "scopes" =>
       addresses = {} \/ (document.root # <<>> /\ ToSet(document.root) \subseteq addresses)
  /\ phase # "scopes" => addresses = Hierarchy(document)

Taken ==
  /\ position \in 0 .. Len(Blocks)
  /\ phase \in {"scopes", "variables", "domains"} => position = 0 /\ lists = P!NoLists
  /\ phase \in {"statements", "design"} =>
       /\ lists = Gathered(Blocks, position)
       /\ P!DomainsAccepted(variables, Blocks) /\ domains = P!DomainsOf(variables, Blocks)
  /\ phase = "design" => position = Len(Blocks)

Chosen ==
  selected # <<>> =>
    /\ phase = "design"
    /\ domains \subseteq {selected[i] : i \in DOMAIN selected}
    /\ \A i \in DOMAIN selected : selected[i].variable \in DOMAIN variables

ParserInv ==
  IF phase = "dropped" THEN selected = <<>>
  ELSE /\ document \in Documents /\ DOMAIN variables \subseteq Nat
       /\ phase \in {"scopes", "variables", "domains", "statements", "design", "error"}
       /\ Reached /\ Taken /\ Chosen

LEMMA BlocksGathered ==
  ASSUME P!DocumentOK(document)
  PROVE  /\ \A k \in 0 .. Len(Blocks) : Gathered(Blocks, k) \in [ListNames -> Seq(Statements(Blocks))]
         /\ \A k \in 1 .. Len(Blocks) : \A x \in ListNames :
              Gathered(Blocks, k)[x] = Gathered(Blocks, k - 1)[x] \o Share(Blocks[k], x)
<1>1. Blocks = P!ActiveBlocks(document, addresses)
  BY DEF Blocks
<1>2. \A k \in 0 .. Len(Blocks) : Gathered(Blocks, k) \in [ListNames -> Seq(Statements(Blocks))]
  BY <1>1, GatheredFacts
<1>3. DOMAIN Blocks = 1 .. Len(Blocks)
  BY <1>1, BlocksFacts, LenProperties
<1>4. ASSUME NEW k \in 1 .. Len(Blocks), NEW x \in ListNames
      PROVE  Gathered(Blocks, k)[x] = Gathered(Blocks, k - 1)[x] \o Share(Blocks[k], x)
  <2>1. /\ IsFlat(Flat(Shares(Blocks, x)), Shares(Blocks, x))
        /\ Len(Shares(Blocks, x)) = Len(Blocks)
    BY <1>1, SharesFacts
  <2>2. Flat(Shares(Blocks, x))[k] = Flat(Shares(Blocks, x))[k - 1] \o Shares(Blocks, x)[k]
    BY <2>1 DEF IsFlat
  <2> QED BY <1>3, <2>2 DEF Gathered, Shares
<1> QED BY <1>2, <1>4

LEMMA ParserInit == CliInit => ParserInv
<1> SUFFICES ASSUME CliInit PROVE ParserInv
  OBVIOUS
<1>1. /\ document \in Documents /\ phase = "scopes" /\ addresses = {} /\ variables = <<>>
      /\ position = 0 /\ lists = P!NoLists /\ selected = <<>>
  BY DEF CliInit, P!Init
<1>2. Len(Blocks) \in Nat
  BY <1>1, DocumentsWellFormed, BlocksFacts, LenProperties DEF Blocks
<1> QED BY <1>1, <1>2 DEF ParserInv, Reached, Taken, Chosen

LEMMA FindRootsKeeps == ParserInv /\ P!FindRoots => ParserInv'
<1> SUFFICES ASSUME ParserInv, P!FindRoots PROVE ParserInv'
  OBVIOUS
<1>1. /\ document \in Documents /\ P!DocumentOK(document) /\ document' = document
      /\ phase = "scopes" /\ phase' \in {"scopes", "variables", "error"}
      /\ UNCHANGED <<variables, domains, position, lists, selected>>
  BY DocumentsWellFormed DEF ParserInv, P!FindRoots
<1>2. position = 0 /\ lists = P!NoLists /\ selected = <<>> /\ DOMAIN variables \subseteq Nat
  BY <1>1 DEF ParserInv, Taken, Chosen
<1>3. Len(Blocks') \in Nat
  BY <1>1, BlocksFacts, LenProperties DEF Blocks
<1>4. Taken' /\ Chosen'
  BY <1>1, <1>2, <1>3 DEF Taken, Chosen
<1>5. CASE document.root = <<>>
  <2>1. CASE document.scopes # <<>>
    <3>1. addresses' = Hierarchy(document) /\ phase' = "variables"
      BY <1>1, <1>5, <2>1, LegacyFacts DEF P!FindRoots, P!Scopes
    <3> QED BY <1>1, <1>2, <1>4, <3>1 DEF ParserInv, Reached
  <2>2. CASE document.scopes = <<>>
    <3>1. addresses' = {} /\ phase' = "error"
      BY <1>1, <1>5, <2>2 DEF P!FindRoots, P!Scopes
    <3>2. Hierarchy(document) = {}
      BY <2>2 DEF Hierarchy, P!ScopeAddresses, P!Scopes
    <3> QED BY <1>1, <1>2, <1>4, <3>1, <3>2 DEF ParserInv, Reached
  <2> QED BY <2>1, <2>2
<1>6. CASE document.root # <<>>
  <2>1. addresses' = ToSet(document.root) /\ phase' = "scopes"
    BY <1>1, <1>6, SameOperators DEF P!FindRoots
  <2>2. addresses' \subseteq Hierarchy(document)
    BY <1>1, <1>6, <2>1, RootsInHierarchy
  <2> QED BY <1>1, <1>2, <1>4, <1>6, <2>1, <2>2 DEF ParserInv, Reached
<1> QED BY <1>5, <1>6

LEMMA FindScopesKeeps == ParserInv /\ P!FindScopes => ParserInv'
<1> SUFFICES ASSUME ParserInv, P!FindScopes PROVE ParserInv'
  OBVIOUS
<1>1. /\ document \in Documents /\ P!DocumentOK(document) /\ document' = document
      /\ phase = "scopes" /\ phase' \in {"scopes", "variables"}
      /\ addresses' = P!PassOnce(document, addresses)
      /\ phase' = IF addresses' = addresses THEN "variables" ELSE "scopes"
      /\ UNCHANGED <<variables, domains, position, lists, selected>>
  BY DocumentsWellFormed DEF ParserInv, P!FindScopes, P!NextPhase
<1>2. position = 0 /\ lists = P!NoLists /\ selected = <<>> /\ DOMAIN variables \subseteq Nat
  BY <1>1 DEF ParserInv, Taken, Chosen
<1>3. Len(Blocks') \in Nat
  BY <1>1, BlocksFacts, LenProperties DEF Blocks
<1>4. Taken' /\ Chosen'
  BY <1>1, <1>2, <1>3 DEF Taken, Chosen
<1>5. /\ document.root # <<>> /\ ToSet(document.root) \subseteq addresses
      /\ addresses \subseteq Hierarchy(document)
  BY <1>1 DEF ParserInv, Reached, P!FindScopes
<1>6. /\ ToSet(document.root) \subseteq addresses' /\ addresses' \subseteq Hierarchy(document)
      /\ addresses' = addresses => addresses = Hierarchy(document)
  BY <1>1, <1>5, PassInHierarchy
<1> QED BY <1>1, <1>2, <1>4, <1>5, <1>6 DEF ParserInv, Reached

LEMMA NumberVariablesKeeps == ParserInv /\ P!NumberVariables => ParserInv'
<1> SUFFICES ASSUME ParserInv, P!NumberVariables PROVE ParserInv'
  OBVIOUS
<1>1. /\ document \in Documents /\ P!DocumentOK(document)
      /\ phase = "variables" /\ phase' = "domains"
      /\ variables' = P!VariablesOf(document, addresses)
      /\ UNCHANGED <<document, addresses, domains, position, lists, selected>>
  BY DocumentsWellFormed DEF ParserInv, P!NumberVariables
<1>2. DOMAIN variables' \subseteq Nat
  BY <1>1, VariablesFacts
<1> QED BY <1>1, <1>2 DEF ParserInv, Reached, Taken, Chosen, Blocks

LEMMA ParseSensitivityDomainsKeeps == ParserInv /\ P!ParseSensitivityDomains => ParserInv'
<1> SUFFICES ASSUME ParserInv, P!ParseSensitivityDomains PROVE ParserInv'
  OBVIOUS
<1>1. /\ document \in Documents /\ P!DocumentOK(document)
      /\ phase = "domains" /\ phase' \in {"statements", "error"}
      /\ UNCHANGED <<document, addresses, variables, position, lists, selected>>
  BY DocumentsWellFormed DEF ParserInv, P!ParseSensitivityDomains
<1>2. phase' = "statements" =>
        P!DomainsAccepted(variables, Blocks) /\ domains' = P!DomainsOf(variables, Blocks)
  BY <1>1 DEF P!ParseSensitivityDomains, Blocks
<1>3. Gathered(Blocks, 0) = P!NoLists
  BY <1>1, GatheredFacts DEF Blocks
<1>4. Blocks' = Blocks
  BY <1>1 DEF Blocks
<1>5. position = 0 /\ lists = P!NoLists /\ selected = <<>> /\ position \in 0 .. Len(Blocks)
  BY <1>1 DEF ParserInv, Taken, Chosen
<1>6. Taken'
  BY <1>1, <1>2, <1>3, <1>4, <1>5 DEF Taken
<1> QED BY <1>1, <1>5, <1>6 DEF ParserInv, Reached, Chosen

LEMMA ParseBlockKeeps == ParserInv /\ P!ParseBlock => ParserInv'
<1> SUFFICES ASSUME ParserInv, P!ParseBlock PROVE ParserInv'
  OBVIOUS
<1> DEFINE k == position + 1
           block == Blocks[k]
<1>1. /\ document \in Documents /\ P!DocumentOK(document)
      /\ phase = "statements" /\ position < Len(Blocks) /\ position' = k
      /\ UNCHANGED <<document, addresses, variables, domains, selected>>
  BY DocumentsWellFormed DEF ParserInv, P!ParseBlock, Blocks
<1>2. IF ~ P!Parsed(block) THEN UNCHANGED <<phase, lists>>
      ELSE IF ~ P!Supported(block) THEN phase' = "error" /\ UNCHANGED lists
      ELSE lists' = P!Added(lists, block) /\ UNCHANGED phase
  BY DEF P!ParseBlock, Blocks
<1>3. Blocks' = Blocks
  BY <1>1 DEF Blocks
<1>4. /\ lists = Gathered(Blocks, position) /\ position \in 0 .. Len(Blocks) /\ selected = <<>>
      /\ P!DomainsAccepted(variables, Blocks) /\ domains = P!DomainsOf(variables, Blocks)
  BY <1>1 DEF ParserInv, Taken, Chosen
<1>5. Len(Blocks) \in Nat /\ DOMAIN Blocks = 1 .. Len(Blocks)
  BY <1>1, BlocksFacts, LenProperties DEF Blocks
<1>6. k \in 1 .. Len(Blocks) /\ k \in 0 .. Len(Blocks) /\ k - 1 = position
  BY <1>1, <1>4, <1>5
<1> DEFINE T == Statements(Blocks)
<1>7. /\ lists \in [ListNames -> Seq(T)] /\ Gathered(Blocks, k) \in [ListNames -> Seq(T)]
      /\ \A x \in ListNames : Gathered(Blocks, k)[x] = lists[x] \o Share(block, x)
  <2>1. /\ \A j \in 0 .. Len(Blocks) : Gathered(Blocks, j) \in [ListNames -> Seq(Statements(Blocks))]
        /\ \A j \in 1 .. Len(Blocks) : \A x \in ListNames :
             Gathered(Blocks, j)[x] = Gathered(Blocks, j - 1)[x] \o Share(Blocks[j], x)
    BY <1>1, BlocksGathered
  <2> HIDE DEF k
  <2>2. \A x \in ListNames : Gathered(Blocks, k)[x] = Gathered(Blocks, k - 1)[x] \o Share(Blocks[k], x)
    BY <1>6, <2>1
  <2> QED BY <1>4, <1>6, <2>1, <2>2
<1>8. /\ block.statements \in Seq(T)
      /\ \A j \in DOMAIN block.statements : block.statements[j].kind \in P!Kinds
  <2>1. block \in ToSet(Blocks)
    BY <1>5, <1>6 DEF ToSet
  <2>2. /\ block.statements \in Seq(ToSet(block.statements))
        /\ \A j \in DOMAIN block.statements : block.statements[j].kind \in P!Kinds
    BY <1>1, <2>1, BlocksFacts DEF Blocks
  <2>3. ToSet(block.statements) \subseteq T
    BY <2>1 DEF Statements
  <2> HIDE DEF block, T
  <2> QED BY <2>2, <2>3, SeqMonotonic
<1> HIDE DEF block, k, T
<1>9. phase' \in {"statements", "error"} /\ (phase' = "statements" => lists' = Gathered(Blocks, k))
  <2>1. CASE ~ P!Parsed(block)
    <3>1. \A x \in ListNames : Share(block, x) = <<>>
      <4>1. \A x \in ListNames : NameOf[x] \in {"", "sequent"}
        BY ListTables
      <4> QED BY <2>1, <4>1 DEF Share, P!Parsed
    <3>2. \A x \in ListNames : lists[x] \in Seq(T) /\ Gathered(Blocks, k)[x] = lists[x]
      BY <1>7, <3>1
    <3>3. Gathered(Blocks, k) = lists
      BY <1>7, <3>2
    <3> QED BY <1>1, <1>2, <2>1, <3>3
  <2>2. CASE P!Parsed(block) /\ ~ P!Supported(block)
    BY <1>2, <2>2
  <2>3. CASE P!Parsed(block) /\ P!Supported(block)
    <3>1. lists' = P!Added(lists, block) /\ phase' = phase
      BY <1>2, <2>3
    <3>2. /\ P!Added(lists, block) \in [ListNames -> Seq(T)]
          /\ \A x \in ListNames : P!Added(lists, block)[x] = lists[x] \o Share(block, x)
      BY <1>7, <1>8, <2>3, AddedFacts
    <3>3. lists' = Gathered(Blocks, k)
      <4>1. \A x \in ListNames : lists'[x] = Gathered(Blocks, k)[x]
        BY <1>7, <3>1, <3>2
      <4> QED BY <1>7, <3>1, <3>2, <4>1
    <3> QED BY <1>1, <3>1, <3>3
  <2> QED BY <2>1, <2>2, <2>3
<1>10. Taken'
  BY <1>1, <1>3, <1>4, <1>6, <1>9 DEF Taken
<1> QED BY <1>1, <1>4, <1>9, <1>10 DEF ParserInv, Reached, Chosen

LEMMA FinishDesignKeeps == ParserInv /\ P!FinishDesign => ParserInv'
<1> SUFFICES ASSUME ParserInv, P!FinishDesign PROVE ParserInv'
  OBVIOUS
<1>1. /\ phase = "statements" /\ position = Len(Blocks) /\ phase' \in {"design", "error"}
      /\ UNCHANGED <<document, addresses, variables, domains, position, lists, selected>>
  BY DEF P!FinishDesign, Blocks
<1>2. Blocks' = Blocks
  BY <1>1 DEF Blocks
<1> QED BY <1>1, <1>2 DEF ParserInv, Reached, Taken, Chosen

-----------------------------------------------------------------------------
(* select_domains. *)

LEMMA PutInFront ==
  ASSUME NEW c, NEW m \in Nat, NEW r, r = [k \in 1 .. m |-> r[k]]
  PROVE  /\ DOMAIN (<<c>> \o r) = 1 .. m + 1
         /\ (<<c>> \o r)[1] = c
         /\ \A k \in 1 .. m : k + 1 \in 1 .. m + 1 /\ (<<c>> \o r)[k + 1] = r[k]
         /\ \A i \in 1 .. m + 1 : i = 1 \/ (i - 1 \in 1 .. m /\ (<<c>> \o r)[i] = r[i - 1])
<1> DEFINE T == {c} \cup {r[k] : k \in 1 .. m}
<1>1. r \in [1 .. m -> T]
  BY DEF T
<1>2. r \in Seq(T) /\ Len(r) = m
  <2> HIDE DEF T
  <2> QED BY <1>1, SeqDef, LenProperties
<1>3. <<c>> \in Seq(T) /\ Len(<<c>>) = 1
  OBVIOUS
<1> HIDE DEF T
<1>4. /\ <<c>> \o r \in Seq(T) /\ Len(<<c>> \o r) = 1 + m
      /\ \A i \in 1 .. 1 + m : (<<c>> \o r)[i] = IF i <= 1 THEN <<c>>[i] ELSE r[i - 1]
  BY <1>2, <1>3, ConcatProperties
<1>5. DOMAIN (<<c>> \o r) = 1 .. 1 + m
  BY <1>4, LenProperties
<1>6. 1 + m = m + 1 /\ 1 \in 1 .. m + 1 /\ 1 <= 1
  OBVIOUS
<1>7. \A k \in 1 .. m : k + 1 \in 1 .. 1 + m /\ ~ (k + 1 <= 1) /\ (k + 1) - 1 = k
  OBVIOUS
<1>8. \A i \in 1 .. m + 1 : i = 1 \/ (i - 1 \in 1 .. m /\ ~ (i <= 1))
  OBVIOUS
<1>9. (<<c>> \o r)[1] = c
  BY <1>4, <1>6
<1> HIDE DEF T
<1> QED BY <1>4, <1>5, <1>6, <1>7, <1>8, <1>9

\* A domain's variable is one of the design's.
LEMMA DomainsInDesign ==
  ASSUME NEW vs, NEW blocks, P!DomainsAccepted(vs, blocks)
  PROVE  \A d \in P!DomainsOf(vs, blocks) : d.variable \in DOMAIN vs
<1> SUFFICES ASSUME NEW sense \in P!AllSenses(blocks)
             PROVE  (CHOOSE id \in P!VariableIds(vs, sense.of) : TRUE) \in DOMAIN vs
  BY DEF P!DomainsOf
<1>1. P!VariableIds(vs, sense.of) # {}
  BY DEF P!DomainsAccepted, P!SenseAccepted
<1>2. P!VariableIds(vs, sense.of) \subseteq DOMAIN vs
  BY DEF P!VariableIds
<1> QED BY <1>1, <1>2

LEMMA SelectDomainsKeeps == ParserInv /\ P!SelectDomains => ParserInv'
<1> SUFFICES ASSUME ParserInv, P!SelectDomains PROVE ParserInv'
  OBVIOUS
<1>1. /\ phase = "design"
      /\ UNCHANGED <<document, phase, addresses, variables, domains, position, lists>>
  BY DEF P!SelectDomains
<1>2. PICK clock \in Clocks, reset \in Resets :
        /\ P!DomainsSelected(variables, domains, clock, reset)
        /\ selected' = <<P!ClockDomain(variables, domains, clock)>> \o
                       [k \in DOMAIN reset |-> P!ResolveReset(variables, reset[k])]
  BY DEF P!SelectDomains
<1> DEFINE c == P!ClockDomain(variables, domains, clock)
           r == [k \in DOMAIN reset |-> P!ResolveReset(variables, reset[k])]
           matches == P!ClockMatches(variables, domains, clock)
           ids == {d.variable : d \in matches}
<1>3. /\ DOMAIN variables \subseteq Nat
      /\ P!DomainsAccepted(variables, Blocks) /\ domains = P!DomainsOf(variables, Blocks)
  BY <1>1 DEF ParserInv, Taken
<1>4. \A d \in domains : d.variable \in DOMAIN variables
  BY <1>3, DomainsInDesign
<1>5. matches # {} /\ matches \subseteq domains
  BY <1>2 DEF P!DomainsSelected, P!ClockMatches
<1>6. c \in domains
  <2>1. ids \subseteq Nat /\ ids # {}
    BY <1>3, <1>4, <1>5
  <2>2. PICK x \in ids : \A y \in ids : x <= y
    <3> HIDE DEF ids
    <3> QED BY <2>1, LeastNatural
  <2>3. \E d \in matches : \A e \in matches : d.variable <= e.variable
    BY <2>2
  <2>4. c \in matches
    <3> HIDE DEF matches
    <3>1. c = CHOOSE d \in matches : \A e \in matches : d.variable <= e.variable
      BY DEF P!ClockDomain, matches
    <3> QED BY <2>3, <3>1
  <2> QED BY <1>5, <2>4
<1>7. PICK m \in Nat : DOMAIN reset = 1 .. m
  BY OptionsAreLists, SameOperators, LenProperties DEF P!IsList
<1>8. \A k \in 1 .. m : r[k] = P!ResolveReset(variables, reset[k]) /\ r[k].variable \in DOMAIN variables
  <2> TAKE k \in 1 .. m
  <2>1. P!Cardinality(P!ResetIds(variables, reset[k])) = 1
    BY <1>2, <1>7 DEF P!DomainsSelected, P!ResetAccepted
  <2>2. P!ResetIds(variables, reset[k]) # {}
    <3>1. P!Cardinality({}) = 0
      BY FS_EmptySet DEF P!Cardinality, Cardinality
    <3> QED BY <2>1, <3>1
  <2>3. P!ResetIds(variables, reset[k]) \subseteq DOMAIN variables
    BY DEF P!ResetIds
  <2> QED BY <1>7, <2>2, <2>3 DEF P!ResolveReset
<1>9. r = [k \in 1 .. m |-> r[k]]
  BY <1>7
<1>10. domains \subseteq {c} \cup {r[k] : k \in 1 .. m}
  <2>1. domains \subseteq {c} \cup {P!ResolveReset(variables, reset[k]) : k \in DOMAIN reset}
    BY <1>2 DEF P!DomainsSelected, P!AllExpected
  <2> QED BY <1>7, <2>1
<1> HIDE DEF c, r
<1>11. selected' = <<c>> \o r
  BY <1>2 DEF c, r
<1>12. /\ DOMAIN (<<c>> \o r) = 1 .. m + 1
       /\ (<<c>> \o r)[1] = c /\ 1 \in 1 .. m + 1
       /\ \A k \in 1 .. m : k + 1 \in 1 .. m + 1 /\ (<<c>> \o r)[k + 1] = r[k]
       /\ \A i \in 1 .. m + 1 : i = 1 \/ (i - 1 \in 1 .. m /\ (<<c>> \o r)[i] = r[i - 1])
  BY <1>9, PutInFront
<1>13. domains \subseteq {selected'[i] : i \in DOMAIN selected'}
  <2> SUFFICES ASSUME NEW d \in domains PROVE \E i \in 1 .. m + 1 : (<<c>> \o r)[i] = d
    BY <1>11, <1>12
  <2>1. CASE d = c
    BY <1>12, <2>1
  <2>2. CASE \E k \in 1 .. m : d = r[k]
    BY <1>12, <2>2
  <2> QED BY <1>10, <2>1, <2>2
<1>14. \A i \in DOMAIN selected' : selected'[i].variable \in DOMAIN variables
  BY <1>4, <1>6, <1>8, <1>11, <1>12
<1>15. Chosen'
  BY <1>1, <1>13, <1>14 DEF Chosen
<1>16. Blocks' = Blocks
  BY <1>1 DEF Blocks
<1> QED BY <1>1, <1>15, <1>16 DEF ParserInv, Reached, Taken

LEMMA ParserNext == ParserInv /\ [CliNext]_cliVars => ParserInv'
<1> SUFFICES ASSUME ParserInv, [CliNext]_cliVars PROVE ParserInv'
  OBVIOUS
<1>1. CASE Parse
  BY <1>1, FindRootsKeeps, FindScopesKeeps, NumberVariablesKeeps, ParseSensitivityDomainsKeeps,
     ParseBlockKeeps, FinishDesignKeeps, SelectDomainsKeeps DEF Parse, P!Next
<1>2. CASE ParsingFails \/ Generate
  <2>1. phase' = "dropped" /\ selected' = <<>>
    BY <1>2 DEF ParsingFails, Generate, Dropped
  <2> QED BY <2>1 DEF ParserInv
<1>3. CASE Later \/ UNCHANGED cliVars
  <2>1. UNCHANGED <<document, phase, addresses, variables, domains, position, lists, selected>>
    BY <1>3 DEF Later, cliVars, parserVars
  <2> QED BY <2>1 DEF ParserInv, Reached, Taken, Chosen, Blocks
<1> QED BY <1>1, <1>2, <1>3 DEF CliNext

-----------------------------------------------------------------------------
(* The theorems. *)

\* Whatever the order in which a document lists its scopes and blocks: a design
\* that parse finishes has the statements of the scopes in the hierarchy and of
\* no other, each list in file order, every static initialisation before the
\* initial blocks (find_scopes, parse_block).
THEOREM StatementsKeptCorrect == CliSpec => []StatementsKept
<1>1. ParserInv => StatementsKept
  <2> SUFFICES ASSUME ParserInv, phase = "design" PROVE StatementsKept
    BY DEF StatementsKept, P!StatementsKept
  <2>1. /\ document \in Documents /\ P!DocumentOK(document)
        /\ addresses = Hierarchy(document) /\ lists = Gathered(Blocks, Len(Blocks))
    BY DocumentsWellFormed DEF ParserInv, Reached, Taken
  <2>2. Blocks = P!ActiveBlocks(document, Hierarchy(document))
    BY <2>1 DEF Blocks
  <2>3. \A x \in ListNames : lists[x] = FlattenSeq(Shares(Blocks, x))
    BY <2>1, <2>2, GatheredFacts
  <2>4. \A x \in ListNames : lists[x] = P!OfBlocks(document, KindsOf[x], NameOf[x])
    BY <2>1, <2>2, <2>3, GatheredAll
  <2>5. /\ lists.static = P!OfBlocks(document, {"INITIALSTATIC"}, "")
        /\ lists.initial = P!OfBlocks(document, {"INITIAL"}, "")
        /\ lists.combinational = P!OfBlocks(document, {"ALWAYS"}, "")
        /\ lists.sequential = P!OfBlocks(document, {"INITIALSTATIC", "INITIAL", "ALWAYS"}, "sequent")
    BY <2>4, ListTables
  <2> QED BY <2>5 DEF StatementsKept, P!StatementsKept, P!DesignInitial
<1> QED BY <1>1, ParserInit, ParserNext, PTL DEF CliSpec

\* In a design that a back end accepts, the edge of every clocked process of
\* the hierarchy is the chosen clock's or the reset's (select_domains).
THEOREM OneEdgeCorrect == CliSpec => []OneEdge
<1>1. ParserInv => OneEdge
  <2> SUFFICES ASSUME ParserInv, selected # <<>>,
                      NEW i \in DOMAIN document.scopes, NEW k \in DOMAIN document.scopes[i].blocks,
                      P!InHierarchy(document, document.scopes[i].addr),
                      document.scopes[i].blocks[k].name = "sequent",
                      document.scopes[i].blocks[k].senses # <<>>,
                      NEW sense \in P!SensesOf(document.scopes[i].blocks[k])
               PROVE  \E d \in DOMAIN selected :
                        /\ selected[d].edge = sense.edge
                        /\ variables[selected[d].variable].scope = sense.of.scope
                        /\ variables[selected[d].variable].name = sense.of.name
    BY DEF OneEdge, P!OneEdge, P!Scopes
  <2> DEFINE block == document.scopes[i].blocks[k]
             ids == P!VariableIds(variables, sense.of)
             id == CHOOSE v \in ids : TRUE
  <2>1. /\ document \in Documents /\ P!DocumentOK(document) /\ phase = "design"
        /\ addresses = Hierarchy(document)
        /\ P!DomainsAccepted(variables, Blocks) /\ domains = P!DomainsOf(variables, Blocks)
        /\ domains \subseteq {selected[d] : d \in DOMAIN selected}
    BY DocumentsWellFormed DEF ParserInv, Reached, Taken, Chosen
  <2>2. document.scopes[i].addr \in addresses
    BY <2>1, DocumentFacts DEF Hierarchy
  <2>3. block \in ToSet(Blocks)
    BY <2>1, <2>2, BlocksFacts DEF Blocks
  <2>4. sense \in P!AllSenses(Blocks)
    BY <2>3, SameOperators DEF P!AllSenses, P!Sensed
  <2>5. id \in ids
    BY <2>1, <2>4 DEF P!DomainsAccepted, P!SenseAccepted
  <2>6. [variable |-> id, edge |-> sense.edge] \in domains
    <3> DEFINE Of(s) == [variable |-> CHOOSE v \in P!VariableIds(variables, s.of) : TRUE, edge |-> s.edge]
    <3>1. domains = {Of(s) : s \in P!AllSenses(Blocks)}
      BY <2>1 DEF P!DomainsOf
    <3>2. Of(sense) \in domains
      <4> HIDE DEF Of
      <4> QED BY <2>4, <3>1
    <3> QED BY <3>2
  <2>7. PICK d \in DOMAIN selected : selected[d] = [variable |-> id, edge |-> sense.edge]
    BY <2>1, <2>6
  <2>8. variables[id].scope = sense.of.scope /\ variables[id].name = sense.of.name
    BY <2>5 DEF P!VariableIds
  <2> HIDE DEF id
  <2> QED BY <2>7, <2>8
<1> QED BY <1>1, ParserInit, ParserNext, PTL DEF CliSpec

\* The variables of both parts keep their types: the parser's while its values
\* are there, the generator's always.
THEOREM CliTypeCorrect == CliSpec => []CliTypeOK
<1>1. ParserInv => (phase # "dropped" => P!TypeOK)
  BY DEF ParserInv, Reached, Taken, Chosen, Hierarchy, Blocks, P!TypeOK
<1>2. CliSpec => []TypeOK
  BY CliImplementsGenerator, TypeCorrect, PTL
<1> QED BY <1>1, <1>2, ParserInit, ParserNext, PTL DEF CliSpec, CliTypeOK
=============================================================================
