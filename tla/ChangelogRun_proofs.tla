-------------------------- MODULE ChangelogRun_proofs --------------------------
(* What holds of ChangelogRun for every set of pull requests and arguments. *)
EXTENDS ChangelogRun, Changelog_proofs, FiniteSetTheorems

\* How much has been fetched where the run is.
Progress ==
    /\ step \in {"idle", "ended", "remove"} => urls = <<>> /\ fetched = <<>>
    /\ step \in {"index core", "index contrib", "files"} \cup Requests
           => Len(fetched) < Len(urls)
    /\ step \in {"render", "write"} => Len(fetched) = Len(urls)
    /\ step = "write" => ~dryRun

Typing ==
    /\ urls \in Seq(Urls)
    /\ fetched \in Seq(Nat)
    /\ revision \in [Urls -> Nat]
    /\ step \in {"versions", "tree"} => info.revision \in Nat
    /\ step \in Running \cup {"idle", "ended"}

IInv == Typing /\ Progress

LEMMA NonEmpty ==
  ASSUME NEW S, NEW s \in Seq(S), s # <<>>
  PROVE  Len(s) > 0
  BY EmptySeq

LEMMA Incremented ==
  ASSUME NEW S, NEW f \in [S -> Nat], NEW x \in S
  PROVE  [f EXCEPT ![x] = @ + 1] \in [S -> Nat]
  OBVIOUS

\* Between runs the process has no state.
LEMMA InitProgress == Init => IInv
  BY DEF Init, IInv, Typing, Progress, Running, Requests

\* The steps of the environment and of a process that goes on.
LEMMA NextProgress == IInv /\ [Next]_vars => IInv'
<1> SUFFICES ASSUME IInv PROVE [Next]_vars => IInv'
  OBVIOUS
<1> USE DEF IInv, Typing, Progress, Running, Requests
<1>1. ASSUME NEW u \in Urls, Push(u) PROVE IInv'
  <2>1. revision' \in [Urls -> Nat]
    BY <1>1, Incremented DEF Push
  <2>2. UNCHANGED <<urls, fetched, step, info, dryRun>>
    BY <1>1 DEF Push, collected
  <2> QED
    BY <2>1, <2>2
<1>2. CASE ChlogUpdate
  BY <1>2 DEF ChlogUpdate, collected
<1>3. ASSUME NEW arguments \in Arguments, NEW dry \in BOOLEAN, Run(arguments, dry) PROVE IInv'
  <2>1. arguments \in Seq(Urls)
    BY ArgumentsAssumption
  <2>2. arguments # <<>> => Len(arguments) > 0
    BY <2>1, NonEmpty
  <2>3. /\ step \in {"idle", "ended"} /\ UNCHANGED info
        /\ urls' = arguments
        /\ UNCHANGED <<fetched, revision>>
        /\ step' = IF arguments = <<>> THEN "remove" ELSE "index core"
    BY <1>3 DEF Run, collected
  <2>4. fetched = <<>> /\ fetched' = <<>>
    BY <2>3
  <2>5. Typing'
    BY <2>1, <2>3
  <2>6. Progress'
    BY <2>2, <2>3, <2>4
  <2> QED
    BY <2>5, <2>6
<1>4. ASSUME NEW at, NEW next, FetchIndex(at, next),
             at \in {"index core", "index contrib"}, next \in {"index contrib", "files"}
      PROVE  IInv'
  BY <1>4 DEF FetchIndex, world
<1>5. CASE ReadFiles
  BY <1>5 DEF ReadFiles, world, collected
<1>6. CASE Retry
  BY <1>6 DEF Retry, world, collected
<1>7. CASE PullRead
  <2>1. step = "pull" /\ Len(fetched) + 1 \in 1 .. Len(urls)
    BY <1>7 DEF PullRead
  <2>2. revision[Current] \in Nat
    BY <2>1 DEF Current
  <2> QED
    BY <1>7, <2>2 DEF PullRead, world
<1>8. CASE VersionsRead
  BY <1>8 DEF VersionsRead, world
<1>9. CASE TreeRead
  <2>1. /\ step = "tree" /\ info.revision \in Nat
        /\ fetched' = Append(fetched, info.revision)
        /\ step' = IF Len(fetched') < Len(urls) THEN "pull" ELSE "render"
        /\ UNCHANGED world
    BY <1>9 DEF TreeRead
  <2>2. fetched' \in Seq(Nat) /\ Len(fetched') = Len(fetched) + 1
    BY <2>1
  <2> QED
    BY <2>1, <2>2 DEF world
<1>10. ASSUME NEW content, Prepare(content), step \in {"render", "remove"} PROVE IInv'
  BY <1>10 DEF Prepare, world
<1>11. ASSUME NEW result, Finish(result) PROVE IInv'
  <2>1. /\ urls' = <<>> /\ fetched' = <<>> /\ step' = "ended"
        /\ revision' = revision
    BY <1>11 DEF Finish
  <2> QED
    BY <2>1, EmptySeq
<1>12. CASE UNCHANGED vars
  BY <1>12 DEF vars
<1>13. CASE RunStep
  BY <1>13, <1>4, <1>5, <1>6, <1>7, <1>8, <1>9, <1>10, <1>11
     DEF RunStep, Fill, RemoveSection, DryRun, Write, WriteTorn, Fails
<1> QED
  BY <1>1, <1>2, <1>3, <1>12, <1>13 DEF Next

\* Only the two forms of the write touch the changelog while a run is under way, and
\* both end it.
LEMMA WhoWrites ==
  ASSUME Next, step \in Running, changelog' # changelog
  PROVE  step = "write" /\ step' = "ended"
  BY DEF Next, RunStep, Run, Push, ChlogUpdate, FetchIndex, ReadFiles, Retry, PullRead,
         VersionsRead, TreeRead, Fill, RemoveSection, Prepare, DryRun, Write, WriteTorn,
         Fails, Finish, Running, Requests

\* A run writes CHANGELOG.md at most once, as its last step, never with -dry-run and
\* only when every pull request it was given has been read (main.go:45-112).
THEOREM NothingIsWrittenEarly == Spec => OnlyCompleteRunsWrite
<1>1. Spec => []IInv
  BY InitProgress, NextProgress, PTL DEF Spec
<1>2. IInv /\ [Next]_vars
          => [changelog' # changelog /\ step \in Running =>
                 /\ ~dryRun
                 /\ Len(fetched) = Len(urls)
                 /\ step' = "ended"]_vars
  BY WhoWrites DEF IInv, Progress, vars
<1> QED
  BY <1>1, <1>2, PTL DEF Spec, OnlyCompleteRunsWrite

--------------------------------------------------------------------------------
(* Types.                                                                  *)

Counts ==
    /\ \A u \in Urls : revision[u] \in 1 .. Len(Pulls[u])
    /\ urls \in Arguments \cup {<<>>} /\ dryRun \in BOOLEAN
    /\ attempt \in 1 .. MaxAttempts
    /\ outcome \in {"none", "ok", "failed", "torn"}
    /\ step \in Running => outcome = "none"
    /\ releases \in 1 .. Max({1, MaxReleases}) /\ runs \in 0 .. MaxRuns

\* What is known of the pull request under way is of one of its revisions.
Reading ==
    step \in {"versions", "tree"} =>
        /\ Source[Current] # None
        /\ info \in [revision : 1 .. Len(Pulls[Current]), version : Nat \cup {None}]
        /\ step = "tree" => /\ info.version \in Nat
                            /\ info.version = ExtractVersion(Pulls[Current][info.revision].sets)

Indexing ==
    /\ DOMAIN index \subseteq {Normalized[c] : c \in DOMAIN Normalized}
    /\ \A n \in DOMAIN index : Normalized[index[n]] = n

Collecting ==
    /\ entries \in Seq(ToSet(entries))
    /\ \A i \in 1 .. Len(entries) :
           entries[i].version \in Nat /\ entries[i].source \in {"core", "contrib"}

\* The changelog is tidy unless a write was torn, and what is about to be written is
\* what FillUpstreamPlaceholders makes of it.
Lines ==
    /\ OfKinds(changelog)
    /\ outcome # "torn" => Tidy(changelog)
    /\ step = "write" =>
           text \in {FillUpstreamPlaceholders(changelog, NoContent),
                     FillUpstreamPlaceholders(changelog,
                         GenerateUpstreamContent(entries, Components, Cfg))}

LEMMA PullLength == \A u \in Urls : Len(Pulls[u]) \in Nat
<1> TAKE u \in Urls
<1>1. Pulls[u] \in Seq(ToSet(Pulls[u]))
  BY PullsAssumption
<1> QED
  BY <1>1

LEMMA MostReleases ==
  /\ 1 \in 1 .. Max({1, MaxReleases})
  /\ \A n \in 1 .. Max({1, MaxReleases}) : n < MaxReleases => n + 1 \in 1 .. Max({1, MaxReleases})
<1> DEFINE M == {1, MaxReleases}
<1>0. MaxReleases \in Nat
  BY BoundsAssumption
<1>1. M \subseteq 0 .. MaxReleases + 1 /\ M # {} /\ M \subseteq Nat /\ 1 \in M /\ MaxReleases \in M
  BY <1>0
<1> HIDE DEF M
<1>2. Max(M) \in M /\ MaxReleases <= Max(M) /\ 1 <= Max(M)
  <2>1. MaxReleases + 1 \in Nat
    BY <1>0
  <2>2. Max(M) \in M /\ \A k \in M : k <= Max(M)
    BY <1>1, <2>1, MaxIsGreatest
  <2> QED
    BY <1>1, <2>2
<1> DEFINE top == Max(M)
<1>3. top \in Nat /\ MaxReleases <= top /\ 1 <= top
  BY <1>1, <1>2
<1> HIDE DEF top
<1>4. 1 \in 1 .. top /\ \A n \in 1 .. top : n < MaxReleases => n + 1 \in 1 .. top
  BY <1>0, <1>3
<1> QED
  BY <1>4 DEF top, M

LEMMA CountsStay == IInv /\ Counts /\ [Next]_vars => Counts'
<1> SUFFICES ASSUME IInv, Counts PROVE [Next]_vars => Counts'
  OBVIOUS
<1>0. attempt \in 1 .. MaxAttempts /\ runs \in 0 .. MaxRuns
  BY Zenon DEF Counts
<1> USE DEF Running, Requests, MaxAttempts, world, collected
<1>1. ASSUME NEW u \in Urls, Push(u) PROVE Counts'
  <2>1. /\ revision[u] < Len(Pulls[u])
        /\ revision' = [revision EXCEPT ![u] = @ + 1]
        /\ UNCHANGED <<urls, dryRun, attempt, outcome, step, releases, runs>>
    BY <1>1 DEF Push
  <2>2. ASSUME NEW v \in Urls PROVE revision'[v] \in 1 .. Len(Pulls[v])
    <3>1. revision'[v] = IF v = u THEN revision[u] + 1 ELSE revision[v]
      BY <2>1 DEF IInv, Typing
    <3>2. Len(Pulls[v]) \in Nat /\ Len(Pulls[u]) \in Nat
      BY PullLength
    <3>3. revision[u] \in 1 .. Len(Pulls[u]) /\ revision[v] \in 1 .. Len(Pulls[v])
      BY DEF Counts
    <3>4. QED
      BY <2>1, <3>1, <3>2, <3>3
  <2> QED
    BY <2>1, <2>2 DEF Counts
<1>2. CASE ChlogUpdate
  <2>1. /\ releases < MaxReleases /\ releases' = releases + 1
        /\ UNCHANGED <<revision, urls, dryRun, attempt, outcome, step, runs>>
    BY <1>2 DEF ChlogUpdate
  <2>2. releases' \in 1 .. Max({1, MaxReleases})
    BY <2>1, MostReleases DEF Counts
  <2>3. QED
    BY <2>1, <2>2 DEF Counts
<1>3. ASSUME NEW arguments \in Arguments, NEW dry \in BOOLEAN, Run(arguments, dry) PROVE Counts'
  <2>1. /\ runs < MaxRuns /\ runs' = runs + 1 /\ urls' = arguments /\ dryRun' = dry
        /\ outcome' = "none" /\ UNCHANGED <<revision, attempt, releases>>
    BY <1>3 DEF Run
  <2>2. runs' \in 0 .. MaxRuns
    BY <1>0, <2>1, BoundsAssumption
  <2> QED
    BY <2>1, <2>2 DEF Counts
<1> DEFINE Environment == UNCHANGED <<revision, urls, dryRun, releases, runs, outcome>>
<1>4. ASSUME Environment, step \in Running, attempt' \in 1 .. MaxAttempts PROVE Counts'
  BY <1>4 DEF Counts
<1>5. attempt \in 1 .. MaxAttempts /\ 1 \in 1 .. MaxAttempts
  BY <1>0
<1>6. ASSUME NEW at, NEW next, FetchIndex(at, next), at \in {"index core", "index contrib"}
      PROVE  Counts'
  BY <1>4, <1>5, <1>6 DEF FetchIndex
<1>7. CASE ReadFiles
  BY <1>4, <1>5, <1>7 DEF ReadFiles
<1>8. CASE Retry
  <2>1. attempt' \in 1 .. MaxAttempts
    BY <1>5, <1>8 DEF Retry
  <2> QED
    BY <1>4, <1>8, <2>1 DEF Retry
<1>9. CASE PullRead \/ VersionsRead \/ TreeRead
  BY <1>4, <1>5, <1>9 DEF PullRead, VersionsRead, TreeRead
<1>10. ASSUME NEW content, Prepare(content), step \in {"render", "remove"} PROVE Counts'
  BY <1>4, <1>5, <1>10 DEF Prepare
<1>11. ASSUME NEW result \in {"ok", "failed", "torn"}, Finish(result) PROVE Counts'
  BY <1>5, <1>11 DEF Finish, Counts
<1>12. CASE UNCHANGED vars
  BY <1>12 DEF vars, Counts
<1>13. CASE RunStep
  BY <1>13, <1>6, <1>7, <1>8, <1>9, <1>10, <1>11
     DEF RunStep, Fill, RemoveSection, DryRun, Write, WriteTorn, Fails
<1> QED
  BY <1>1, <1>2, <1>3, <1>12, <1>13 DEF Next

\* A version is read from the first module set that has one.
LEMMA ExtractedVersion ==
  ASSUME NEW sets \in [ToSet(ModuleSets) -> Nat \cup {None, Malformed}],
         ExtractVersion(sets) # Malformed
  PROVE  ExtractVersion(sets) \in Nat
<1> DEFINE present == {i \in DOMAIN ModuleSets : sets[ModuleSets[i]] # None}
<1>1. DOMAIN ModuleSets \subseteq Nat /\ \A i \in DOMAIN ModuleSets : ModuleSets[i] \in ToSet(ModuleSets)
  <2>1. ModuleSets \in Seq({"beta", "contrib-base", "stable"})
    BY DEF ModuleSets
  <2>2. QED
    BY <2>1 DEF ToSet
<1>2. present # {} /\ ExtractVersion(sets) = sets[ModuleSets[Min(present)]]
  BY Zenon DEF ExtractVersion
<1>3. Min(present) \in present
  <2>1. present \subseteq Nat
    BY <1>1
  <2> HIDE DEF present
  <2>2. QED
    BY <1>2, <2>1, MinIsLeast
<1> DEFINE i == Min(present)
<1>4. i \in DOMAIN ModuleSets /\ sets[ModuleSets[i]] # None
  BY <1>3
<1> HIDE DEF present, i
<1>5. sets[ModuleSets[i]] \in Nat \cup {None, Malformed}
  BY <1>1, <1>4
<1>6. QED
  BY <1>2, <1>4, <1>5 DEF i

\* The pull request under way, and a revision of it.
LEMMA PullOf ==
  ASSUME IInv, step \in Requests, NEW r \in 1 .. Len(Pulls[Current])
  PROVE  /\ Current \in Urls
         /\ Pulls[Current][r].sets \in [ToSet(ModuleSets) -> Nat \cup {None, Malformed}]
         /\ Pulls[Current][r].tree = None \/ IsFiniteSet(Pulls[Current][r].tree)
<1>1. Current \in Urls
  <2>1. Len(fetched) < Len(urls)
    BY DEF IInv, Progress, Requests
  <2>2. urls \in Seq(Urls) /\ fetched \in Seq(Nat)
    BY DEF IInv, Typing
  <2>3. Len(fetched) + 1 \in 1 .. Len(urls)
    BY <2>1, <2>2
  <2> QED
    BY <2>2, <2>3 DEF Current
<1>2. Pulls[Current] \in Seq(ToSet(Pulls[Current]))
  BY <1>1, PullsAssumption
<1>3. Pulls[Current][r] \in ToSet(Pulls[Current])
  BY <1>2
<1>4. QED
  BY <1>1, <1>3, PullsAssumption

LEMMA ReadingStays == IInv /\ Counts /\ Reading /\ [Next]_vars => Reading'
<1> SUFFICES ASSUME IInv, Counts, Reading PROVE [Next]_vars => Reading'
  OBVIOUS
<1> USE DEF Reading, Running, Requests, world, collected
<1>1. ASSUME UNCHANGED <<step, urls, fetched, info>> PROVE Reading'
  BY <1>1 DEF Current
<1>2. ASSUME step' \notin {"versions", "tree"} PROVE Reading'
  BY <1>2
<1>3. ASSUME NEW arguments \in Arguments, NEW dry \in BOOLEAN, Run(arguments, dry) PROVE Reading'
  BY <1>3 DEF Run
<1>4. CASE PullRead
  <2>1. /\ step = "pull" /\ Source[Current] # None
        /\ info' = [revision |-> revision[Current], version |-> None]
        /\ step' = "versions" /\ Current' = Current
    BY <1>4 DEF PullRead, Current
  <2>2. Current \in Urls
    BY <2>1 DEF IInv, Typing, Progress, Current
  <2>3. revision[Current] \in 1 .. Len(Pulls[Current])
    BY <2>2 DEF Counts
  <2> QED
    BY <2>1, <2>3
<1>5. CASE VersionsRead
  <2> DEFINE version == ExtractVersion(Pulls[Current][info.revision].sets)
  <2>1. /\ step = "versions" /\ version # Malformed
        /\ info' = [info EXCEPT !.version = version]
        /\ step' = "tree" /\ Current' = Current
    BY <1>5 DEF VersionsRead, Current
  <2>2. info.revision \in 1 .. Len(Pulls[Current]) /\ Source[Current] # None
    BY <2>1
  <2>3. Pulls[Current][info.revision].sets \in [ToSet(ModuleSets) -> Nat \cup {None, Malformed}]
    BY <2>1, <2>2, PullOf
  <2>4. version \in Nat
    BY <2>1, <2>3, ExtractedVersion
  <2>5. version = ExtractVersion(Pulls[Current][info.revision].sets)
    OBVIOUS
  <2> HIDE DEF version
  <2>6. info'.version = version /\ info'.revision = info.revision
    BY <2>1
  <2> QED
    BY <2>1, <2>2, <2>4, <2>5, <2>6
<1>6. CASE TreeRead
  <2>1. step' = IF Len(fetched') < Len(urls) THEN "pull" ELSE "render"
    BY <1>6 DEF TreeRead
  <2> QED
    BY <2>1
<1>7. ASSUME NEW at, NEW next, FetchIndex(at, next), next \in {"index contrib", "files"}
      PROVE  Reading'
  BY <1>7 DEF FetchIndex
<1>8. CASE RunStep
  BY <1>8, <1>1, <1>4, <1>5, <1>6, <1>7
     DEF RunStep, Fill, RemoveSection, Prepare, DryRun, Write, WriteTorn, Fails, Finish, ReadFiles, Retry
<1> QED
  BY <1>1, <1>3, <1>8 DEF Next, Push, ChlogUpdate, vars

\* The index maps every normalized form to a component of that form.
LEMMA IndexedForms ==
  ASSUME NEW known, NEW list \in MainLists \cup {<<>>},
         DOMAIN known \subseteq {Normalized[c] : c \in DOMAIN Normalized},
         \A n \in DOMAIN known : Normalized[known[n]] = n
  PROVE  /\ DOMAIN Indexed(known, list) \subseteq {Normalized[c] : c \in DOMAIN Normalized}
         /\ \A n \in DOMAIN Indexed(known, list) : Normalized[Indexed(known, list)[n]] = n
<1> DEFINE Form(i) == Normalized[list[i]]
           at(n) == {i \in DOMAIN list : Form(i) = n}
           forms == {Form(i) : i \in DOMAIN list}
           next == [n \in DOMAIN known \cup forms |->
                        IF n \in forms THEN list[Max(at(n))] ELSE known[n]]
<1>1. Indexed(known, list) = next
  BY Zenon DEF Indexed
<1>2. list \in Seq(DOMAIN Normalized)
  <2>1. MainLists \subseteq Seq(DOMAIN Normalized)
    BY IndexAssumption
  <2>2. \A D : <<>> \in Seq(D)
    OBVIOUS
  <2> QED
    BY <2>1, <2>2, Zenon
<1>3. forms \subseteq {Normalized[c] : c \in DOMAIN Normalized}
  BY <1>2
<1>4. ASSUME NEW n \in forms PROVE Normalized[list[Max(at(n))]] = n
  <2> DEFINE I == at(n)
  <2>1. I \subseteq 0 .. Len(list) /\ I # {} /\ Len(list) \in Nat
    BY <1>2
  <2>2. \A i \in I : Normalized[list[i]] = n
    OBVIOUS
  <2> HIDE DEF I
  <2>3. Max(I) \in I
    BY <2>1, MaxIsGreatest
  <2>4. Normalized[list[Max(I)]] = n
    BY <2>2, <2>3
  <2>5. QED
    BY <2>4 DEF I
<1> HIDE DEF forms, at
<1>5. DOMAIN next = DOMAIN known \cup forms
  OBVIOUS
<1>6. ASSUME NEW n \in DOMAIN known \cup forms PROVE Normalized[next[n]] = n
  <2>1. CASE n \in forms
    <3>1. next[n] = list[Max(at(n))]
      BY <2>1
    <3>2. QED
      BY <1>4, <2>1, <3>1
  <2>2. CASE n \notin forms
    <3>1. next[n] = known[n] /\ n \in DOMAIN known
      BY <2>2
    <3>2. QED
      BY <3>1
  <2>3. QED
    BY <2>1, <2>2
<1> HIDE DEF next
<1>7. QED
  BY <1>1, <1>3, <1>5, <1>6

LEMMA IndexingStays == Indexing /\ [Next]_vars => Indexing'
<1> SUFFICES ASSUME Indexing PROVE [Next]_vars => Indexing'
  OBVIOUS
<1>1. ASSUME NEW at, NEW next, FetchIndex(at, next) PROVE Indexing'
  <2>1. PICK list \in MainLists \cup {<<>>} : index' = Indexed(index, list)
    BY <1>1 DEF FetchIndex
  <2> QED
    BY <2>1, IndexedForms DEF Indexing
<1>2. ASSUME NEW result, Finish(result) PROVE Indexing'
  BY <1>2 DEF Finish, EmptyIndex, Indexing
<1>3. ASSUME index' = index PROVE Indexing'
  BY <1>3 DEF Indexing
<1>4. CASE RunStep
  <2>1. CASE \E at, next : FetchIndex(at, next)
    BY <1>1, <2>1
  <2>2. CASE \E result : Finish(result)
    BY <1>2, <2>2
  <2>3. QED
    BY <1>3, <1>4, <2>1, <2>2
       DEF RunStep, ReadFiles, Retry, PullRead, VersionsRead, TreeRead, Fill, RemoveSection,
           Prepare, DryRun, Write, WriteTorn, Fails, collected
<1> QED
  BY <1>3, <1>4 DEF Next, Run, Push, ChlogUpdate, vars, collected

\* The entries found in a tree, whatever the order in which its files are ranged over.
LEMMA FoundEntries ==
  ASSUME NEW tree, IsFiniteSet(tree), NEW source, NEW version,
         NEW found \in SetToSeqs(Entries(tree, source, version))
  PROVE  /\ found \in Seq(Entries(tree, source, version))
         /\ IsFiniteSet(Entries(tree, source, version))
<1> DEFINE E == Entries(tree, source, version)
           F == EntryFiles(tree)
<1>1. IsFiniteSet(F)
  BY FS_Subset DEF EntryFiles
<1>2. IsFiniteSet(E)
  <2>1. E = {Entry(f, source, version) : f \in F}
    BY DEF Entries
  <2> HIDE DEF F
  <2> DEFINE img == [f \in F |-> Entry(f, source, version)]
  <2>2. img \in Surjection(F, E)
    BY <2>1 DEF Surjection
  <2> QED
    BY <1>1, <2>2, FS_Surjection
<1> HIDE DEF E
<1>3. Cardinality(E) \in Nat
  BY <1>2, FS_CardinalityType
<1>4. found \in [1 .. Cardinality(E) -> E]
  BY DEF SetToSeqs, E
<1> QED
  BY <1>2, <1>3, <1>4 DEF E

LEMMA CollectingStays == IInv /\ Reading /\ Collecting /\ [Next]_vars => Collecting'
<1> SUFFICES ASSUME IInv, Reading, Collecting PROVE [Next]_vars => Collecting'
  OBVIOUS
<1>1. CASE TreeRead
  <2> DEFINE tree == Pulls[Current][info.revision].tree
             E == Entries(tree, Source[Current], info.version)
             Well(e) == e.version \in Nat /\ e.source \in {"core", "contrib"}
  <2>1. /\ step = "tree" /\ tree # None
        /\ \E found \in SetToSeqs(E) : entries' = entries \o found
    BY <1>1 DEF TreeRead
  <2>2. Source[Current] # None /\ info.revision \in 1 .. Len(Pulls[Current]) /\ info.version \in Nat
    BY <2>1 DEF Reading
  <2>3. Current \in Urls /\ IsFiniteSet(tree)
    BY <2>1, <2>2, PullOf DEF Requests
  <2>4. Source[Current] \in {"core", "contrib"}
    BY <2>2, <2>3, SourceAssumption
  <2>5. \A e \in E : Well(e)
    BY <2>2, <2>4 DEF Entries, Entry
  <2>6. PICK found \in SetToSeqs(E) : entries' = entries \o found
    BY <2>1
  <2> HIDE DEF tree
  <2>7. found \in Seq(E)
    BY <2>3, FoundEntries
  <2> HIDE DEF E
  <2> DEFINE T == {e \in ToSet(entries) : Well(e)} \cup E
  <2>8. entries \in Seq(T)
    <3>1. \A i \in 1 .. Len(entries) : entries[i] \in ToSet(entries) /\ Well(entries[i])
      BY DEF Collecting
    <3>2. \A i \in 1 .. Len(entries) : entries[i] \in T
      BY <3>1
    <3> HIDE DEF T
    <3>3. entries \in Seq(ToSet(entries))
      BY DEF Collecting
    <3> QED
      BY <3>2, <3>3, SeqOfElements
  <2>9. found \in Seq(T)
    <3>1. \A i \in 1 .. Len(found) : found[i] \in T
      BY <2>7
    <3> HIDE DEF T
    <3> QED
      BY <2>7, <3>1, SeqOfElements
  <2>10. \A e \in T : Well(e)
    BY <2>5
  <2> HIDE DEF T
  <2>11. entries' \in Seq(T)
    BY <2>6, <2>8, <2>9
  <2>12. entries' \in Seq(ToSet(entries'))
    BY <2>11, SeqOfItself
  <2>13. \A i \in 1 .. Len(entries') : Well(entries'[i])
    BY <2>10, <2>11
  <2> QED
    BY <2>12, <2>13 DEF Collecting
<1>2. ASSUME NEW result, Finish(result) PROVE Collecting'
  <2>1. entries' = <<>>
    BY <1>2 DEF Finish
  <2>2. <<>> \in Seq(ToSet(<<>>)) /\ Len(<<>>) = 0
    OBVIOUS
  <2> QED
    BY <2>1, <2>2 DEF Collecting
<1>3. ASSUME entries' = entries PROVE Collecting'
  BY <1>3 DEF Collecting
<1>4. CASE RunStep
  <2>1. CASE \E result : Finish(result)
    BY <1>2, <2>1
  <2> QED
    BY <1>1, <1>3, <1>4, <2>1
       DEF RunStep, FetchIndex, ReadFiles, Retry, PullRead, VersionsRead, Fill, RemoveSection,
           Prepare, DryRun, Write, WriteTorn, Fails, collected
<1> QED
  BY <1>3, <1>4 DEF Next, Run, Push, ChlogUpdate, vars, collected

--------------------------------------------------------------------------------
(* How often each entry has been collected.                                *)

\* The entries of a revision of a pull request.
EntriesOf(u, r) ==
    Entries(Pulls[u][r].tree, Source[u], ExtractVersion(Pulls[u][r].sets))

Holding(e) == {i \in 1 .. Len(fetched) : e \in EntriesOf(urls[i], fetched[i])}

\* Each entry has been collected once for every pull request that has it, from the
\* revision that was read.
Collected == \A e : Times(e, entries) = Cardinality(Holding(e))

LEMMA NothingCollected ==
  ASSUME NEW e
  PROVE  Times(e, <<>>) = 0 /\ (fetched = <<>> => Cardinality(Holding(e)) = 0)
<1>1. \A i \in 1 .. Len(<<>>) : FALSE
  OBVIOUS
<1>2. Times(e, <<>>) = 0
  <2>1. {i \in DOMAIN <<>> : <<>>[i] = e} = {}
    OBVIOUS
  <2> QED
    BY <2>1, FS_EmptySet DEF Times
<1>3. fetched = <<>> => Holding(e) = {}
  BY <1>1 DEF Holding
<1> QED
  BY <1>2, <1>3, FS_EmptySet

LEMMA CollectedStays == IInv /\ Reading /\ Collecting /\ Collected /\ [Next]_vars => Collected'
<1> SUFFICES ASSUME IInv, Reading, Collecting, Collected PROVE [Next]_vars => Collected'
  OBVIOUS
<1>1. CASE TreeRead
  <2> DEFINE u == Current
             r == info.revision
             E == EntriesOf(u, r)
             n == Len(fetched)
  <2>1. /\ step = "tree" /\ Pulls[u][r].tree # None
        /\ \E found \in SetToSeqs(Entries(Pulls[u][r].tree, Source[u], info.version)) :
               entries' = entries \o found
        /\ fetched' = Append(fetched, r) /\ urls' = urls
    BY <1>1 DEF TreeRead, world
  <2>2. r \in 1 .. Len(Pulls[u]) /\ info.version = ExtractVersion(Pulls[u][r].sets)
    BY <2>1 DEF Reading
  <2>3. IsFiniteSet(Pulls[u][r].tree)
    BY <2>1, <2>2, PullOf DEF Requests
  <2>4. PICK found \in SetToSeqs(E) : entries' = entries \o found
    BY <2>1, <2>2 DEF EntriesOf
  <2>5. found \in Seq(E) /\ IsFiniteSet(E)
    BY <2>3, FoundEntries DEF EntriesOf
  <2>6. fetched \in Seq(Nat) /\ n \in Nat /\ u = urls[n + 1]
    BY DEF IInv, Typing, Current
  <2> HIDE DEF E, u, r, n
  <2>7. /\ Len(fetched') = n + 1 /\ fetched'[n + 1] = r
        /\ \A i \in 1 .. n : fetched'[i] = fetched[i]
    BY <2>1, <2>6 DEF n
  <2>8. ASSUME NEW e PROVE Times(e, entries') = Times(e, entries) + IF e \in E THEN 1 ELSE 0
    <3> DEFINE T == ToSet(entries) \cup E
    <3>1. entries \in Seq(T)
      <4>1. entries \in Seq(ToSet(entries)) /\ \A i \in 1 .. Len(entries) : entries[i] \in ToSet(entries)
        BY DEF Collecting
      <4>2. \A i \in 1 .. Len(entries) : entries[i] \in T
        BY <4>1
      <4> HIDE DEF T
      <4> QED
        BY <4>1, <4>2, SeqOfElements
    <3>2. found \in Seq(T)
      <4>1. \A i \in 1 .. Len(found) : found[i] \in T
        BY <2>5
      <4> HIDE DEF T
      <4> QED
        BY <2>5, <4>1, SeqOfElements
    <3> HIDE DEF T
    <3>3. Times(e, entries \o found) = Times(e, entries) + Times(e, found)
      BY <3>1, <3>2, TimesConcat
    <3>4. ToSet(found) = E /\ (e \in E => Times(e, found) = 1)
      BY <2>4, <2>5, SetToSeqsLists
    <3>5. e \notin E => Times(e, found) = 0
      <4>1. Times(e, found) \in Nat /\ (e \in ToSet(found) <=> Times(e, found) > 0)
        BY <2>5, TimesCounts, TimesOfElements
      <4> QED
        BY <3>4, <4>1
    <3> QED
      BY <2>4, <3>3, <3>4, <3>5
  <2>9. ASSUME NEW e
        PROVE  Cardinality(Holding(e)') = Cardinality(Holding(e)) + IF e \in E THEN 1 ELSE 0
    <3> DEFINE H == Holding(e)
               K == Holding(e)'
    <3>1. IsFiniteSet(H) /\ n + 1 \notin H
      <4>1. H \in SUBSET (1 .. n) /\ IsFiniteSet(1 .. n)
        BY <2>6, FS_Interval DEF Holding, n
      <4> HIDE DEF H
      <4>2. IsFiniteSet(H) /\ \A i \in H : i \in 1 .. n
        BY <4>1, FS_Subset
      <4>3. n \in Nat
        BY <2>6
      <4>4. n + 1 \notin 1 .. n
        BY <4>3
      <4> QED
        BY <4>2, <4>4
    <3>2. \A i \in 1 .. n : i \in K <=> i \in H
      BY <2>1, <2>6, <2>7 DEF Holding, n
    <3>3. n + 1 \in K <=> e \in E
      BY <2>1, <2>6, <2>7 DEF Holding, E
    <3>4. H \subseteq 1 .. n /\ K \subseteq 1 .. n + 1
      BY <2>7 DEF Holding, n
    <3> HIDE DEF H, K
    <3>5. K = IF e \in E THEN H \cup {n + 1} ELSE H
      <4>1. n \in Nat
        BY <2>6
      <4>2. \A i \in 1 .. n + 1 : i \in 1 .. n \/ i = n + 1
        BY <4>1
      <4>3. \A i \in K : i \in H \/ (i = n + 1 /\ e \in E)
        BY <3>2, <3>3, <3>4, <4>2
      <4>4. \A i \in H : i \in K
        BY <3>2, <3>4
      <4>5. e \in E => n + 1 \in K
        BY <3>3
      <4> QED
        BY <4>3, <4>4, <4>5
    <3>6. Cardinality(H) \in Nat /\ Cardinality(H \cup {n + 1}) = Cardinality(H) + 1
      BY <3>1, FS_AddElement, FS_CardinalityType
    <3> QED
      BY <3>5, <3>6 DEF H, K
  <2> QED
    BY <2>8, <2>9 DEF Collected
<1>2. ASSUME entries' = <<>>, fetched' = <<>> PROVE Collected'
  <2>1. \A e : Times(e, <<>>) = 0
    BY NothingCollected
  <2>2. \A e : Holding(e)' = {}
    BY <1>2 DEF Holding
  <2> QED
    BY <1>2, <2>1, <2>2, FS_EmptySet DEF Collected
<1>3. ASSUME UNCHANGED <<entries, fetched, urls>> PROVE Collected'
  BY <1>3 DEF Collected, Holding
<1>4. CASE RunStep
  <2>1. CASE \E result : Finish(result)
    BY <1>2, <2>1 DEF Finish
  <2> QED
    BY <1>1, <1>3, <1>4, <2>1
       DEF RunStep, FetchIndex, ReadFiles, Retry, PullRead, VersionsRead, Fill, RemoveSection,
           Prepare, DryRun, Write, WriteTorn, Fails, collected, world
<1>5. ASSUME NEW arguments, NEW dry, Run(arguments, dry) PROVE Collected'
  <2>1. fetched = <<>> /\ UNCHANGED <<entries, fetched>>
    BY <1>5 DEF Run, collected, IInv, Progress
  <2>2. \A e : Holding(e) = {} /\ Holding(e)' = {}
    BY <2>1 DEF Holding
  <2> QED
    BY <2>1, <2>2 DEF Collected
<1> QED
  BY <1>3, <1>4, <1>5 DEF Next, Push, ChlogUpdate, vars, collected

--------------------------------------------------------------------------------
(* The changelog.                                                          *)

\* What a run makes of a tidy changelog is tidy.
LEMMA PreparedIsTidy ==
  ASSUME NEW s, OfKinds(s), Tidy(s),
         NEW c \in {NoContent, GenerateUpstreamContent(entries, Components, Cfg)}
  PROVE  Tidy(FillUpstreamPlaceholders(s, c))
<1>1. s \in Seq(ToSet(s))
  BY DEF OfKinds
<1>2. c.versions = c.version
  BY DEF NoContent, GenerateUpstreamContent
<1>3. CASE c.version = <<>>
  BY <1>1, <1>3, RemovedIsTidy DEF FillUpstreamPlaceholders
<1>4. CASE c.version # <<>>
  <2> DEFINE r == FillUpstreamPlaceholders(s, c)
  <2>1. Unmarked(r) /\ Titled(r)
    BY <1>1, <1>2, <1>4, FilledIsUnmarked
  <2>2. OfKinds(r)
    BY FillKinds
  <2> HIDE DEF r
  <2>3. r \in Seq(ToSet(r))
    BY <2>2 DEF OfKinds
  <2>4. Tidy(r)
    BY <2>1, <2>3, UnmarkedIsTidy
  <2> QED
    BY <2>4 DEF r
<1> QED
  BY <1>3, <1>4

LEMMA PrefixKinds ==
  ASSUME NEW s, OfKinds(s), NEW n \in 0 .. Len(s)
  PROVE  OfKinds(SubSeq(s, 1, n))
<1> DEFINE T == {l \in ToSet(s) : l.kind \in Kinds}
<1>1. s \in Seq(ToSet(s)) /\ \A i \in 1 .. Len(s) : s[i] \in ToSet(s) /\ s[i].kind \in Kinds
  BY DEF OfKinds
<1>2. \A i \in 1 .. n : i \in 1 .. Len(s)
  BY <1>1
<1>3. \A i \in 1 .. n : s[i] \in T
  BY <1>1, <1>2
<1>4. \A l \in T : l.kind \in Kinds
  OBVIOUS
<1> HIDE DEF T
<1>5. SubSeq(s, 1, n) \in Seq(T)
  BY <1>3, SubSeqProperties
<1> QED
  BY <1>4, <1>5, OfKindsType

LEMMA LinesStay == Counts /\ Lines /\ [Next]_vars => Lines'
<1> SUFFICES ASSUME Counts, Lines PROVE [Next]_vars => Lines'
  OBVIOUS
<1> DEFINE Contents == {NoContent, GenerateUpstreamContent(entries, Components, Cfg)}
<1>1. ASSUME step = "write"
      PROVE  \E c \in Contents : text = FillUpstreamPlaceholders(changelog, c)
  BY <1>1 DEF Lines
<1>2. ASSUME step = "write" PROVE OfKinds(text) /\ Tidy(text)
  <2>1. PICK c \in Contents : text = FillUpstreamPlaceholders(changelog, c)
    BY <1>1, <1>2
  <2>2. outcome # "torn"
    BY <1>2 DEF Counts, Running
  <2>3. OfKinds(changelog) /\ Tidy(changelog)
    BY <2>2 DEF Lines
  <2> QED
    BY <2>1, <2>3, FillKinds, PreparedIsTidy
<1> HIDE DEF Contents
<1>3. CASE Write
  BY <1>2, <1>3 DEF Write, Finish, Lines
<1>4. CASE WriteTorn
  <2>1. PICK n \in 0 .. Len(text) - 1 : changelog' = SubSeq(text, 1, n)
    BY <1>4 DEF WriteTorn
  <2>2. OfKinds(text) /\ step' = "ended" /\ outcome' = "torn"
    BY <1>2, <1>4 DEF WriteTorn, Finish
  <2>3. n \in 0 .. Len(text)
    <3>1. text \in Seq(ToSet(text))
      BY <2>2 DEF OfKinds
    <3> QED
      BY <3>1
  <2>4. OfKinds(changelog')
    BY <2>1, <2>2, <2>3, PrefixKinds
  <2> QED
    BY <2>2, <2>4 DEF Lines
<1>5. CASE ChlogUpdate
  <2>1. /\ step \in {"idle", "ended"} /\ outcome # "torn"
        /\ UNCHANGED <<step, outcome>>
        /\ \E own \in BOOLEAN :
              changelog' = SubSeq(changelog, 1, 2) \o Scaffold(releases + 1, own)
                               \o SubSeq(changelog, 3, Len(changelog))
    BY <1>5 DEF ChlogUpdate
  <2>2. OfKinds(changelog') /\ Tidy(changelog')
    BY <2>1, ReleasedIsTidy DEF Lines
  <2> QED
    BY <2>1, <2>2 DEF Lines
<1>6. ASSUME changelog' = changelog, outcome' # "torn" \/ outcome' = outcome, step' # "write",
             outcome # "torn" \/ outcome' = outcome
      PROVE  Lines'
  BY <1>6 DEF Lines
<1>7. ASSUME NEW c, Prepare(c), step \in {"render", "remove"},
             c \in {NoContent, GenerateUpstreamContent(entries, Components, Cfg)}
      PROVE  Lines'
  <2>1. /\ text' = FillUpstreamPlaceholders(changelog, c)
        /\ UNCHANGED <<index, entries, changelog, outcome>>
    BY <1>7 DEF Prepare
  <2>2. Components' = Components
    BY <2>1 DEF Components
  <2> QED
    BY <1>7, <2>1, <2>2 DEF Lines
<1>8. ASSUME UNCHANGED <<changelog, outcome, step, text, entries, index>> PROVE Lines'
  <2>1. Components' = Components
    BY <1>8 DEF Components
  <2> QED
    BY <1>8, <2>1 DEF Lines
<1>9. ASSUME NEW result \in {"ok", "failed"}, Finish(result), changelog' = changelog,
             step \in Running
      PROVE  Lines'
  <2>1. outcome = "none" /\ outcome' = result /\ step' = "ended"
    BY <1>9 DEF Finish, Counts
  <2> QED
    BY <1>6, <1>9, <2>1
<1>10. ASSUME NEW at, NEW next, FetchIndex(at, next), next \in {"index contrib", "files"}
       PROVE  Lines'
  BY <1>6, <1>10 DEF FetchIndex
<1>11. CASE RunStep
  <2>1. CASE ReadFiles \/ PullRead \/ VersionsRead \/ TreeRead
    BY <1>6, <2>1 DEF ReadFiles, PullRead, VersionsRead, TreeRead
  <2>2. CASE Retry
    BY <1>6, <2>2 DEF Retry, Requests
  <2>3. CASE Fill \/ RemoveSection
    BY <1>7, <2>3 DEF Fill, RemoveSection
  <2>4. CASE DryRun \/ Fails
    BY <1>9, <2>4 DEF DryRun, Fails, Running
  <2> QED
    BY <1>3, <1>4, <1>10, <1>11, <2>1, <2>2, <2>3, <2>4 DEF RunStep
<1>12. ASSUME NEW arguments, NEW dry, Run(arguments, dry) PROVE Lines'
  <2>1. /\ outcome # "torn" /\ outcome' = "none" /\ changelog' = changelog
        /\ step' = IF arguments = <<>> THEN "remove" ELSE "index core"
    BY <1>12 DEF Run
  <2> QED
    BY <1>6, <2>1
<1> QED
  BY <1>5, <1>8, <1>11, <1>12 DEF Next, Push, vars, collected

--------------------------------------------------------------------------------
(* What lasts.                                                             *)

\* f takes the lasting lines of s to those of t, in order.
Carries(s, t, f) ==
    /\ \A i \in 1 .. Len(s) : Lasting(s[i]) => f[i] \in 1 .. Len(t) /\ t[f[i]] = s[i]
    /\ \A i, j \in 1 .. Len(s) : Lasting(s[i]) /\ Lasting(s[j]) /\ i < j => f[i] < f[j]
    /\ \A k \in 1 .. Len(t) : Lasting(t[k]) =>
          \E i \in 1 .. Len(s) : Lasting(s[i]) /\ f[i] = k

Passing(s) == {i \in DOMAIN s : ~Lasting(s[i])}

LEMMA LastingPositions ==
  ASSUME NEW T, NEW s \in Seq(T)
  PROVE  \A i : i \in (1 .. Len(s)) \ Passing(s) <=> i \in 1 .. Len(s) /\ Lasting(s[i])
<1>1. DOMAIN s = 1 .. Len(s)
  OBVIOUS
<1> QED
  BY <1>1 DEF Passing

LEMMA SelectedLastings ==
  ASSUME NEW T, NEW s \in Seq(T)
  PROVE  \E p : Selection(s, Len(s), Passing(s), Lastings(s), p)
<1>1. Lastings(s) = Without(s, Passing(s))
  BY DEF Lastings, Chosen, Passing
<1> QED
  BY <1>1, WithoutType

LEMMA SameLastings ==
  ASSUME NEW T, NEW U, NEW s \in Seq(T), NEW t \in Seq(U), NEW f, Carries(s, t, f)
  PROVE  Lastings(s) = Lastings(t)
<1> DEFINE n == Len(s)
           m == Len(t)
           D == Passing(s)
           E == Passing(t)
           r == Lastings(s)
           q == Lastings(t)
           g == [i \in (1 .. n) \ D |-> f[i]]
<1>1. PICK p : Selection(s, n, D, r, p)
  BY SelectedLastings
<1>2. PICK o : Selection(t, m, E, q, o)
  BY SelectedLastings
<1>3. /\ n \in Nat /\ m \in Nat
      /\ \A i : i \in (1 .. n) \ D <=> i \in 1 .. n /\ Lasting(s[i])
      /\ \A i : i \in (1 .. m) \ E <=> i \in 1 .. m /\ Lasting(t[i])
  BY LastingPositions
<1>4. /\ \A i \in 1 .. n : Lasting(s[i]) => f[i] \in 1 .. m /\ t[f[i]] = s[i]
      /\ \A i, j \in 1 .. n : Lasting(s[i]) /\ Lasting(s[j]) /\ i < j => f[i] < f[j]
      /\ \A k \in 1 .. m : Lasting(t[k]) => \E i \in 1 .. n : Lasting(s[i]) /\ f[i] = k
  BY DEF Carries
<1> HIDE DEF n, m, D, E, r, q
<1>5. \A i \in (1 .. n) \ D : g[i] = f[i]
  OBVIOUS
<1>6. g \in [(1 .. n) \ D -> (1 .. m) \ E]
  BY <1>3, <1>4
<1> HIDE DEF g
<1>7. \A i, j \in (1 .. n) \ D : i < j => g[i] < g[j]
  BY <1>3, <1>4, <1>5
<1>8. \A k \in (1 .. m) \ E : \E i \in (1 .. n) \ D : g[i] = k
  <2> TAKE k \in (1 .. m) \ E
  <2>1. PICK i \in 1 .. n : Lasting(s[i]) /\ f[i] = k
    BY <1>3, <1>4
  <2>2. i \in (1 .. n) \ D /\ g[i] = k
    BY <1>3, <1>5, <2>1
  <2> QED
    BY <2>2
<1>9. \A i \in (1 .. n) \ D : t[g[i]] = s[i]
  BY <1>3, <1>4, <1>5
<1>10. r = q
  BY <1>1, <1>2, <1>3, <1>6, <1>7, <1>8, <1>9, SameKept
<1> QED
  BY <1>10 DEF r, q

\* Filling a placeholder is not a change of the lines that last.
LEMMA LastingsFilled ==
  ASSUME NEW T, NEW s \in Seq(T), NEW c
  PROVE  Lastings(FillSlots(s, c)) = Lastings(s)
<1> DEFINE f == FillSlots(s, c)
           n == Len(s)
           id == [i \in 1 .. n |-> i]
<1>1. /\ f \in Seq({f[i] : i \in 1 .. n}) /\ Len(f) = n
      /\ \A i \in 1 .. n :
            f[i] = IF s[i].kind = "slot" /\ (s[i].name = "other" \/ c[s[i].name] # <<>>)
                   THEN Filled(s[i].name, c[s[i].name])
                   ELSE s[i]
  BY FillSlotsLines
<1> HIDE DEF f
<1>2. \A i \in 1 .. n : id[i] = i
  OBVIOUS
<1>3. \A i \in 1 .. n : /\ Lasting(s[i]) => f[i] = s[i]
                        /\ Lasting(f[i]) => f[i] = s[i]
  <2> TAKE i \in 1 .. n
  <2>1. CASE s[i].kind = "slot" /\ (s[i].name = "other" \/ c[s[i].name] # <<>>)
    <3>1. f[i] = Filled(s[i].name, c[s[i].name]) /\ s[i].kind = "slot"
      BY <1>1, <2>1
    <3>2. \A name, body : Filled(name, body).kind = "filled"
      BY DEF Filled
    <3>3. f[i].kind = "filled"
      BY <3>1, <3>2
    <3> QED
      BY <3>1, <3>3 DEF Lasting
  <2>2. CASE ~(s[i].kind = "slot" /\ (s[i].name = "other" \/ c[s[i].name] # <<>>))
    BY <1>1, <2>2
  <2> QED
    BY <2>1, <2>2
<1>4. n \in Nat
  OBVIOUS
<1>5. Carries(s, f, id)
  <2> HIDE DEF id
  <2>1. \A i \in 1 .. n : Lasting(s[i]) => id[i] \in 1 .. n /\ f[id[i]] = s[i]
    BY <1>2, <1>3
  <2>2. \A i, j \in 1 .. n : Lasting(s[i]) /\ Lasting(s[j]) /\ i < j => id[i] < id[j]
    BY <1>2
  <2>3. \A k \in 1 .. n : Lasting(f[k]) => \E i \in 1 .. n : Lasting(s[i]) /\ id[i] = k
    BY <1>2, <1>3
  <2> QED
    BY <1>1, <2>1, <2>2, <2>3 DEF Carries
<1>6. f \in Seq({f[i] : i \in 1 .. n})
  BY <1>1
<1> HIDE DEF id, n
<1> QED
  BY <1>5, <1>6, SameLastings DEF f

\* Nor is the removal of lines that do not last.
LEMMA LastingsWithout ==
  ASSUME NEW T, NEW s \in Seq(T), NEW D, \A i \in 1 .. Len(s) : Lasting(s[i]) => i \notin D
  PROVE  Lastings(Without(s, D)) = Lastings(s)
<1> DEFINE n == Len(s)
           r == Without(s, D)
<1>1. r \in Seq(T) /\ \E p : Selection(s, n, D, r, p)
  BY WithoutType
<1>2. n \in Nat /\ \A i \in 1 .. n : Lasting(s[i]) => i \in (1 .. n) \ D
  OBVIOUS
<1> HIDE DEF n, r
<1>3. PICK p : Selection(s, n, D, r, p)
  BY <1>1
<1>4. PICK m \in Nat : m = Len(r)
  BY <1>1
<1>5. /\ \A k \in 1 .. m : r[k] = s[p[k]] /\ p[k] \in 1 .. n
      /\ \A j, k \in 1 .. m : j < k => p[j] < p[k]
      /\ \A i \in (1 .. n) \ D : \E k \in 1 .. m : p[k] = i
  BY <1>3, <1>4 DEF Selection
<1>6. Carries(r, s, p)
  <2>1. \A k \in 1 .. m : Lasting(r[k]) => p[k] \in 1 .. n /\ s[p[k]] = r[k]
    BY <1>5
  <2>2. \A i, j \in 1 .. m : Lasting(r[i]) /\ Lasting(r[j]) /\ i < j => p[i] < p[j]
    BY <1>5
  <2>3. ASSUME NEW i \in 1 .. n, Lasting(s[i]) PROVE \E k \in 1 .. m : Lasting(r[k]) /\ p[k] = i
    <3>1. PICK k \in 1 .. m : p[k] = i
      BY <1>2, <1>5, <2>3
    <3>2. Lasting(r[k])
      BY <1>5, <2>3, <3>1
    <3> QED
      BY <3>1, <3>2
  <2> QED
    BY <1>4, <2>1, <2>2, <2>3 DEF Carries, n
<1> QED
  BY <1>1, <1>6, SameLastings DEF r

\* Nor the removal of a part without any.
LEMMA LastingsRest ==
  ASSUME NEW T, NEW s \in Seq(T), NEW a \in 0 .. Len(s), NEW f \in (a + 1) .. Len(s) + 1,
         \A i \in (a + 1) .. (f - 1) : ~Lasting(s[i])
  PROVE  Lastings(Rest(s, a, f)) = Lastings(s)
<1> DEFINE n == Len(s)
           r == Rest(s, a, f)
           l == a + 1 + (n + 1 - f)
           S == T \cup {Blank}
           to == [k \in 1 .. n |-> IF k <= a THEN k ELSE (k - f) + a + 2]
<1>1. n \in Nat /\ a \in 0 .. n /\ f \in (a + 1) .. (n + 1) /\ s \in Seq(S) /\ Blank \in S
  <2>1. \A i \in 1 .. Len(s) : s[i] \in S
    OBVIOUS
  <2> HIDE DEF S
  <2>2. s \in Seq(S)
    BY <2>1, SeqOfElements
  <2> QED
    BY <2>2 DEF S
<1> HIDE DEF S
<1>2. /\ r \in Seq(S) /\ Len(r) = l
      /\ \A k \in 1 .. a : r[k] = s[k]
      /\ r[a + 1] = Blank
      /\ \A k \in a + 2 .. l : r[k] = s[(k - a - 2) + f]
  <2>1. a \in 0 .. Len(s) /\ f \in 1 .. Len(s) + 1
    BY <1>1
  <2> QED
    BY <1>1, <2>1, RestLines
<1>3. \A i \in (a + 1) .. (f - 1) : ~Lasting(s[i])
  OBVIOUS
<1>4. ~Lasting(Blank)
  BY DEF Lasting, Blank
<1>5. \A k \in 1 .. n : to[k] = IF k <= a THEN k ELSE (k - f) + a + 2
  OBVIOUS
<1> HIDE DEF r, to, l, n
<1>6. \A k \in 1 .. n : Lasting(s[k]) => k \in 1 .. a \/ k \in f .. n
  BY <1>1, <1>3
<1>7. \A k \in 1 .. a : k \in 1 .. n /\ to[k] = k /\ k \in 1 .. l
  BY <1>1, <1>5 DEF l
<1>8. \A k \in f .. n : /\ k \in 1 .. n /\ to[k] = (k - f) + a + 2
                        /\ (k - f) + a + 2 \in a + 2 .. l
                        /\ (((k - f) + a + 2) - a - 2) + f = k
                        /\ (k - f) + a + 2 \in 1 .. l
  BY <1>1, <1>5 DEF l
<1>9. \A k \in a + 2 .. l : (k - a - 2) + f \in f .. n
  BY <1>1 DEF l
<1>10. Carries(s, r, to)
  <2>1. ASSUME NEW k \in 1 .. n, Lasting(s[k]) PROVE to[k] \in 1 .. l /\ r[to[k]] = s[k]
    <3>1. CASE k \in 1 .. a
      BY <1>2, <1>7, <3>1
    <3>2. CASE k \in f .. n
      <4>1. r[(k - f) + a + 2] = s[(((k - f) + a + 2) - a - 2) + f]
        BY <1>2, <1>8, <3>2
      <4> QED
        BY <1>8, <3>2, <4>1
    <3> QED
      BY <1>6, <2>1, <3>1, <3>2
  <2>2. ASSUME NEW i \in 1 .. n, NEW j \in 1 .. n, Lasting(s[i]), Lasting(s[j]), i < j
        PROVE  to[i] < to[j]
    <3>1. (i \in 1 .. a \/ i \in f .. n) /\ (j \in 1 .. a \/ j \in f .. n)
      BY <1>6, <2>2
    <3>2. /\ to[i] = IF i <= a THEN i ELSE (i - f) + a + 2
          /\ to[j] = IF j <= a THEN j ELSE (j - f) + a + 2
      BY <1>5
    <3> QED
      BY <1>1, <2>2, <3>1, <3>2
  <2>3. ASSUME NEW k \in 1 .. l, Lasting(r[k])
        PROVE  \E i \in 1 .. n : Lasting(s[i]) /\ to[i] = k
    <3>1. k # a + 1
      BY <1>2, <1>4, <2>3
    <3>2. CASE k \in 1 .. a
      BY <1>2, <1>7, <2>3, <3>2
    <3>3. CASE k \in a + 2 .. l
      <4> DEFINE i == (k - a - 2) + f
      <4>1. i \in f .. n /\ r[k] = s[i]
        BY <1>2, <1>9, <3>3
      <4>2. (i - f) + a + 2 = k
        BY <1>1
      <4> HIDE DEF i
      <4>3. i \in 1 .. n /\ to[i] = k
        BY <1>8, <4>1, <4>2
      <4> QED
        BY <2>3, <4>1, <4>3
    <3>4. k \in 1 .. a \/ k \in a + 2 .. l
      BY <1>1, <3>1
    <3> QED
      BY <3>2, <3>3, <3>4
  <2> QED
    BY <1>2, <2>1, <2>2, <2>3 DEF Carries, n
<1>11. r \in Seq(S)
  BY <1>2
<1> QED
  BY <1>10, <1>11, SameLastings DEF r

\* Between a start marker and the next end marker nothing lasts.
Enclosed(s) ==
    \A i, k \in 1 .. Len(s) : s[i] = Start /\ i < k /\ Lasting(s[k]) =>
        \E e \in i + 1 .. k - 1 : s[e] = End

LEMMA UnmarkedIsEnclosed ==
  ASSUME NEW s, Unmarked(s)
  PROVE  Enclosed(s) /\ Closed(s)
  BY DEF Unmarked, Enclosed, Closed, Start

LEMMA EnclosedTail ==
  ASSUME NEW T, NEW s \in Seq(T), Enclosed(s), NEW f \in 1 .. Len(s) + 1
  PROVE  SubSeq(s, f, Len(s)) \in Seq(T) /\ Enclosed(SubSeq(s, f, Len(s)))
<1> DEFINE n == Len(s)
           v == SubSeq(s, f, n)
           l == n + 1 - f
<1>1. n \in Nat /\ l \in Nat /\ \A i \in f .. n : s[i] \in T
  OBVIOUS
<1>2. v \in Seq(T) /\ Len(v) = l /\ \A i \in 1 .. l : v[i] = s[f + i - 1]
  <2>1. /\ v \in Seq(T) /\ Len(v) = IF f <= n THEN n - f + 1 ELSE 0
        /\ \A i \in 1 .. n - f + 1 : v[i] = s[f + i - 1]
    BY <1>1, SubSeqProperties
  <2> HIDE DEF v, n
  <2>2. n - f + 1 = l /\ (IF f <= n THEN n - f + 1 ELSE 0) = l
    BY <1>1 DEF n
  <2> HIDE DEF l
  <2> QED
    BY <2>1, <2>2
<1>3. \A i, k \in 1 .. n : s[i] = Start /\ i < k /\ Lasting(s[k]) =>
          \E e \in i + 1 .. k - 1 : s[e] = End
  BY DEF Enclosed
<1>4. \A i \in 1 .. l : f + i - 1 \in 1 .. n
  OBVIOUS
<1> HIDE DEF v, l, n
<1>5. Enclosed(v)
  <2> SUFFICES ASSUME NEW i \in 1 .. l, NEW k \in 1 .. l,
                      v[i] = Start, i < k, Lasting(v[k])
               PROVE  \E e \in i + 1 .. k - 1 : v[e] = End
    BY <1>2 DEF Enclosed
  <2> DEFINE x == f + i - 1
             y == f + k - 1
  <2>0. v[i] = s[x] /\ v[k] = s[y] /\ x \in 1 .. n /\ y \in 1 .. n
    BY <1>2, <1>4
  <2>1. x \in 1 .. n /\ y \in 1 .. n /\ s[x] = Start /\ Lasting(s[y]) /\ x < y
    <3>1. x < y
      BY <1>1
    <3> HIDE DEF x, y
    <3> QED
      BY <2>0, <3>1
  <2> HIDE DEF x, y
  <2>2. PICK e \in x + 1 .. y - 1 : s[e] = End
    BY <1>3, <2>1
  <2> DEFINE d == e - f + 1
  <2>3. d \in i + 1 .. k - 1 /\ d \in 1 .. l /\ f + d - 1 = e
    BY <1>1 DEF x, y
  <2> HIDE DEF d
  <2>4. v[d] = End
    BY <1>2, <2>2, <2>3
  <2> QED
    BY <2>3, <2>4
<1> QED
  BY <1>2, <1>5 DEF v, n

LEMMA EnclosedJoin ==
  ASSUME NEW T, NEW x \in Seq(T), NEW y \in Seq(T), Enclosed(x), Closed(x), Enclosed(y)
  PROVE  x \o y \in Seq(T) /\ Enclosed(x \o y)
<1> DEFINE m == Len(x)
           n == Len(y)
           t == x \o y
<1>1. m \in Nat /\ n \in Nat
  OBVIOUS
<1>2. /\ t \in Seq(T) /\ Len(t) = m + n
      /\ \A i \in 1 .. m + n : t[i] = IF i <= m THEN x[i] ELSE y[i - m]
  BY ConcatProperties
<1>3. /\ \A i, k \in 1 .. m : x[i] = Start /\ i < k /\ Lasting(x[k]) =>
            \E e \in i + 1 .. k - 1 : x[e] = End
      /\ \A i \in 1 .. m : x[i] = Start => \E e \in i + 1 .. m : x[e] = End
      /\ \A i, k \in 1 .. n : y[i] = Start /\ i < k /\ Lasting(y[k]) =>
            \E e \in i + 1 .. k - 1 : y[e] = End
  BY DEF Enclosed, Closed
<1> HIDE DEF m, n, t
<1>4. ASSUME NEW i \in 1 .. m + n, NEW k \in 1 .. m + n, t[i] = Start, i < k, Lasting(t[k])
      PROVE  \E e \in i + 1 .. k - 1 : t[e] = End
  <2>1. CASE k <= m
    <3>1. i \in 1 .. m /\ k \in 1 .. m /\ x[i] = Start /\ Lasting(x[k])
      BY <1>1, <1>2, <1>4, <2>1
    <3>2. PICK e \in i + 1 .. k - 1 : x[e] = End
      BY <1>3, <1>4, <3>1
    <3>3. e \in 1 .. m + n /\ e <= m
      BY <1>1, <2>1
    <3>4. t[e] = End
      BY <1>2, <3>2, <3>3
    <3> QED
      BY <3>4
  <2>2. CASE i <= m /\ ~(k <= m)
    <3>1. i \in 1 .. m /\ x[i] = Start
      BY <1>1, <1>2, <1>4, <2>2
    <3>2. PICK e \in i + 1 .. m : x[e] = End
      BY <1>3, <3>1
    <3>3. e \in 1 .. m + n /\ e <= m /\ e \in i + 1 .. k - 1
      BY <1>1, <2>2
    <3>4. t[e] = End
      BY <1>2, <3>2, <3>3
    <3> QED
      BY <3>3, <3>4
  <2>3. CASE ~(i <= m)
    <3> DEFINE b == i - m
               c == k - m
    <3>1. b \in 1 .. n /\ c \in 1 .. n /\ b < c /\ y[b] = Start /\ Lasting(y[c])
      BY <1>1, <1>2, <1>4, <2>3
    <3> HIDE DEF b, c
    <3>2. PICK e \in b + 1 .. c - 1 : y[e] = End
      BY <1>3, <3>1
    <3>3. /\ e + m \in 1 .. m + n /\ ~(e + m <= m) /\ (e + m) - m = e
          /\ e + m \in i + 1 .. k - 1
      BY <1>1, <3>1 DEF b, c
    <3>4. t[e + m] = End
      BY <1>2, <3>2, <3>3
    <3> QED
      BY <3>3, <3>4
  <2> QED
    BY <1>1, <2>1, <2>2, <2>3
<1>5. Enclosed(t)
  BY <1>2, <1>4 DEF Enclosed
<1> QED
  BY <1>2, <1>5 DEF t

LEMMA UnmarkedPrefix ==
  ASSUME NEW T, NEW s \in Seq(T), NEW a \in 0 .. Len(s),
         \A i \in 1 .. a : s[i].kind \notin {"start", "end", "slot"}
  PROVE  SubSeq(s, 1, a) \in Seq(T) /\ Unmarked(SubSeq(s, 1, a))
<1> DEFINE h == SubSeq(s, 1, a)
<1>1. a \in Nat /\ \A i \in 1 .. a : s[i] \in T
  OBVIOUS
<1>2. h \in Seq(T) /\ Len(h) = a /\ \A i \in 1 .. a : h[i] = s[i]
  <2>1. /\ h \in Seq(T) /\ Len(h) = IF 1 <= a THEN a - 1 + 1 ELSE 0
        /\ \A i \in 1 .. a - 1 + 1 : h[i] = s[1 + i - 1]
    BY <1>1, SubSeqProperties
  <2> HIDE DEF h
  <2>2. /\ a - 1 + 1 = a /\ (IF 1 <= a THEN a - 1 + 1 ELSE 0) = a
        /\ \A i \in 1 .. a : 1 + i - 1 = i
    BY <1>1
  <2> QED
    BY <2>1, <2>2
<1> HIDE DEF h
<1>3. Unmarked(h)
  BY <1>2 DEF Unmarked
<1> QED
  BY <1>2, <1>3 DEF h

LEMMA RestIsEnclosed ==
  ASSUME NEW T, NEW s \in Seq(T), Tidy(s), Enclosed(s),
         NEW j, NEW e, NEW a, NEW f, Cut(s, j, e, a, f)
  PROVE  Enclosed(Rest(s, a, f))
<1> DEFINE S == ToSet(s) \cup {Blank}
           h == SubSeq(s, 1, a)
           v == SubSeq(s, f, Len(s))
           b == <<Blank>>
<1>1. s \in Seq(S) /\ Blank \in S
  <2>1. s \in Seq(ToSet(s)) /\ \A i \in 1 .. Len(s) : s[i] \in ToSet(s)
    BY SeqOfItself
  <2>2. \A i \in 1 .. Len(s) : s[i] \in S
    BY <2>1
  <2> HIDE DEF S
  <2> QED
    BY <2>2, SeqOfElements DEF S
<1> HIDE DEF S
<1>2. \A i \in 1 .. a : s[i].kind \notin {"start", "end", "slot"}
  BY CutIsClean
<1>3. a \in 0 .. Len(s) /\ f \in 1 .. Len(s) + 1
  BY DEF Cut
<1>4. h \in Seq(S) /\ Enclosed(h) /\ Closed(h)
  <2>1. h \in Seq(S) /\ Unmarked(h)
    BY <1>1, <1>2, <1>3, UnmarkedPrefix
  <2> QED
    BY <2>1, UnmarkedIsEnclosed
<1>5. v \in Seq(S) /\ Enclosed(v)
  BY <1>1, <1>3, EnclosedTail
<1>6. b \in Seq(S) /\ Enclosed(b) /\ Closed(b)
  <2>1. b \in Seq(S)
    BY <1>1
  <2>2. Unmarked(b)
    BY DEF Unmarked, Blank
  <2> QED
    BY <2>1, <2>2, UnmarkedIsEnclosed
<1> HIDE DEF h, v, b
<1>7. b \o v \in Seq(S) /\ Enclosed(b \o v)
  BY <1>5, <1>6, EnclosedJoin
<1>8. Enclosed(h \o (b \o v))
  BY <1>4, <1>7, EnclosedJoin
<1>9. (h \o b) \o v = h \o (b \o v)
  BY <1>4, <1>5, <1>6, ConcatAssociative
<1> QED
  BY <1>8, <1>9 DEF Rest, h, b, v

LEMMA ScaffoldIsEnclosed ==
  ASSUME NEW release, NEW own \in BOOLEAN
  PROVE  Enclosed(Scaffold(release, own)) /\ Closed(Scaffold(release, own))
<1> DEFINE A == <<Text(release, "heading"), Blank,
                  Start, Slot("version"), Blank, Text(release, "upstream"), Blank,
                  Slot("versions"), Blank, Slot("breaking"), Blank,
                  Text(release, "upstream"), Blank, Slot("other"), Blank,
                  Text(release, "upstream"), Blank, End, Blank>>
           B == IF own THEN <<Text(release, "own"), Blank>> ELSE <<>>
           C == <<Text(release, "previous-version"), Blank>>
           T == {Text(release, part) : part \in {"heading", "upstream", "own", "previous-version"}}
                  \cup {Slot(name) : name \in {"version", "versions", "breaking", "other"}}
                  \cup {Blank, Start, End}
<1>1. Scaffold(release, own) = (A \o B) \o C
  BY Zenon DEF Scaffold
<1>2. A \in Seq(T) /\ Len(A) = 19
  OBVIOUS
<1>3. B \in Seq(T) /\ C \in Seq(T)
  <2>1. <<Text(release, "own"), Blank>> \in Seq(T) /\ <<>> \in Seq(T)
    OBVIOUS
  <2>2. C \in Seq(T)
    OBVIOUS
  <2> QED
    BY <2>1, <2>2
<1>4. Unmarked(B) /\ Unmarked(C)
  <2>1. \A part : Unmarked(<<Text(release, part), Blank>>)
    BY DEF Unmarked, Text, Blank
  <2>2. Unmarked(<<>>)
    BY DEF Unmarked
  <2> QED
    BY <2>1, <2>2
<1>5. Enclosed(A) /\ Closed(A)
  <2>1. /\ A[1] = Text(release, "heading") /\ A[2] = Blank
        /\ A[3] = Start /\ A[4] = Slot("version") /\ A[5] = Blank
        /\ A[6] = Text(release, "upstream") /\ A[7] = Blank
        /\ A[8] = Slot("versions") /\ A[9] = Blank
        /\ A[10] = Slot("breaking") /\ A[11] = Blank
        /\ A[12] = Text(release, "upstream") /\ A[13] = Blank
        /\ A[14] = Slot("other") /\ A[15] = Blank
        /\ A[16] = Text(release, "upstream") /\ A[17] = Blank
        /\ A[18] = End /\ A[19] = Blank
    OBVIOUS
  <2>2. \A i \in 1 .. 19 : \/ i = 1 \/ i = 2 \/ i = 3 \/ i = 4 \/ i = 5 \/ i = 6 \/ i = 7
                           \/ i = 8 \/ i = 9 \/ i = 10 \/ i = 11 \/ i = 12 \/ i = 13
                           \/ i = 14 \/ i = 15 \/ i = 16 \/ i = 17 \/ i = 18 \/ i = 19
    OBVIOUS
  <2> HIDE DEF A
  <2>3. /\ Text(release, "heading").kind = "text" /\ Text(release, "upstream").kind = "text"
        /\ Text(release, "upstream").part = "upstream"
        /\ Blank.kind = "blank" /\ Start.kind = "start" /\ End.kind = "end"
        /\ \A name : Slot(name).kind = "slot"
    BY DEF Text, Blank, Start, End, Slot
  <2>4. \A i \in 1 .. 19 : A[i].kind = "start" => i = 3
    BY <2>1, <2>2, <2>3
  <2>5. \A i \in 1 .. 19 : Lasting(A[i]) => i = 1
    <3>1. \A l : Lasting(l) => l.kind = "text" /\ l.part # "upstream"
      BY DEF Lasting
    <3> QED
      BY <2>1, <2>2, <2>3, <3>1
  <2>6. Enclosed(A)
    <3> SUFFICES ASSUME NEW i \in 1 .. 19, NEW k \in 1 .. 19, A[i] = Start, i < k, Lasting(A[k])
                 PROVE  FALSE
      BY <1>2 DEF Enclosed
    <3>1. i = 3 /\ k = 1
      BY <2>3, <2>4, <2>5
    <3> QED
      BY <3>1
  <2>7. Closed(A)
    <3> SUFFICES ASSUME NEW i \in 1 .. 19, A[i] = Start PROVE \E e \in i + 1 .. 19 : A[e] = End
      BY <1>2 DEF Closed
    <3>1. i = 3
      BY <2>3, <2>4
    <3>2. 18 \in i + 1 .. 19
      BY <3>1
    <3> QED
      BY <2>1, <3>2
  <2> QED
    BY <2>6, <2>7
<1> HIDE DEF A, B, C, T
<1>6. Enclosed(B) /\ Closed(B) /\ Enclosed(C)
  BY <1>4, UnmarkedIsEnclosed
<1>7. B \o C \in Seq(T) /\ Enclosed(B \o C)
  BY <1>3, <1>6, EnclosedJoin
<1>8. Enclosed(A \o (B \o C))
  BY <1>2, <1>5, <1>7, EnclosedJoin
<1>9. (A \o B) \o C = A \o (B \o C)
  BY <1>2, <1>3, ConcatAssociative
<1>10. Closed(Scaffold(release, own))
  BY ScaffoldLines DEF Framed
<1> QED
  BY <1>1, <1>8, <1>9, <1>10

\* A title, a scaffold and what follows.
LEMMA ScaffoldBetween ==
  ASSUME NEW release, NEW own \in BOOLEAN, NEW T, NEW h \in Seq(T), NEW v \in Seq(T),
         Unmarked(h), Enclosed(v)
  PROVE  Enclosed(h \o Scaffold(release, own) \o v)
<1> DEFINE x == Scaffold(release, own)
           S == T \cup ToSet(x)
<1>1. x \in Seq(ToSet(x)) /\ Enclosed(x) /\ Closed(x)
  BY ScaffoldLines, ScaffoldIsEnclosed
<1> HIDE DEF x
<1>2. h \in Seq(S) /\ x \in Seq(S) /\ v \in Seq(S)
  <2>1. /\ \A i \in 1 .. Len(h) : h[i] \in S
        /\ \A i \in 1 .. Len(x) : x[i] \in S
        /\ \A i \in 1 .. Len(v) : v[i] \in S
    BY <1>1
  <2> HIDE DEF S
  <2> QED
    BY <1>1, <2>1, SeqOfElements
<1> HIDE DEF S
<1>3. x \o v \in Seq(S) /\ Enclosed(x \o v)
  BY <1>1, <1>2, EnclosedJoin
<1>4. Enclosed(h \o (x \o v))
  BY <1>2, <1>3, UnmarkedIsEnclosed, EnclosedJoin
<1>5. (h \o x) \o v = h \o (x \o v)
  BY <1>2, ConcatAssociative
<1> QED
  BY <1>4, <1>5 DEF x

\* Below every start marker are the placeholders of the breaking and of the other changes.
Furnished(s) ==
    \A i \in 1 .. Len(s) : s[i] = Start =>
        \E j, k \in i + 1 .. Len(s) : s[j] = Slot("breaking") /\ s[k] = Slot("other")

LEMMA UnmarkedIsFurnished ==
  ASSUME NEW s, Unmarked(s)
  PROVE  Furnished(s)
  BY DEF Unmarked, Furnished, Start

LEMMA FurnishedTail ==
  ASSUME NEW T, NEW s \in Seq(T), Furnished(s), NEW f \in 1 .. Len(s) + 1
  PROVE  SubSeq(s, f, Len(s)) \in Seq(T) /\ Furnished(SubSeq(s, f, Len(s)))
<1> DEFINE n == Len(s)
           v == SubSeq(s, f, n)
           l == n + 1 - f
<1>1. n \in Nat /\ l \in Nat /\ \A i \in f .. n : s[i] \in T
  OBVIOUS
<1>2. v \in Seq(T) /\ Len(v) = l /\ \A i \in 1 .. l : v[i] = s[f + i - 1]
  <2>1. /\ v \in Seq(T) /\ Len(v) = IF f <= n THEN n - f + 1 ELSE 0
        /\ \A i \in 1 .. n - f + 1 : v[i] = s[f + i - 1]
    BY <1>1, SubSeqProperties
  <2> HIDE DEF v, n
  <2>2. n - f + 1 = l /\ (IF f <= n THEN n - f + 1 ELSE 0) = l
    BY <1>1 DEF n
  <2> HIDE DEF l
  <2> QED
    BY <2>1, <2>2
<1>3. \A i \in 1 .. n : s[i] = Start =>
          \E j, k \in i + 1 .. n : s[j] = Slot("breaking") /\ s[k] = Slot("other")
  BY DEF Furnished
<1>4. \A i \in 1 .. l : f + i - 1 \in 1 .. n
  OBVIOUS
<1> HIDE DEF v, l, n
<1>5. Furnished(v)
  <2> SUFFICES ASSUME NEW i \in 1 .. l, v[i] = Start
               PROVE  \E j, k \in i + 1 .. l : v[j] = Slot("breaking") /\ v[k] = Slot("other")
    BY <1>2 DEF Furnished
  <2> DEFINE x == f + i - 1
  <2>1. x \in 1 .. n /\ s[x] = Start
    BY <1>2, <1>4
  <2> HIDE DEF x
  <2>2. PICK y, z \in x + 1 .. n : s[y] = Slot("breaking") /\ s[z] = Slot("other")
    BY <1>3, <2>1
  <2> DEFINE j == y - f + 1
             k == z - f + 1
  <2>3. /\ j \in i + 1 .. l /\ j \in 1 .. l /\ f + j - 1 = y
        /\ k \in i + 1 .. l /\ k \in 1 .. l /\ f + k - 1 = z
    BY <1>1 DEF x, l
  <2> HIDE DEF j, k
  <2>4. v[j] = Slot("breaking") /\ v[k] = Slot("other")
    BY <1>2, <2>2, <2>3
  <2> QED
    BY <2>3, <2>4
<1> QED
  BY <1>2, <1>5 DEF v, n

LEMMA FurnishedJoin ==
  ASSUME NEW T, NEW x \in Seq(T), NEW y \in Seq(T), Furnished(x), Furnished(y)
  PROVE  x \o y \in Seq(T) /\ Furnished(x \o y)
<1> DEFINE m == Len(x)
           n == Len(y)
           t == x \o y
<1>1. m \in Nat /\ n \in Nat
  OBVIOUS
<1>2. /\ t \in Seq(T) /\ Len(t) = m + n
      /\ \A i \in 1 .. m + n : t[i] = IF i <= m THEN x[i] ELSE y[i - m]
  BY ConcatProperties
<1>3. /\ \A i \in 1 .. m : x[i] = Start =>
            \E j, k \in i + 1 .. m : x[j] = Slot("breaking") /\ x[k] = Slot("other")
      /\ \A i \in 1 .. n : y[i] = Start =>
            \E j, k \in i + 1 .. n : y[j] = Slot("breaking") /\ y[k] = Slot("other")
  BY DEF Furnished
<1> HIDE DEF m, n, t
<1>4. ASSUME NEW i \in 1 .. m + n, t[i] = Start
      PROVE  \E j, k \in i + 1 .. m + n : t[j] = Slot("breaking") /\ t[k] = Slot("other")
  <2>1. CASE i <= m
    <3>1. i \in 1 .. m /\ x[i] = Start
      BY <1>1, <1>2, <1>4, <2>1
    <3>2. PICK j, k \in i + 1 .. m : x[j] = Slot("breaking") /\ x[k] = Slot("other")
      BY <1>3, <3>1
    <3>3. /\ j \in 1 .. m + n /\ j <= m /\ j \in i + 1 .. m + n
          /\ k \in 1 .. m + n /\ k <= m /\ k \in i + 1 .. m + n
      BY <1>1
    <3>4. t[j] = Slot("breaking") /\ t[k] = Slot("other")
      BY <1>2, <3>2, <3>3
    <3> QED
      BY <3>3, <3>4
  <2>2. CASE ~(i <= m)
    <3> DEFINE b == i - m
    <3>1. b \in 1 .. n /\ y[b] = Start
      BY <1>1, <1>2, <1>4, <2>2
    <3> HIDE DEF b
    <3>2. PICK j, k \in b + 1 .. n : y[j] = Slot("breaking") /\ y[k] = Slot("other")
      BY <1>3, <3>1
    <3>3. /\ j + m \in 1 .. m + n /\ ~(j + m <= m) /\ (j + m) - m = j
          /\ j + m \in i + 1 .. m + n
          /\ k + m \in 1 .. m + n /\ ~(k + m <= m) /\ (k + m) - m = k
          /\ k + m \in i + 1 .. m + n
      BY <1>1, <3>1 DEF b
    <3>4. t[j + m] = Slot("breaking") /\ t[k + m] = Slot("other")
      BY <1>2, <3>2, <3>3
    <3> QED
      BY <3>3, <3>4
  <2> QED
    BY <2>1, <2>2
<1>5. Furnished(t)
  BY <1>2, <1>4 DEF Furnished
<1> QED
  BY <1>2, <1>5 DEF t

LEMMA RestIsFurnished ==
  ASSUME NEW T, NEW s \in Seq(T), Tidy(s), Furnished(s),
         NEW j, NEW e, NEW a, NEW f, Cut(s, j, e, a, f)
  PROVE  Furnished(Rest(s, a, f))
<1> DEFINE S == ToSet(s) \cup {Blank}
           h == SubSeq(s, 1, a)
           v == SubSeq(s, f, Len(s))
           b == <<Blank>>
<1>1. s \in Seq(S) /\ Blank \in S
  <2>1. s \in Seq(ToSet(s)) /\ \A i \in 1 .. Len(s) : s[i] \in ToSet(s)
    BY SeqOfItself
  <2>2. \A i \in 1 .. Len(s) : s[i] \in S
    BY <2>1
  <2> HIDE DEF S
  <2> QED
    BY <2>2, SeqOfElements DEF S
<1> HIDE DEF S
<1>2. \A i \in 1 .. a : s[i].kind \notin {"start", "end", "slot"}
  BY CutIsClean
<1>3. a \in 0 .. Len(s) /\ f \in 1 .. Len(s) + 1
  BY DEF Cut
<1>4. h \in Seq(S) /\ Furnished(h)
  BY <1>1, <1>2, <1>3, UnmarkedPrefix, UnmarkedIsFurnished
<1>5. v \in Seq(S) /\ Furnished(v)
  BY <1>1, <1>3, FurnishedTail
<1>6. b \in Seq(S) /\ Furnished(b)
  <2>1. b \in Seq(S)
    BY <1>1
  <2>2. Unmarked(b)
    BY DEF Unmarked, Blank
  <2> QED
    BY <2>1, <2>2, UnmarkedIsFurnished
<1> HIDE DEF h, v, b
<1>7. h \o b \in Seq(S) /\ Furnished(h \o b)
  BY <1>4, <1>6, FurnishedJoin
<1>8. Furnished((h \o b) \o v)
  BY <1>5, <1>7, FurnishedJoin
<1> QED
  BY <1>8 DEF Rest, h, b, v

LEMMA ScaffoldIsFurnished ==
  ASSUME NEW release, NEW own \in BOOLEAN
  PROVE  Furnished(Scaffold(release, own))
<1> DEFINE A == <<Text(release, "heading"), Blank,
                  Start, Slot("version"), Blank, Text(release, "upstream"), Blank,
                  Slot("versions"), Blank, Slot("breaking"), Blank,
                  Text(release, "upstream"), Blank, Slot("other"), Blank,
                  Text(release, "upstream"), Blank, End, Blank>>
           B == IF own THEN <<Text(release, "own"), Blank>> ELSE <<>>
           C == <<Text(release, "previous-version"), Blank>>
           T == {Text(release, part) : part \in {"heading", "upstream", "own", "previous-version"}}
                  \cup {Slot(name) : name \in {"version", "versions", "breaking", "other"}}
                  \cup {Blank, Start, End}
<1>1. Scaffold(release, own) = (A \o B) \o C
  BY Zenon DEF Scaffold
<1>2. A \in Seq(T) /\ Len(A) = 19
  OBVIOUS
<1>3. B \in Seq(T) /\ C \in Seq(T)
  <2>1. <<Text(release, "own"), Blank>> \in Seq(T) /\ <<>> \in Seq(T)
    OBVIOUS
  <2>2. C \in Seq(T)
    OBVIOUS
  <2> QED
    BY <2>1, <2>2
<1>4. Unmarked(B) /\ Unmarked(C)
  <2>1. \A part : Unmarked(<<Text(release, part), Blank>>)
    BY DEF Unmarked, Text, Blank
  <2>2. Unmarked(<<>>)
    BY DEF Unmarked
  <2> QED
    BY <2>1, <2>2
<1>5. Furnished(A)
  <2>1. /\ A[1] = Text(release, "heading") /\ A[2] = Blank
        /\ A[4] = Slot("version") /\ A[5] = Blank
        /\ A[6] = Text(release, "upstream") /\ A[7] = Blank
        /\ A[8] = Slot("versions") /\ A[9] = Blank
        /\ A[10] = Slot("breaking") /\ A[11] = Blank
        /\ A[12] = Text(release, "upstream") /\ A[13] = Blank
        /\ A[14] = Slot("other") /\ A[15] = Blank
        /\ A[16] = Text(release, "upstream") /\ A[17] = Blank
        /\ A[18] = End /\ A[19] = Blank
    OBVIOUS
  <2>2. \A i \in 1 .. 19 : \/ i = 1 \/ i = 2 \/ i = 3 \/ i = 4 \/ i = 5 \/ i = 6 \/ i = 7
                           \/ i = 8 \/ i = 9 \/ i = 10 \/ i = 11 \/ i = 12 \/ i = 13
                           \/ i = 14 \/ i = 15 \/ i = 16 \/ i = 17 \/ i = 18 \/ i = 19
    OBVIOUS
  <2> HIDE DEF A
  <2>3. /\ \A part : Text(release, part).kind = "text"
        /\ Blank.kind = "blank" /\ Start.kind = "start" /\ End.kind = "end"
        /\ \A name : Slot(name).kind = "slot"
    BY DEF Text, Blank, Start, End, Slot
  <2>4. \A i \in 1 .. 19 : A[i].kind = "start" => i = 3
    BY <2>1, <2>2, <2>3
  <2> SUFFICES ASSUME NEW i \in 1 .. 19, A[i] = Start
               PROVE  \E j, k \in i + 1 .. 19 : A[j] = Slot("breaking") /\ A[k] = Slot("other")
    BY <1>2 DEF Furnished
  <2>5. i = 3
    BY <2>3, <2>4
  <2>6. 10 \in i + 1 .. 19 /\ 14 \in i + 1 .. 19
    BY <2>5
  <2> QED
    BY <2>1, <2>6
<1> HIDE DEF A, B, C, T
<1>6. A \o B \in Seq(T) /\ Furnished(A \o B)
  BY <1>2, <1>3, <1>4, <1>5, UnmarkedIsFurnished, FurnishedJoin
<1>7. Furnished((A \o B) \o C)
  BY <1>3, <1>4, <1>6, UnmarkedIsFurnished, FurnishedJoin
<1> QED
  BY <1>1, <1>7

LEMMA FurnishedBetween ==
  ASSUME NEW release, NEW own \in BOOLEAN, NEW T, NEW h \in Seq(T), NEW v \in Seq(T),
         Unmarked(h), Furnished(v)
  PROVE  Furnished(h \o Scaffold(release, own) \o v)
<1> DEFINE x == Scaffold(release, own)
           S == T \cup ToSet(x)
<1>1. x \in Seq(ToSet(x)) /\ Furnished(x)
  BY ScaffoldLines, ScaffoldIsFurnished
<1> HIDE DEF x
<1>2. h \in Seq(S) /\ x \in Seq(S) /\ v \in Seq(S)
  <2>1. /\ \A i \in 1 .. Len(h) : h[i] \in S
        /\ \A i \in 1 .. Len(x) : x[i] \in S
        /\ \A i \in 1 .. Len(v) : v[i] \in S
    BY <1>1
  <2> HIDE DEF S
  <2> QED
    BY <1>1, <2>1, SeqOfElements
<1> HIDE DEF S
<1>3. h \o x \in Seq(S) /\ Furnished(h \o x)
  BY <1>1, <1>2, UnmarkedIsFurnished, FurnishedJoin
<1>4. Furnished((h \o x) \o v)
  BY <1>2, <1>3, FurnishedJoin
<1> QED
  BY <1>4 DEF x

LEMMA SameEndIsSuffix ==
  ASSUME NEW T, NEW U, NEW s \in Seq(T), NEW t \in Seq(U), NEW l \in Nat, SameEnd(s, t, l)
  PROVE  IsSuffix(SubSeq(s, Len(s) - l + 1, Len(s)), t)
<1> DEFINE n == Len(s)
           m == Len(t)
           u == SubSeq(s, n - l + 1, n)
           ru == Reverse(u)
           rt == Reverse(t)
<1>1. /\ n \in Nat /\ m \in Nat /\ l <= n /\ l <= m
      /\ \A i \in 1 .. l : t[m - l + i] = s[n - l + i]
  <2>1. n \in Nat /\ m \in Nat
    OBVIOUS
  <2>2. l <= n /\ l <= m /\ \A i \in 1 .. l : t[m - l + i] = s[n - l + i]
    BY Zenon DEF SameEnd
  <2> QED
    BY <2>1, <2>2
<1>2. \A i \in 1 .. n : s[i] \in T
  OBVIOUS
<1>3. Len(u) = l /\ \A i \in 1 .. l : u[i] = s[n - l + i]
  <2> DEFINE f == n - l + 1
  <2>1. f \in 1 .. n + 1 /\ \A i \in f .. n : s[i] \in T
    BY <1>1, <1>2
  <2>2. /\ Len(u) = IF f <= n THEN n - f + 1 ELSE 0
        /\ \A i \in 1 .. n - f + 1 : u[i] = s[f + i - 1]
    <3>1. n \in Nat /\ u = SubSeq(s, f, n)
      BY <1>1
    <3> HIDE DEF f, u, n
    <3> QED
      BY <2>1, <3>1, SubSeqProperties
  <2> HIDE DEF u, n
  <2>3. /\ n - f + 1 = l /\ (IF f <= n THEN n - f + 1 ELSE 0) = l
        /\ \A i \in 1 .. l : f + i - 1 = n - l + i
    BY <1>1
  <2> HIDE DEF f
  <2> QED
    BY <2>2, <2>3
<1> HIDE DEF u
<1>4. ru = [i \in 1 .. l |-> u[(l - i) + 1]] /\ rt = [i \in 1 .. m |-> t[(m - i) + 1]]
  BY <1>3 DEF Reverse
<1> HIDE DEF n, m, ru, rt
<1>5. \A i \in 1 .. l : ru[i] = rt[i]
  <2> TAKE i \in 1 .. l
  <2> DEFINE k == (l - i) + 1
  <2>1. k \in 1 .. l /\ m - l + k = (m - i) + 1 /\ i \in 1 .. m
    BY <1>1
  <2>2. ru[i] = u[k] /\ rt[i] = t[(m - i) + 1]
    BY <1>4, <2>1
  <2> HIDE DEF k
  <2>3. u[k] = s[n - l + k] /\ t[m - l + k] = s[n - l + k]
    BY <1>1, <1>3, <2>1
  <2> QED
    BY <2>1, <2>2, <2>3
<1>6. Len(ru) = l /\ Len(rt) = m
  BY <1>1, <1>4
<1> DEFINE R == {ru[i] : i \in 1 .. l} \cup {rt[i] : i \in 1 .. m}
<1>7. /\ \A i \in 1 .. l : ru[i] \in R
      /\ \A i \in 1 .. m : rt[i] \in R
  OBVIOUS
<1>8. ru \in Seq(R) /\ rt \in Seq(R)
  <2>1. DOMAIN ru = 1 .. l /\ DOMAIN rt = 1 .. m
    BY <1>4
  <2>2. ru = [i \in 1 .. l |-> ru[i]] /\ rt = [i \in 1 .. m |-> rt[i]]
    BY <1>4
  <2> HIDE DEF R
  <2> HIDE <1>4
  <2>3. ru \in [1 .. l -> R] /\ rt \in [1 .. m -> R]
    BY <1>7, <2>2
  <2> QED
    BY <1>1, <2>3
<1> HIDE DEF R
<1>9. SubSeq(ru, 1, l) = SubSeq(rt, 1, l)
  <2>1. /\ SubSeq(ru, 1, l) \in Seq(R) /\ SubSeq(rt, 1, l) \in Seq(R)
        /\ Len(SubSeq(ru, 1, l)) = l /\ Len(SubSeq(rt, 1, l)) = l
        /\ \A i \in 1 .. l : SubSeq(ru, 1, l)[i] = ru[i] /\ SubSeq(rt, 1, l)[i] = rt[i]
    BY <1>1, <1>6, <1>8
  <2> HIDE <1>4
  <2>2. \A i \in 1 .. l : SubSeq(ru, 1, l)[i] = SubSeq(rt, 1, l)[i]
    BY <1>5, <2>1
  <2> QED
    BY <2>1, <2>2, SeqEqual
<1>10. IsPrefix(ru, rt)
  BY <1>1, <1>6, <1>9 DEF IsPrefix
<1> QED
  BY <1>10 DEF IsSuffix, ru, rt, u, n

LEMMA SameEndTwice ==
  ASSUME NEW s, NEW t, NEW u, NEW l, SameEnd(s, t, l), SameEnd(t, u, l)
  PROVE  SameEnd(s, u, l)
  BY DEF SameEnd

\* What is below the last marker begins with a line that is not blank.
LEMMA BelowIsCut ==
  ASSUME NEW T, NEW s \in Seq(T)
  PROVE  \E g \in 1 .. Len(s) + 1 :
            /\ Below(s) = SubSeq(s, g, Len(s))
            /\ \A i \in 1 .. Len(s) : s[i].kind \in Markers => i < g
            /\ g <= Len(s) => s[g] # Blank
<1> DEFINE n == Len(s)
           I == {i \in 1 .. n : s[i].kind \in Markers}
           last == IF I # {} THEN Max(I) ELSE 0
           v == SubSeq(s, last + 1, n)
<1>1. Below(s) = TrimLeft(v)
  BY DEF Below, SelectLastInSeq
<1>2. n \in Nat
  OBVIOUS
<1>3. last \in 0 .. n /\ \A i \in 1 .. n : s[i].kind \in Markers => i <= last
  <2>1. CASE I = {}
    <3>1. last = 0
      BY <2>1
    <3>2. \A i \in 1 .. n : s[i].kind \notin Markers
      BY <2>1
    <3> QED
      BY <1>2, <3>1, <3>2
  <2>2. CASE I # {}
    <3>1. I \subseteq 0 .. n /\ \A i \in 1 .. n : s[i].kind \in Markers => i \in I
      BY <1>2
    <3>2. I \subseteq 1 .. n /\ last = Max(I)
      BY <2>2
    <3> HIDE DEF I, last
    <3>3. Max(I) \in I /\ \A k \in I : k <= Max(I)
      BY <1>2, <2>2, <3>1, MaxIsGreatest
    <3>4. last \in 0 .. n
      BY <3>1, <3>2, <3>3
    <3> QED
      BY <3>1, <3>2, <3>3, <3>4
  <2> QED
    BY <2>1, <2>2
<1> HIDE DEF I, last
<1> DEFINE l == n - last
<1>4. v \in Seq(T) /\ Len(v) = l /\ \A i \in 1 .. l : v[i] = s[last + i]
  <2>1. \A i \in last + 1 .. n : s[i] \in T
    BY <1>3
  <2>2. /\ v \in Seq(T) /\ Len(v) = IF last + 1 <= n THEN n - (last + 1) + 1 ELSE 0
        /\ \A i \in 1 .. n - (last + 1) + 1 : v[i] = s[last + 1 + i - 1]
    BY <1>2, <1>3, <2>1, SubSeqProperties
  <2> HIDE DEF v, n
  <2>3. /\ n - (last + 1) + 1 = l
        /\ (IF last + 1 <= n THEN n - (last + 1) + 1 ELSE 0) = l
        /\ \A i \in 1 .. l : last + 1 + i - 1 = last + i
    BY <1>2, <1>3
  <2> HIDE DEF l
  <2> QED
    BY <2>2, <2>3
<1> HIDE DEF v
<1>5. PICK f \in 1 .. l + 1 :
         /\ TrimLeft(v) = SubSeq(v, f, l)
         /\ f <= l => v[f] # Blank
  <2>1. \E f \in 1 .. Len(v) + 1 :
           /\ TrimLeft(v) = SubSeq(v, f, Len(v))
           /\ f <= Len(v) => v[f] # Blank
           /\ \A i \in 1 .. f - 1 : v[i] = Blank
    BY <1>4, TrimLeftCuts
  <2> HIDE DEF l
  <2> QED
    BY <1>4, <2>1
<1> DEFINE g == last + f
<1>6. g \in 1 .. n + 1 /\ l \in Nat /\ f \in Nat \ {0}
  BY <1>2, <1>3, <1>5
<1>7. SubSeq(v, f, l) = SubSeq(s, g, n)
  <2> DEFINE m == last + 1
             k == n - last
  <2>1. /\ m \in Nat \ {0} /\ Len(s) \in Nat /\ Len(s) <= Len(s)
        /\ f \in Nat \ {0} /\ k \in Int /\ k <= Len(s) - m + 1
    BY <1>2, <1>3, <1>6
  <2>2. m + f - 1 = g /\ m + k - 1 = n /\ k = l
    BY <1>2, <1>3, <1>6
  <2>3. v = SubSeq(s, m, Len(s))
    BY DEF v
  <2> HIDE DEF m, k, l, g
  <2>4. SubSeq(SubSeq(s, m, Len(s)), f, k) = SubSeq(s, m + f - 1, m + k - 1)
    BY <2>1, SubSeqOf
  <2> QED
    BY <2>2, <2>3, <2>4
<1>8. g <= n => s[g] # Blank
  <2> SUFFICES ASSUME g <= n PROVE s[g] # Blank
    OBVIOUS
  <2>1. f \in 1 .. l
    BY <1>2, <1>3, <1>5
  <2>2. v[f] = s[g]
    BY <1>4, <2>1
  <2>3. v[f] # Blank
    BY <1>5, <2>1
  <2> HIDE DEF g
  <2> QED
    BY <2>2, <2>3
<1>9. \A i \in 1 .. n : s[i].kind \in Markers => i < g
  <2> TAKE i \in 1 .. n
  <2>1. last < g
    BY <1>3, <1>5
  <2> HIDE DEF g
  <2>2. s[i].kind \in Markers => i <= last
    BY <1>3
  <2> QED
    BY <1>3, <1>6, <2>1, <2>2
<1> HIDE DEF g
<1> QED
  BY <1>1, <1>5, <1>6, <1>7, <1>8, <1>9 DEF n

\* The lines below a section that is cut out.
LEMMA SameEndRest ==
  ASSUME NEW T, NEW s \in Seq(T), NEW a \in 0 .. Len(s), NEW f \in 1 .. Len(s) + 1,
         NEW l \in 0 .. Len(s) + 1 - f
  PROVE  SameEnd(s, Rest(s, a, f), l)
<1> DEFINE n == Len(s)
           S == T \cup {Blank}
           r == Rest(s, a, f)
           m == a + 1 + (n + 1 - f)
<1>1. s \in Seq(S) /\ Blank \in S
  <2>1. \A i \in 1 .. Len(s) : s[i] \in S
    OBVIOUS
  <2> HIDE DEF S
  <2>2. s \in Seq(S)
    BY <2>1, SeqOfElements
  <2> QED
    BY <2>2 DEF S
<1> HIDE DEF S
<1>2. Len(r) = m /\ \A k \in a + 2 .. m : r[k] = s[(k - a - 2) + f]
  BY <1>1, RestLines
<1>3. n \in Nat /\ l <= n /\ l <= m /\ a \in Nat /\ l \in 0 .. n + 1 - f
  OBVIOUS
<1> HIDE DEF r
<1>4. ASSUME NEW i \in 1 .. l PROVE r[m - l + i] = s[n - l + i]
  <2> DEFINE k == m - l + i
  <2>1. k \in a + 2 .. m /\ (k - a - 2) + f = n - l + i
    BY <1>3
  <2> HIDE DEF k
  <2> QED
    BY <1>2, <2>1 DEF k
<1> HIDE DEF m, n
<1> QED
  BY <1>2, <1>3, <1>4 DEF SameEnd, r, n

\* No marker is among the last l lines.
Calm(s, l) ==
    l <= Len(s) /\ \A i \in (Len(s) - l + 1) .. Len(s) : s[i].kind \notin Markers

LEMMA CalmStays ==
  ASSUME NEW T, NEW U, NEW s \in Seq(T), NEW t \in Seq(U), NEW l \in Nat,
         Calm(s, l), SameEnd(s, t, l)
  PROVE  Calm(t, l)
<1> DEFINE n == Len(s)
           m == Len(t)
<1>1. /\ n \in Nat /\ m \in Nat /\ l <= n /\ l <= m
      /\ \A i \in 1 .. l : t[m - l + i] = s[n - l + i]
      /\ \A i \in (n - l + 1) .. n : s[i].kind \notin Markers
  <2>1. n \in Nat /\ m \in Nat
    OBVIOUS
  <2>2. /\ l <= n /\ l <= m /\ \A i \in 1 .. l : t[m - l + i] = s[n - l + i]
        /\ \A i \in (n - l + 1) .. n : s[i].kind \notin Markers
    BY Zenon DEF Calm, SameEnd
  <2> QED
    BY <2>1, <2>2
<1> HIDE DEF n, m
<1>2. ASSUME NEW i \in (m - l + 1) .. m PROVE t[i].kind \notin Markers
  <2> DEFINE k == i - (m - l)
  <2>1. k \in 1 .. l /\ m - l + k = i /\ n - l + k \in (n - l + 1) .. n
    BY <1>1
  <2> HIDE DEF k
  <2>2. t[i] = s[n - l + k]
    BY <1>1, <2>1
  <2> QED
    BY <1>1, <2>1, <2>2
<1> QED
  BY <1>1, <1>2 DEF Calm, m

\* What is removed are markers and the lines above them: neither the lasting lines nor
\* those below the last marker.
LEMMA MarkersDropped ==
  ASSUME NEW T, NEW s \in Seq(T), NEW l \in 0 .. Len(s), NEW D, Calm(s, l),
         \A i \in 1 .. Len(s) : i \in D =>
            /\ ~Lasting(s[i])
            /\ s[i].kind \in Markers \/ (i + 1 \in 1 .. Len(s) /\ s[i + 1].kind \in Markers)
  PROVE  LET r == Without(s, D)
         IN  r \in Seq(T) /\ Calm(r, l) /\ SameEnd(s, r, l) /\ Lastings(r) = Lastings(s)
<1> DEFINE n == Len(s)
           r == Without(s, D)
<1>1. n \in Nat /\ l \in 0 .. n /\ \A i \in (n - l + 1) .. n : s[i].kind \notin Markers
  BY DEF Calm
<1>2. \A i \in 1 .. n : i \in D =>
         s[i].kind \in Markers \/ (i + 1 \in 1 .. n /\ s[i + 1].kind \in Markers)
  OBVIOUS
<1>3. Lastings(r) = Lastings(s)
  BY LastingsWithout
<1> HIDE DEF n
<1>4. \A i \in (n - l + 1) .. n : i \notin D
  <2> SUFFICES ASSUME NEW i \in (n - l + 1) .. n, i \in D PROVE FALSE
    OBVIOUS
  <2>1. i \in 1 .. n /\ s[i].kind \notin Markers
    BY <1>1
  <2>2. i + 1 \in 1 .. n /\ s[i + 1].kind \in Markers
    BY <1>2, <2>1
  <2>3. i + 1 \in (n - l + 1) .. n
    BY <1>1, <2>2
  <2> QED
    BY <1>1, <2>2, <2>3
<1>5. r \in Seq(T) /\ SameEnd(s, r, l)
  BY <1>4, LastStay DEF n
<1> HIDE DEF r
<1>6. Calm(r, l)
  BY <1>1, <1>5, CalmStays
<1> QED
  BY <1>3, <1>5, <1>6 DEF r

\* A scaffold that is filled: the lasting lines stay, and so do those below.
LEMMA FilledKeeps ==
  ASSUME NEW T, NEW s \in Seq(T), NEW l \in 0 .. Len(s), Calm(s, l),
         NEW c, c.version # <<>>
  PROVE  LET t == FillUpstreamPlaceholders(s, c)
         IN  /\ t \in Seq(ToSet(t)) /\ SameEnd(s, t, l)
             /\ Lastings(t) = Lastings(s)
<1> DEFINE n == Len(s)
           f == FillSlots(s, c)
           F == {f[i] : i \in 1 .. n}
           at == AfterBlank(f, Slot("versions")) \cup AfterBlank(f, Slot("breaking"))
           D == at \cup {i - 1 : i \in at}
           r1 == Without(f, D)
           D2 == {i \in DOMAIN r1 : r1[i] = Start}
           r2 == Without(r1, D2)
           D3 == AfterBlank(r2, End)
           r3 == Without(r2, D3)
<1>1. /\ n \in Nat /\ l \in 0 .. n
      /\ \A i \in (n - l + 1) .. n : s[i].kind \notin Markers
  BY DEF Calm
<1>2. /\ f \in Seq(F) /\ Len(f) = n
      /\ \A i \in 1 .. n :
            f[i] = IF s[i].kind = "slot" /\ (s[i].name = "other" \/ c[s[i].name] # <<>>)
                   THEN Filled(s[i].name, c[s[i].name])
                   ELSE s[i]
  BY FillSlotsLines
<1>3. FillUpstreamPlaceholders(s, c) = r3
  BY DEF FillUpstreamPlaceholders, RemoveSlots, RemoveStart, RemoveEnd
<1>4. Lastings(f) = Lastings(s)
  BY LastingsFilled
<1>5. /\ \A name : Slot(name).kind = "slot"
      /\ Start.kind = "start" /\ End.kind = "end" /\ Blank.kind = "blank"
      /\ \A x : Lasting(x) => x.kind = "text"
      /\ Markers = {"start", "end", "slot"}
  BY DEF Slot, Start, End, Blank, Lasting, Markers
<1> HIDE DEF f, F
<1>6. SameEnd(s, f, l) /\ Calm(f, l)
  <2>1. \A i \in (n - l + 1) .. n : f[i] = s[i]
    <3> TAKE i \in (n - l + 1) .. n
    <3>1. i \in 1 .. n /\ s[i].kind # "slot"
      BY <1>1, <1>5
    <3> QED
      BY <1>2, <3>1
  <2> HIDE DEF n
  <2>2. \A i \in 1 .. l : n - l + i \in (n - l + 1) .. n
    BY <1>1
  <2>3. \A i \in 1 .. l : f[n - l + i] = s[n - l + i]
    BY <2>1, <2>2
  <2>4. l <= n
    BY <1>1
  <2>5. \A i \in (n - l + 1) .. n : f[i].kind \notin Markers
    BY <1>1, <2>1
  <2>6. Len(f) = n /\ Len(s) = n
    BY <1>2 DEF n
  <2> QED
    BY Zenon, <2>3, <2>4, <2>5, <2>6 DEF SameEnd, Calm
<1>7. DOMAIN f = 1 .. n
  BY <1>2
<1>8. \A i \in at : i \in 1 .. n /\ f[i].kind = "slot" /\ f[i - 1] = Blank
  BY <1>5, <1>7 DEF AfterBlank
<1> HIDE DEF at
<1>9. \A i \in 1 .. n : i \in D =>
         /\ ~Lasting(f[i])
         /\ f[i].kind \in Markers \/ (i + 1 \in 1 .. n /\ f[i + 1].kind \in Markers)
  <2> SUFFICES ASSUME NEW i \in 1 .. n, i \in D
               PROVE  /\ ~Lasting(f[i])
                      /\ f[i].kind \in Markers \/ (i + 1 \in 1 .. n /\ f[i + 1].kind \in Markers)
    OBVIOUS
  <2>1. CASE i \in at
    BY <1>5, <1>8, <2>1
  <2>2. ASSUME NEW x \in at, i = x - 1
        PROVE  ~Lasting(f[i]) /\ i + 1 \in 1 .. n /\ f[i + 1].kind \in Markers
    <3>1. x \in 1 .. n /\ f[x].kind = "slot" /\ f[i] = Blank
      BY <1>8, <2>2
    <3>2. i + 1 = x
      BY <2>2, <3>1
    <3> QED
      BY <1>5, <3>1, <3>2
  <2> QED
    BY <2>1, <2>2
<1> HIDE DEF D
<1>10. l \in 0 .. Len(f)
  BY <1>1, <1>2
<1>11. /\ r1 \in Seq(F) /\ Calm(r1, l) /\ SameEnd(f, r1, l)
       /\ Lastings(r1) = Lastings(f)
  BY <1>2, <1>6, <1>9, <1>10, MarkersDropped
<1> HIDE DEF r1, n
<1>12. l \in 0 .. Len(r1) /\ DOMAIN r1 = 1 .. Len(r1)
  BY <1>1, <1>11 DEF Calm
<1>13. \A i \in 1 .. Len(r1) : i \in D2 => ~Lasting(r1[i]) /\ r1[i].kind \in Markers
  BY <1>5
<1> HIDE DEF D2
<1>14. /\ r2 \in Seq(F) /\ Calm(r2, l) /\ SameEnd(r1, r2, l)
       /\ Lastings(r2) = Lastings(r1)
  BY <1>11, <1>12, <1>13, MarkersDropped
<1> HIDE DEF r2
<1>15. l \in 0 .. Len(r2) /\ DOMAIN r2 = 1 .. Len(r2)
  BY <1>1, <1>14 DEF Calm
<1>16. \A i \in 1 .. Len(r2) : i \in D3 => ~Lasting(r2[i]) /\ r2[i].kind \in Markers
  BY <1>5 DEF AfterBlank
<1> HIDE DEF D3
<1>17. r3 \in Seq(F) /\ SameEnd(r2, r3, l) /\ Lastings(r3) = Lastings(r2)
  BY <1>14, <1>15, <1>16, MarkersDropped
<1> HIDE DEF r3
<1>18. r3 \in Seq(ToSet(r3))
  BY <1>17, SeqOfItself
<1>19. SameEnd(s, r3, l)
  BY <1>6, <1>11, <1>14, <1>17, SameEndTwice
<1> QED
  BY <1>3, <1>4, <1>11, <1>14, <1>17, <1>18, <1>19

\* A section that is removed: the same holds of what is below the last marker.
LEMMA RemovedKeeps ==
  ASSUME NEW T, NEW s \in Seq(T), Tidy(s), Enclosed(s), NEW g \in 1 .. Len(s) + 1,
         \A i \in 1 .. Len(s) : s[i].kind \in Markers => i < g,
         g <= Len(s) => s[g] # Blank
  PROVE  LET t == RemoveUpstreamSection(s)
         IN  /\ t \in Seq(ToSet(t)) /\ SameEnd(s, t, Len(s) + 1 - g)
             /\ Lastings(t) = Lastings(s)
<1> DEFINE n == Len(s)
           l == n + 1 - g
<1>1. n \in Nat /\ l \in 0 .. n
  OBVIOUS
<1>2. CASE RemoveUpstreamSection(s) = s
  <2>1. s \in Seq(ToSet(s))
    BY SeqOfItself
  <2>2. SameEnd(s, s, l)
    BY <1>1 DEF SameEnd
  <2> QED
    BY <1>2, <2>1, <2>2
<1>3. ASSUME NEW j, NEW e, NEW a, NEW f, Cut(s, j, e, a, f),
             RemoveUpstreamSection(s) = Rest(s, a, f)
      PROVE  LET t == RemoveUpstreamSection(s)
             IN  t \in Seq(ToSet(t)) /\ SameEnd(s, t, l) /\ Lastings(t) = Lastings(s)
  <2>1. /\ j \in 1 .. n /\ e \in 1 .. n /\ a \in 0 .. j - 1 /\ f \in e + 1 .. n + 1
        /\ s[j] = Start /\ s[e] = End
        /\ \A i \in 1 .. e - 1 : s[i] # End
        /\ \A i \in a + 1 .. j - 1 : s[i] = Blank
        /\ \A i \in e + 1 .. f - 1 : s[i] = Blank
    BY <1>3 DEF Cut
  <2>2. j < e
    BY <1>3, CutIsClean
  <2>3. f <= g
    <3> SUFFICES ASSUME ~(f <= g) PROVE FALSE
      OBVIOUS
    <3>1. e < g
      BY <2>1 DEF End, Markers
    <3> HIDE DEF n, l
    <3>2. g \in e + 1 .. f - 1 /\ g <= n
      BY <1>1, <2>1, <3>1
    <3> QED
      BY <2>1, <3>2 DEF n
  <2>4. a \in 0 .. n /\ f \in 1 .. n + 1 /\ l \in 0 .. n + 1 - f /\ f \in a + 1 .. n + 1
    BY <1>1, <2>1, <2>2, <2>3
  <2>5. /\ ~Lasting(Blank) /\ ~Lasting(Start) /\ ~Lasting(End)
    BY DEF Lasting, Blank, Start, End
  <2>6. \A i \in 1 .. n : i > j /\ Lasting(s[i]) => \E x \in j + 1 .. i - 1 : s[x] = End
    BY <2>1 DEF Enclosed
  <2>7. \A i \in a + 1 .. f - 1 : ~Lasting(s[i])
    <3> SUFFICES ASSUME NEW i \in a + 1 .. f - 1, Lasting(s[i]) PROVE FALSE
      OBVIOUS
    <3> HIDE DEF n, l
    <3>1. i \in 1 .. n /\ i \in 1 .. f - 1
      BY <1>1, <2>1
    <3>2. ~(i \in a + 1 .. j - 1) /\ ~(i \in e + 1 .. f - 1) /\ i # j /\ i # e
      BY <2>1, <2>5
    <3>3. i > j /\ i < e
      BY <1>1, <2>1, <3>1, <3>2
    <3>4. PICK x \in j + 1 .. i - 1 : s[x] = End
      BY <2>6, <3>1, <3>3
    <3>5. x \in 1 .. e - 1
      BY <1>1, <2>1, <3>1, <3>3
    <3> QED
      BY <2>1, <3>4, <3>5
  <2>8. SameEnd(s, Rest(s, a, f), l)
    BY <2>4, SameEndRest
  <2>9. Lastings(Rest(s, a, f)) = Lastings(s)
    BY <2>4, <2>7, LastingsRest
  <2> DEFINE S == T \cup {Blank}
  <2>10. Rest(s, a, f) \in Seq(ToSet(Rest(s, a, f)))
    <3>1. s \in Seq(S) /\ Blank \in S
      <4>1. \A i \in 1 .. Len(s) : s[i] \in S
        OBVIOUS
      <4>2. Blank \in S
        OBVIOUS
      <4> HIDE DEF S
      <4> QED
        BY <4>1, <4>2, SeqOfElements
    <3> HIDE DEF S
    <3>2. Rest(s, a, f) \in Seq(S)
      BY <2>4, <3>1, RestLines
    <3> QED
      BY <3>2, SeqOfItself
  <2> HIDE DEF S, l, n
  <2> QED
    BY <1>3, <2>8, <2>9, <2>10
<1> QED
  BY <1>2, <1>3, SectionRemoved

\* What FillUpstreamPlaceholders keeps, whatever it is given.
LEMMA PreparedKeeps ==
  ASSUME NEW s, OfKinds(s), Tidy(s), Enclosed(s), NEW c
  PROVE  LET t == FillUpstreamPlaceholders(s, c)
         IN  Lastings(t) = Lastings(s) /\ IsSuffix(Below(s), t)
<1> DEFINE t == FillUpstreamPlaceholders(s, c)
           T == ToSet(s)
           n == Len(s)
<1>1. s \in Seq(T) /\ n \in Nat
  BY DEF OfKinds
<1> HIDE DEF T
<1>2. PICK g \in 1 .. Len(s) + 1 :
         /\ Below(s) = SubSeq(s, g, Len(s))
         /\ \A i \in 1 .. Len(s) : s[i].kind \in Markers => i < g
         /\ g <= Len(s) => s[g] # Blank
  BY <1>1, BelowIsCut
<1> DEFINE l == n + 1 - g
<1>3. l \in 0 .. n /\ n - l + 1 = g
  BY <1>1
<1>4. t \in Seq(ToSet(t)) /\ SameEnd(s, t, l) /\ Lastings(t) = Lastings(s)
  <2>1. CASE c.version = <<>>
    <3>1. t = RemoveUpstreamSection(s)
      BY <2>1 DEF FillUpstreamPlaceholders
    <3> QED
      BY <1>1, <1>2, <3>1, RemovedKeeps
  <2>2. CASE c.version # <<>>
    <3>1. Calm(s, l)
      <4>1. \A i \in g .. n : s[i].kind \notin Markers
        BY <1>1, <1>2
      <4> QED
        BY <1>3, <4>1 DEF Calm
    <3> HIDE DEF l
    <3> QED
      BY <1>1, <1>3, <2>2, <3>1, FilledKeeps
  <2> QED
    BY <2>1, <2>2
<1> HIDE DEF t, l
<1>5. IsSuffix(SubSeq(s, n - l + 1, n), t)
  BY <1>1, <1>3, <1>4, SameEndIsSuffix
<1> QED
  BY <1>2, <1>3, <1>4, <1>5 DEF t

LEMMA BelowIsSuffix ==
  ASSUME NEW s, OfKinds(s)
  PROVE  IsSuffix(Below(s), s)
<1> DEFINE T == ToSet(s)
           n == Len(s)
<1>1. s \in Seq(T) /\ n \in Nat
  BY DEF OfKinds
<1> HIDE DEF T
<1>2. PICK g \in 1 .. Len(s) + 1 : Below(s) = SubSeq(s, g, Len(s))
  BY <1>1, BelowIsCut
<1> DEFINE l == n + 1 - g
<1>3. l \in 0 .. n /\ n - l + 1 = g
  BY <1>1
<1> HIDE DEF l
<1>4. SameEnd(s, s, l)
  BY <1>3 DEF SameEnd
<1>5. IsSuffix(SubSeq(s, n - l + 1, n), s)
  BY <1>1, <1>3, <1>4, SameEndIsSuffix
<1> QED
  BY <1>2, <1>3, <1>5

LEMMA PreparedIsEnclosed ==
  ASSUME NEW s, OfKinds(s), Tidy(s), Enclosed(s), Furnished(s),
         NEW c \in {NoContent, GenerateUpstreamContent(entries, Components, Cfg)}
  PROVE  Enclosed(FillUpstreamPlaceholders(s, c)) /\ Furnished(FillUpstreamPlaceholders(s, c))
<1>1. s \in Seq(ToSet(s))
  BY DEF OfKinds
<1>2. c.versions = c.version
  BY DEF NoContent, GenerateUpstreamContent
<1>3. CASE c.version = <<>>
  <2>1. Enclosed(RemoveUpstreamSection(s)) /\ Furnished(RemoveUpstreamSection(s))
    BY <1>1, SectionRemoved, RestIsEnclosed, RestIsFurnished
  <2> QED
    BY <1>3, <2>1 DEF FillUpstreamPlaceholders
<1>4. CASE c.version # <<>>
  BY <1>1, <1>2, <1>4, FilledIsUnmarked, UnmarkedIsEnclosed, UnmarkedIsFurnished
<1> QED
  BY <1>3, <1>4

\* In the changelog too nothing lasts between a start marker and the next end marker, and
\* no scaffold is without its placeholders.
Kept == outcome # "torn" => Enclosed(changelog) /\ Furnished(changelog)

LEMMA KeptStays == Counts /\ Lines /\ Kept /\ [Next]_vars => Kept'
<1> SUFFICES ASSUME Counts, Lines, Kept PROVE [Next]_vars => Kept'
  OBVIOUS
<1>1. CASE Write
  <2>1. PICK c \in {NoContent, GenerateUpstreamContent(entries, Components, Cfg)} :
           changelog' = FillUpstreamPlaceholders(changelog, c)
    BY <1>1 DEF Write, Lines
  <2>2. outcome # "torn"
    BY <1>1 DEF Write, Counts, Running
  <2>3. OfKinds(changelog) /\ Tidy(changelog) /\ Enclosed(changelog) /\ Furnished(changelog)
    BY <2>2 DEF Lines, Kept
  <2> QED
    BY <2>1, <2>3, PreparedIsEnclosed DEF Kept
<1>2. CASE WriteTorn
  BY <1>2 DEF WriteTorn, Finish, Kept
<1>3. CASE ChlogUpdate
  <2> DEFINE h == SubSeq(changelog, 1, 2)
             v == SubSeq(changelog, 3, Len(changelog))
             T == ToSet(changelog)
  <2>1. PICK own \in BOOLEAN : changelog' = h \o Scaffold(releases + 1, own) \o v
    BY <1>3 DEF ChlogUpdate
  <2>2. OfKinds(changelog) /\ Tidy(changelog) /\ Enclosed(changelog) /\ Furnished(changelog)
    BY <1>3 DEF ChlogUpdate, Lines, Kept
  <2>3. changelog \in Seq(T)
    BY <2>2 DEF OfKinds
  <2> HIDE DEF T
  <2>4. 2 \in 0 .. Len(changelog) /\ 3 \in 1 .. Len(changelog) + 1
    BY <2>2, <2>3 DEF Tidy, Titled
  <2>5. \A i \in 1 .. 2 : changelog[i].kind \notin {"start", "end", "slot"}
    <3>1. \A i \in 1 .. 2 : i = 1 \/ i = 2
      OBVIOUS
    <3> QED
      BY <2>2, <3>1 DEF Tidy, Titled, Blank
  <2>6. h \in Seq(T) /\ Unmarked(h)
    BY <2>3, <2>4, <2>5, UnmarkedPrefix
  <2>7. v \in Seq(T) /\ Enclosed(v) /\ Furnished(v)
    BY <2>2, <2>3, <2>4, EnclosedTail, FurnishedTail
  <2> HIDE DEF h, v
  <2>8. /\ Enclosed(h \o Scaffold(releases + 1, own) \o v)
        /\ Furnished(h \o Scaffold(releases + 1, own) \o v)
    BY <2>6, <2>7, ScaffoldBetween, FurnishedBetween
  <2> QED
    BY <2>1, <2>8 DEF Kept
<1>4. ASSUME changelog' = changelog, outcome # "torn" \/ outcome' = outcome PROVE Kept'
  BY <1>4 DEF Kept
<1>5. CASE RunStep
  <2>1. outcome # "torn"
    BY <1>5 DEF Counts, Running, Requests, RunStep, Fails, FetchIndex, ReadFiles, Retry,
               PullRead, VersionsRead, TreeRead, Fill, RemoveSection, DryRun, Write, WriteTorn
  <2>2. changelog' = changelog \/ Write \/ WriteTorn
    BY <1>5 DEF RunStep, Fails, FetchIndex, ReadFiles, Retry, PullRead, VersionsRead, TreeRead,
               Fill, RemoveSection, Prepare, DryRun
  <2> QED
    BY <1>1, <1>2, <1>4, <2>1, <2>2
<1> QED
  BY <1>3, <1>4, <1>5 DEF Next, Run, Push, vars

--------------------------------------------------------------------------------
(* What a filled scaffold is made of.                                      *)

Content == GenerateUpstreamContent(entries, Components, Cfg)

\* A run with arguments writes what it has collected.
Origin == step = "write" /\ urls # <<>> => text = FillUpstreamPlaceholders(changelog, Content)

LEMMA OriginStays == IInv /\ Origin /\ [Next]_vars => Origin'
<1> SUFFICES ASSUME IInv, Origin PROVE [Next]_vars => Origin'
  OBVIOUS
<1>1. CASE Fill
  <2>1. /\ text' = FillUpstreamPlaceholders(changelog, Content)
        /\ UNCHANGED <<index, entries, changelog>>
    BY <1>1 DEF Fill, Prepare, Content
  <2>2. Content' = Content
    BY <2>1 DEF Content, Components
  <2> QED
    BY <2>1, <2>2 DEF Origin
<1>2. CASE RemoveSection
  <2>1. urls = <<>> /\ urls' = urls
    BY <1>2 DEF RemoveSection, Prepare, world, IInv, Progress
  <2> QED
    BY <2>1 DEF Origin
<1>3. ASSUME step' # "write" PROVE Origin'
  BY <1>3 DEF Origin
<1>4. ASSUME UNCHANGED <<step, urls, text, changelog, entries, index>> PROVE Origin'
  <2>1. Content' = Content
    BY <1>4 DEF Content, Components
  <2> QED
    BY <1>4, <2>1 DEF Origin
<1>5. ASSUME NEW at, NEW next, FetchIndex(at, next), next \in {"index contrib", "files"}
      PROVE  Origin'
  BY <1>3, <1>5 DEF FetchIndex
<1>6. CASE TreeRead
  <2>1. step' \in {"pull", "render"}
    BY <1>6 DEF TreeRead
  <2> QED
    BY <1>3, <2>1
<1>7. CASE RunStep
  BY <1>1, <1>2, <1>3, <1>5, <1>6, <1>7
     DEF RunStep, ReadFiles, Retry, Requests, PullRead, VersionsRead, DryRun, Write, WriteTorn,
         Fails, Finish
<1>8. ASSUME NEW arguments, NEW dry, Run(arguments, dry) PROVE Origin'
  <2>1. step' \in {"remove", "index core"}
    BY <1>8 DEF Run
  <2> QED
    BY <1>3, <2>1
<1>9. CASE ChlogUpdate
  BY <1>3, <1>9 DEF ChlogUpdate
<1> QED
  BY <1>4, <1>7, <1>8, <1>9 DEF Next, Push, vars, collected

LEMMA HoldingCounts ==
  ASSUME IInv, NEW e
  PROVE  Cardinality(Holding(e)) \in Nat /\ (Cardinality(Holding(e)) > 0 <=> Holding(e) # {})
<1>1. Len(fetched) \in Nat
  BY DEF IInv, Typing
<1>2. IsFiniteSet(1 .. Len(fetched))
  BY <1>1, FS_Interval
<1>3. Holding(e) \subseteq 1 .. Len(fetched)
  BY DEF Holding
<1>4. IsFiniteSet(Holding(e))
  BY <1>2, <1>3, FS_Subset
<1>5. Cardinality(Holding(e)) \in Nat /\ (Cardinality(Holding(e)) = 0 <=> Holding(e) = {})
  BY <1>4, FS_CardinalityType, FS_EmptySet
<1> QED
  BY <1>5

\* What has been collected are the entries of the revisions that were read.
LEMMA CollectedEntries ==
  ASSUME IInv, Collecting, Collected, NEW e
  PROVE  e \in ToSet(entries) <=> \E i \in 1 .. Len(fetched) : e \in EntriesOf(urls[i], fetched[i])
<1>1. e \in ToSet(entries) <=> Times(e, entries) > 0
  BY TimesOfElements DEF Collecting
<1>2. Times(e, entries) = Cardinality(Holding(e))
  BY DEF Collected
<1>3. Holding(e) # {} <=> \E i \in 1 .. Len(fetched) : e \in EntriesOf(urls[i], fetched[i])
  BY DEF Holding
<1> QED
  BY <1>1, <1>2, <1>3, HoldingCounts

EntryOf(e, u, r) ==
    \E f \in EntryFiles(Pulls[u][r].tree) :
        e = Entry(f, Source[u], ExtractVersion(Pulls[u][r].sets))

LEMMA EntryFields ==
  ASSUME NEW e, NEW u, NEW r
  PROVE  /\ e \in EntriesOf(u, r) <=> EntryOf(e, u, r)
         /\ e \in EntriesOf(u, r) => /\ e.file.changeType \in ChangeTypes
                                     /\ e.version = ExtractVersion(Pulls[u][r].sets)
<1>1. \A f, source, version : /\ Entry(f, source, version).file = f
                              /\ Entry(f, source, version).version = version
  BY DEF Entry
<1>2. e \in EntriesOf(u, r) <=> EntryOf(e, u, r)
  BY DEF EntriesOf, Entries, EntryOf
<1>3. \A f \in EntryFiles(Pulls[u][r].tree) : f.changeType \in ChangeTypes
  BY DEF EntryFiles
<1> QED
  BY <1>1, <1>2, <1>3 DEF EntryOf

\* The versions to announce are those of the revisions with something to report.
Heard ==
    {ExtractVersion(Pulls[urls[i]][fetched[i]].sets) :
         i \in {j \in DOMAIN fetched : EntryFiles(Pulls[urls[j]][fetched[j]].tree) # {}}}

LEMMA HeardVersions ==
  ASSUME IInv, Collecting, Collected
  PROVE  /\ UpstreamVersions(entries) = Heard
         /\ Heard \subseteq Nat
         /\ IsFiniteSet(Heard)
<1> DEFINE n == Len(fetched)
           V(i) == ExtractVersion(Pulls[urls[i]][fetched[i]].sets)
           F(i) == EntryFiles(Pulls[urls[i]][fetched[i]].tree)
<1>1. n \in Nat /\ DOMAIN fetched = 1 .. n
  BY DEF IInv, Typing
<1>2. \A v : v \in Heard <=> \E i \in 1 .. n : F(i) # {} /\ v = V(i)
  BY <1>1 DEF Heard
<1>3. \A e : e \in ToSet(entries) <=> \E i \in 1 .. n : e \in EntriesOf(urls[i], fetched[i])
  BY CollectedEntries
<1>4. \A e, i : e \in EntriesOf(urls[i], fetched[i]) => e.version = V(i) /\ F(i) # {}
  BY EntryFields DEF EntryOf
<1>5. \A i : F(i) # {} => \E e : e \in EntriesOf(urls[i], fetched[i])
  <2> SUFFICES ASSUME NEW i, NEW f \in F(i) PROVE \E e : e \in EntriesOf(urls[i], fetched[i])
    OBVIOUS
  <2>1. EntryOf(Entry(f, Source[urls[i]], V(i)), urls[i], fetched[i])
    BY DEF EntryOf
  <2> QED
    BY <2>1, EntryFields
<1> HIDE DEF V, F
<1>6. \A v : v \in UpstreamVersions(entries) <=> v \in Heard
  <2>1. \A v : v \in UpstreamVersions(entries) <=> \E e \in ToSet(entries) : e.version = v
    BY DEF UpstreamVersions
  <2>2. ASSUME NEW v \in UpstreamVersions(entries) PROVE v \in Heard
    <3>1. PICK e \in ToSet(entries) : e.version = v
      BY <2>1
    <3>2. PICK i \in 1 .. n : e \in EntriesOf(urls[i], fetched[i])
      BY <1>3
    <3> QED
      BY <1>2, <1>4, <3>1, <3>2
  <2>3. ASSUME NEW v \in Heard PROVE v \in UpstreamVersions(entries)
    <3>1. PICK i \in 1 .. n : F(i) # {} /\ v = V(i)
      BY <1>2
    <3>2. PICK e : e \in EntriesOf(urls[i], fetched[i])
      BY <1>5, <3>1
    <3>3. e \in ToSet(entries) /\ e.version = v
      BY <1>3, <1>4, <3>1, <3>2
    <3> QED
      BY <2>1, <3>3
  <2> QED
    BY <2>2, <2>3
<1>7. UpstreamVersions(entries) \subseteq Nat
  <2>1. ToSet(entries) = {entries[i] : i \in 1 .. Len(entries)}
    BY SeqOfItself DEF Collecting
  <2>2. \A e \in ToSet(entries) : e.version \in Nat
    BY <2>1 DEF Collecting
  <2> QED
    BY <2>2 DEF UpstreamVersions
<1>8. IsFiniteSet(Heard)
  <2> DEFINE I == {i \in 1 .. n : F(i) # {}}
             g == [i \in I |-> V(i)]
  <2>1. IsFiniteSet(I)
    <3>1. IsFiniteSet(1 .. n) /\ I \subseteq 1 .. n
      BY <1>1, FS_Interval
    <3> QED
      BY <3>1, FS_Subset
  <2>2. \A v : v \in Heard <=> \E i \in I : v = V(i)
    BY <1>2
  <2> HIDE DEF I
  <2>3. g \in Surjection(I, Heard)
    BY <2>2 DEF Surjection
  <2> QED
    BY <2>1, <2>3, FS_Surjection
<1> QED
  BY <1>6, <1>7, <1>8

\* The entry is for the section of that name.
Wanted(e, name) ==
    /\ ShouldInclude(e.file.component, Components, Cfg)
    /\ (e.file.changeType = "breaking") <=> (name = "breaking")

LEMMA SectionsReport ==
  ASSUME IInv, Collecting, Collected, NEW name \in {"breaking", "other"}
  PROVE  /\ Content[name] \in Seq(ToSet(entries))
         /\ \A e : Times(e, Content[name]) = IF Wanted(e, name) THEN Cardinality(Holding(e)) ELSE 0
         /\ \A e : e \in ToSet(Content[name]) <=> Wanted(e, name) /\ Holding(e) # {}
<1> DEFINE Fits(e, types) == /\ e.file.changeType \in types
                             /\ ShouldInclude(e.file.component, Components, Cfg)
<1>1. entries \in Seq(ToSet(entries)) /\ \A i \in 1 .. Len(entries) : entries[i].source \in {"core", "contrib"}
  BY DEF Collecting
<1>2. /\ Content.breaking \in Seq(ToSet(entries)) /\ Content.other \in Seq(ToSet(entries))
      /\ \A e : Times(e, Content.breaking) = IF Fits(e, {"breaking"}) THEN Times(e, entries) ELSE 0
      /\ \A e : Times(e, Content.other) = IF Fits(e, Others) THEN Times(e, entries) ELSE 0
  BY <1>1, ReportedEntries DEF Content
<1>3. \A e : Times(e, entries) = Cardinality(Holding(e))
  BY DEF Collected
<1>4. \A e : Holding(e) # {} => e.file.changeType \in ChangeTypes
  BY EntryFields DEF Holding
<1>5. \A e : /\ Cardinality(Holding(e)) \in Nat
             /\ Cardinality(Holding(e)) > 0 <=> Holding(e) # {}
  BY HoldingCounts
<1>6. Content[name] \in Seq(ToSet(entries))
  BY <1>2
<1>7. ASSUME NEW e
      PROVE  Times(e, Content[name]) = IF Wanted(e, name) THEN Cardinality(Holding(e)) ELSE 0
  <2>1. CASE Holding(e) = {}
    <3>1. Cardinality(Holding(e)) = 0
      BY <1>5, <2>1
    <3>2. Times(e, Content[name]) = 0
      BY <1>2, <1>3, <3>1
    <3> QED
      BY <3>1, <3>2
  <2>2. CASE Holding(e) # {}
    <3>1. e.file.changeType = "breaking" \/ e.file.changeType \in Others
      BY <1>4, <2>2 DEF ChangeTypes, Others
    <3>2. e.file.changeType \in Others => e.file.changeType # "breaking"
      BY DEF Others
    <3>3. CASE name = "breaking"
      <4>1. Wanted(e, name) <=> Fits(e, {"breaking"})
        BY <3>3 DEF Wanted
      <4> QED
        BY <1>2, <1>3, <3>3, <4>1
    <3>4. CASE name = "other"
      <4>1. Wanted(e, name) <=> Fits(e, Others)
        BY <3>1, <3>2, <3>4 DEF Wanted
      <4> QED
        BY <1>2, <1>3, <3>4, <4>1
    <3> QED
      BY <3>3, <3>4
  <2> QED
    BY <2>1, <2>2
<1>8. ASSUME NEW e PROVE e \in ToSet(Content[name]) <=> Wanted(e, name) /\ Holding(e) # {}
  <2>1. e \in ToSet(Content[name]) <=> Times(e, Content[name]) > 0
    BY <1>6, TimesOfElements
  <2> QED
    BY <1>5, <1>7, <2>1
<1> QED
  BY <1>6, <1>7, <1>8

LEMMA PromisedEntries ==
  ASSUME IInv, Len(fetched) = Len(urls), NEW i, NEW e
  PROVE  i \in DOMAIN urls /\ e \in Promised(i)
            <=> i \in Holding(e) /\ ShouldInclude(e.file.component, Components, Cfg)
<1>1. DOMAIN urls = 1 .. Len(fetched)
  BY DEF IInv, Typing
<1>2. e \in Promised(i) <=> /\ e \in EntriesOf(urls[i], fetched[i])
                            /\ ShouldInclude(e.file.component, Components, Cfg)
  BY DEF Promised, EntriesOf
<1> QED
  BY <1>1, <1>2 DEF Holding

--------------------------------------------------------------------------------
(* The theorems.                                                           *)

Whole ==
    /\ IInv /\ Counts /\ Reading /\ Indexing
    /\ Collecting /\ Collected /\ Lines /\ Kept /\ Origin

LEMMA InitWhole == Init => Whole
<1> SUFFICES ASSUME Init PROVE Whole
  OBVIOUS
<1>1. IInv
  BY InitProgress
<1>2. Counts
  <2>1. \A u \in Urls : revision[u] = 1 /\ Len(Pulls[u]) \in Nat /\ Pulls[u] # <<>>
    BY PullLength, PullsAssumption DEF Init
  <2>2. \A u \in Urls : Len(Pulls[u]) > 0
    <3> TAKE u \in Urls
    <3>1. Pulls[u] \in Seq(ToSet(Pulls[u])) /\ Pulls[u] # <<>>
      BY PullsAssumption
    <3> QED
      BY <3>1, NonEmpty
  <2>3. \A u \in Urls : revision[u] \in 1 .. Len(Pulls[u])
    BY <2>1, <2>2
  <2>4. runs \in 0 .. MaxRuns /\ attempt \in 1 .. MaxAttempts
    BY BoundsAssumption DEF Init, MaxAttempts
  <2>5. releases \in 1 .. Max({1, MaxReleases})
    BY MostReleases DEF Init
  <2> QED
    BY <2>3, <2>4, <2>5 DEF Init, Counts, Running, Requests
<1>3. Reading /\ Indexing
  BY DEF Init, Reading, Indexing, EmptyIndex
<1>4. Collecting
  <2>1. entries = <<>>
    BY DEF Init
  <2>2. <<>> \in Seq(ToSet(<<>>)) /\ Len(<<>>) = 0
    OBVIOUS
  <2> QED
    BY <2>1, <2>2 DEF Collecting
<1>5. Lines
  <2>1. PICK own \in BOOLEAN :
           changelog = <<Text(0, "title"), Blank>> \o Scaffold(1, own)
                           \o <<Text(0, "heading"), Blank>>
    BY DEF Init
  <2>2. OfKinds(changelog) /\ Tidy(changelog)
    BY <2>1, FirstIsTidy
  <2>3. step = "idle"
    BY DEF Init
  <2> QED
    BY <2>2, <2>3 DEF Lines
<1>6. Kept
  <2> DEFINE h == <<Text(0, "title"), Blank>>
             v == <<Text(0, "heading"), Blank>>
             T == {Text(0, "title"), Text(0, "heading"), Blank}
  <2>1. PICK own \in BOOLEAN : changelog = h \o Scaffold(1, own) \o v
    BY DEF Init
  <2>2. h \in Seq(T) /\ v \in Seq(T)
    OBVIOUS
  <2>3. Unmarked(h) /\ Unmarked(v)
    BY DEF Unmarked, Text, Blank
  <2> HIDE DEF h, v, T
  <2>4. Enclosed(h \o Scaffold(1, own) \o v) /\ Furnished(h \o Scaffold(1, own) \o v)
    BY <2>2, <2>3, UnmarkedIsEnclosed, UnmarkedIsFurnished, ScaffoldBetween, FurnishedBetween
  <2> QED
    BY <2>1, <2>4 DEF Kept
<1>7. Collected
  <2>1. entries = <<>> /\ fetched = <<>>
    BY DEF Init
  <2> QED
    BY <2>1, NothingCollected DEF Collected
<1>8. Origin
  BY DEF Init, Origin
<1> QED
  BY <1>1, <1>2, <1>3, <1>4, <1>5, <1>6, <1>7, <1>8 DEF Whole

LEMMA NextWhole == Whole /\ [Next]_vars => Whole'
  BY NextProgress, CountsStay, ReadingStays, IndexingStays, CollectingStays, CollectedStays,
     LinesStay, KeptStays, OriginStays
  DEF Whole

LEMMA AlwaysWhole == Spec => []Whole
  BY InitWhole, NextWhole, PTL DEF Spec

LEMMA WholeIsTyped == Whole => TypeOK
<1> SUFFICES ASSUME Whole PROVE TypeOK
  OBVIOUS
<1> USE DEF Whole
<1>1. step \in Running \cup {"idle", "ended"}
  BY DEF IInv, Typing
<1>2. step \in {"versions", "tree"} => info # None
  BY NoneAssumption DEF Reading
<1>3. Len(fetched) <= Len(urls)
  <2>1. Len(fetched) \in Nat /\ Len(urls) \in Nat
    BY DEF IInv, Typing
  <2>2. step \in {"idle", "ended", "remove"} => Len(fetched) = Len(urls)
    BY DEF IInv, Progress
  <2>3. step \in {"index core", "index contrib", "files"} \cup Requests => Len(fetched) < Len(urls)
    BY DEF IInv, Progress
  <2>4. step \in {"render", "write"} => Len(fetched) = Len(urls)
    BY DEF IInv, Progress
  <2>5. Len(fetched) = Len(urls) \/ Len(fetched) < Len(urls)
    BY <1>1, <2>2, <2>3, <2>4 DEF Running, Requests
  <2> QED
    BY <2>1, <2>5
<1>4. \A e \in ToSet(entries) : e.version \in Nat /\ e.source \in {"core", "contrib"}
  <2>1. ToSet(entries) = {entries[i] : i \in 1 .. Len(entries)}
    BY SeqOfItself DEF Collecting
  <2> QED
    BY <2>1 DEF Collecting
<1>5. \A l \in ToSet(changelog) :
         l.kind \in {"blank", "start", "end", "slot", "filled", "text"}
  <2>1. ToSet(changelog) = {changelog[i] : i \in 1 .. Len(changelog)}
    BY SeqOfItself DEF Lines, OfKinds
  <2> QED
    BY <2>1 DEF Lines, OfKinds, Kinds
<1>6. Counts /\ Indexing
  OBVIOUS
<1> QED
  BY <1>1, <1>2, <1>3, <1>4, <1>5, <1>6, Zenon DEF TypeOK, Counts, Indexing

\* The variables keep their types: the version of an entry is one, no component is
\* indexed under a form that is not its own, no request is sent a third time, and no
\* line of a kind of its own is ever written (github.go, parser.go, changelog.go).
THEOREM RunTypeCorrect == Spec => []TypeOK
  BY AlwaysWhole, WholeIsTyped, PTL

LEMMA MarkedLines ==
  ASSUME NEW s, OfKinds(s)
  PROVE  Unmarked(s) <=> \A l \in ToSet(s) : l.kind \notin Markers
<1>1. ToSet(s) = {s[i] : i \in 1 .. Len(s)}
  BY SeqOfItself DEF OfKinds
<1> QED
  BY <1>1 DEF Unmarked, Markers

\* A changelog without markers is given back by FillUpstreamPlaceholders, so a run that
\* is started once more changes nothing (changelog.go:39).
THEOREM RunningAgainIsHarmless == Spec => FinishedStays
<1>1. ASSUME Whole, Next, step \in Running, \A l \in ToSet(changelog) : l.kind \notin Markers
      PROVE  changelog' = changelog \/ outcome' = "torn"
  <2>1. OfKinds(changelog) /\ Unmarked(changelog)
    BY <1>1, MarkedLines DEF Whole, Lines
  <2>2. \A c : FillUpstreamPlaceholders(changelog, c) = changelog
    BY <2>1, UnmarkedStays DEF OfKinds
  <2>3. CASE Write
    BY <1>1, <2>2, <2>3 DEF Write, Whole, Lines
  <2>4. CASE WriteTorn
    BY <2>4 DEF WriteTorn, Finish
  <2>5. CASE ~Write /\ ~WriteTorn
    BY <1>1, <2>5
       DEF Next, RunStep, Run, Push, ChlogUpdate, FetchIndex, ReadFiles, Retry, PullRead,
           VersionsRead, TreeRead, Fill, RemoveSection, Prepare, DryRun, Fails,
           Running, Requests
  <2> QED
    BY <2>3, <2>4, <2>5
<1>2. Whole /\ [Next]_vars
        => [(\A l \in ToSet(changelog) : l.kind \notin Markers) /\ step \in Running
               => changelog' = changelog \/ outcome' = "torn"]_vars
  BY <1>1
<1> QED
  BY <1>2, AlwaysWhole, PTL DEF Spec, FinishedStays

\* One scaffold has one start marker.
LEMMA OnePending ==
  ASSUME NEW s, OfKinds(s), Pending(s) = 1
  PROVE  \E o \in 1 .. Len(s) : \A i \in 1 .. Len(s) : s[i] = Start => i = o
<1> DEFINE D == {i \in DOMAIN s : s[i] = Start}
<1>1. DOMAIN s = 1 .. Len(s) /\ Len(s) \in Nat
  BY DEF OfKinds
<1>2. Cardinality(D) = 1
  BY DEF Pending, Times
<1>3. IsFiniteSet(D)
  <2>1. IsFiniteSet(1 .. Len(s))
    BY <1>1, FS_Interval
  <2> QED
    BY <1>1, <2>1, FS_Subset
<1>4. \A i \in 1 .. Len(s) : s[i] = Start => i \in D
  BY <1>1
<1>5. D \subseteq 1 .. Len(s)
  BY <1>1
<1> HIDE DEF D
<1>6. PICK o : D = {o}
  BY <1>2, <1>3, FS_Singleton
<1> QED
  BY <1>4, <1>5, <1>6

\* A run that ends well leaves no marker and no placeholder of the one scaffold there
\* was, whether it has filled it or removed it (changelog.go:36).
THEOREM OneRunFinishes == Spec => NoMarkerIsLeft
<1>1. ASSUME Whole, Next, outcome' = "ok", step = "write", Pending(changelog) = 1
      PROVE  \A l \in ToSet(changelog') : l.kind \notin Markers
  <2>1. changelog' = text
    BY <1>1
       DEF Next, RunStep, Run, Push, ChlogUpdate, FetchIndex, ReadFiles, Retry, PullRead,
           VersionsRead, TreeRead, Fill, RemoveSection, Prepare, DryRun, Fails, Finish,
           Write, WriteTorn, Running, Requests, Whole, Counts
  <2>2. OfKinds(changelog) /\ Tidy(changelog)
    BY <1>1 DEF Whole, Lines, Counts, Running
  <2>3. PICK c \in {NoContent, GenerateUpstreamContent(entries, Components, Cfg)} :
           text = FillUpstreamPlaceholders(changelog, c)
    BY <1>1 DEF Whole, Lines
  <2>4. c.versions = c.version
    BY DEF NoContent, GenerateUpstreamContent
  <2>5. Unmarked(text)
    <3>1. CASE c.version = <<>>
      <4>1. PICK o \in 1 .. Len(changelog) :
               \A i \in 1 .. Len(changelog) : changelog[i] = Start => i = o
        BY <1>1, <2>2, OnePending
      <4>2. Unmarked(RemoveUpstreamSection(changelog))
        BY <2>2, <4>1, RemovedIsUnmarked DEF OfKinds
      <4> QED
        BY <2>3, <3>1, <4>2 DEF FillUpstreamPlaceholders
    <3>2. CASE c.version # <<>>
      BY <2>2, <2>3, <2>4, <3>2, FilledIsUnmarked DEF OfKinds
    <3> QED
      BY <3>1, <3>2
  <2>6. OfKinds(text)
    BY <2>2, <2>3, FillKinds
  <2> QED
    BY <2>1, <2>5, <2>6, MarkedLines
<1>2. Whole /\ [Next]_vars
        => [outcome' = "ok" /\ step = "write" /\ Pending(changelog) = 1
               => \A l \in ToSet(changelog') : l.kind \notin Markers]_vars
  BY <1>1
<1> QED
  BY <1>2, AlwaysWhole, PTL DEF Spec, NoMarkerIsLeft

\* A run that ends well keeps the headings and what the distribution reports itself, and
\* every line below the last scaffold, whichever scaffolds there are (changelog.go:39-76).
THEOREM HistoryStays == Spec => HistoryIsKept
<1>1. ASSUME Whole, Next, outcome' = "ok", step \in Running
      PROVE  /\ Lastings(changelog') = Lastings(changelog)
             /\ IsSuffix(Below(changelog), changelog')
  <2>1. OfKinds(changelog) /\ Tidy(changelog) /\ Enclosed(changelog) /\ outcome = "none"
    BY <1>1 DEF Whole, Lines, Counts, Kept
  <2>2. CASE Write
    <3>1. PICK c : changelog' = FillUpstreamPlaceholders(changelog, c)
      BY <1>1, <2>2 DEF Write, Whole, Lines
    <3> QED
      BY <2>1, <3>1, PreparedKeeps
  <2>3. CASE DryRun
    <3>1. changelog' = changelog
      BY <2>3 DEF DryRun
    <3> QED
      BY <2>1, <3>1, BelowIsSuffix
  <2>4. Write \/ DryRun
    BY <1>1, <2>1
       DEF Next, RunStep, Run, Push, ChlogUpdate, FetchIndex, ReadFiles, Retry, PullRead,
           VersionsRead, TreeRead, Fill, RemoveSection, Prepare, Fails, Finish,
           WriteTorn, Running, Requests
  <2> QED
    BY <2>2, <2>3, <2>4
<1>2. Whole /\ [Next]_vars
        => [outcome' = "ok" /\ step \in Running =>
               /\ Lastings(changelog') = Lastings(changelog)
               /\ IsSuffix(Below(changelog), changelog')]_vars
  BY <1>1
<1> QED
  BY <1>2, AlwaysWhole, PTL DEF Spec, HistoryIsKept


\* The step that fills a scaffold writes what has been collected.
LEMMA FillsContent ==
  ASSUME Whole, Next, Fills
  PROVE  /\ changelog' = FillUpstreamPlaceholders(changelog, Content)
         /\ changelog \in Seq(ToSet(changelog))
         /\ Furnished(changelog)
         /\ Len(fetched) = Len(urls)
<1>1. step = "write" /\ urls # <<>> /\ outcome' = "ok"
  BY DEF Fills
<1>2. outcome = "none"
  BY <1>1 DEF Whole, Counts, Running
<1>3. Write
  BY <1>1, <1>2
     DEF Next, RunStep, Run, Push, ChlogUpdate, FetchIndex, ReadFiles, Retry, Requests, PullRead,
         VersionsRead, TreeRead, Fill, RemoveSection, Prepare, DryRun, Fails, Finish, WriteTorn
<1>4. changelog' = FillUpstreamPlaceholders(changelog, Content)
  BY <1>1, <1>3 DEF Write, Whole, Origin
<1>5. changelog \in Seq(ToSet(changelog)) /\ Furnished(changelog)
  BY <1>2 DEF Whole, Lines, OfKinds, Kept
<1>6. Len(fetched) = Len(urls)
  BY <1>1 DEF Whole, IInv, Progress
<1> QED
  BY <1>4, <1>5, <1>6

LEMMA NewLinesReport ==
  ASSUME Whole, Next, Fills, NEW l \in NewLines
  PROVE  l.body = Content[l.name]
<1> DEFINE T == ToSet(changelog)
<1>1. /\ changelog' = FillUpstreamPlaceholders(changelog, Content)
      /\ changelog \in Seq(T)
  BY FillsContent
<1>2. /\ l \in ToSet(FillUpstreamPlaceholders(changelog, Content))
      /\ l.kind = "filled" /\ l \notin ToSet(changelog)
  BY <1>1 DEF NewLines
<1> QED
  BY <1>1, <1>2, NewLinesAreFilled

LEMMA ReleasedContent ==
  ASSUME Whole
  PROVE  /\ Content.version \in Seq(Nat) /\ Content.versions = Content.version
         /\ ToSet(Content.version) = Announced
         /\ \A i, j \in 1 .. Len(Content.version) :
                i < j => Content.version[i] < Content.version[j]
<1> DEFINE r == FilterCollectorReleaseVersions(SortedUniqueVersions(Heard))
           v0 == {v \in Heard : v < FirstMajor}
<1>1. UpstreamVersions(entries) = Heard /\ Heard \subseteq Nat /\ IsFiniteSet(Heard)
  BY HeardVersions DEF Whole
<1>2. /\ r \in Seq(Nat)
      /\ ToSet(r) = IF v0 = {} THEN Heard ELSE v0
      /\ \A i, j \in 1 .. Len(r) : i < j => r[i] < r[j]
  BY <1>1, ReleasedVersions
<1>3. Content.version = r /\ Content.versions = r
  BY <1>1 DEF Content, GenerateUpstreamContent
<1>4. Announced = IF v0 = {} THEN Heard ELSE v0
  BY DEF Announced, Heard
<1> HIDE DEF r, v0
<1> QED
  BY <1>2, <1>3, <1>4

\* The versions a release announces are those of the pull requests with something to
\* report, each once and in ascending order, and only v0 releases when there are any
\* (generator.go:41).
THEOREM VersionsAreInOrder == Spec => VersionsInOrder
<1>1. ASSUME Whole, Next, Fills, NEW l \in NewLines, l.name \in {"version", "versions"}
      PROVE  /\ ToSet(l.body) = Announced
             /\ \A i \in 1 .. Len(l.body) - 1 : l.body[i] < l.body[i + 1]
  <2> DEFINE b == l.body
             n == Len(b)
  <2>1. b = Content.version
    BY <1>1, NewLinesReport, ReleasedContent
  <2> HIDE DEF b
  <2>2. /\ b \in Seq(Nat) /\ ToSet(b) = Announced
        /\ \A i, j \in 1 .. n : i < j => b[i] < b[j]
    BY <1>1, <2>1, ReleasedContent
  <2>3. n \in Nat
    BY <2>2
  <2> HIDE DEF n
  <2>4. \A i \in 1 .. n - 1 : b[i] < b[i + 1]
    <3> TAKE i \in 1 .. n - 1
    <3>1. i \in 1 .. n /\ i + 1 \in 1 .. n /\ i < i + 1
      BY <2>3
    <3> QED
      BY <2>2, <3>1
  <2> QED
    BY <2>2, <2>4 DEF b, n
<1>2. Whole /\ [Next]_vars
        => [Fills => \A l \in NewLines : l.name \in {"version", "versions"} =>
               /\ ToSet(l.body) = Announced
               /\ \A i \in 1 .. Len(l.body) - 1 : l.body[i] < l.body[i + 1]]_vars
  BY <1>1
<1> QED
  BY <1>2, AlwaysWhole, PTL DEF Spec, VersionsInOrder

\* A filled line reports the promised entries of its kind, each as often as promised.
LEMMA FilledLinesReport ==
  ASSUME Whole, Next, Fills, NEW l \in NewLines, l.name \in {"breaking", "other"}
  PROVE  Reports(l)
<1> DEFINE expected == {e \in UNION {Promised(i) : i \in DOMAIN urls} :
                            (e.file.changeType = "breaking") <=> (l.name = "breaking")}
           P(e) == {i \in DOMAIN urls : e \in Promised(i)}
<1>1. l.body = Content[l.name]
  BY NewLinesReport
<1>2. IInv /\ Collecting /\ Collected /\ Len(fetched) = Len(urls)
  BY FillsContent DEF Whole
<1>3. /\ \A e : Times(e, l.body) = IF Wanted(e, l.name) THEN Cardinality(Holding(e)) ELSE 0
      /\ \A e : e \in ToSet(l.body) <=> Wanted(e, l.name) /\ Holding(e) # {}
  BY <1>1, <1>2, SectionsReport
<1>4. \A i, e : i \in DOMAIN urls /\ e \in Promised(i)
                   <=> i \in Holding(e) /\ ShouldInclude(e.file.component, Components, Cfg)
  BY <1>2, PromisedEntries
<1>5. \A e : e \in expected <=> Wanted(e, l.name) /\ Holding(e) # {}
  <2>1. \A e : e \in expected
                  <=> /\ \E i : i \in DOMAIN urls /\ e \in Promised(i)
                      /\ (e.file.changeType = "breaking") <=> (l.name = "breaking")
    OBVIOUS
  <2>2. \A e : (\E i : i \in DOMAIN urls /\ e \in Promised(i))
                  <=> /\ Holding(e) # {}
                      /\ ShouldInclude(e.file.component, Components, Cfg)
    BY <1>4
  <2> HIDE DEF expected
  <2> QED
    BY <2>1, <2>2, Zenon DEF Wanted
<1>6. \A e : Wanted(e, l.name) => P(e) = Holding(e)
  <2>1. \A e : Wanted(e, l.name) => ShouldInclude(e.file.component, Components, Cfg)
    BY Zenon DEF Wanted
  <2> QED
    BY <1>4, <2>1
<1> HIDE DEF expected, P
<1>7. ToSet(l.body) = expected
  BY <1>3, <1>5
<1>8. \A e \in expected : Times(e, l.body) = Cardinality(P(e))
  BY <1>3, <1>5, <1>6
<1> QED
  BY <1>7, <1>8, Zenon DEF Reports, expected, P

\* Where a scaffold waits, no promised entry is missing afterwards.
LEMMA PromisedIsReported ==
  ASSUME Whole, Next, Fills, Pending(changelog) > 0,
         NEW i \in DOMAIN urls, NEW e \in Promised(i)
  PROVE  IsReported(e)
<1> DEFINE T == ToSet(changelog)
           name == IF e.file.changeType = "breaking" THEN "breaking" ELSE "other"
<1>1. /\ changelog' = FillUpstreamPlaceholders(changelog, Content)
      /\ changelog \in Seq(T) /\ Furnished(changelog) /\ Len(fetched) = Len(urls)
  BY FillsContent
<1>2. IInv /\ Collecting /\ Collected
  BY DEF Whole
<1>3. i \in Holding(e) /\ ShouldInclude(e.file.component, Components, Cfg)
  BY <1>1, <1>2, PromisedEntries
<1>4. name \in {"breaking", "other"} /\ Wanted(e, name)
  BY <1>3 DEF Wanted
<1> HIDE DEF name, T
<1>5. e \in ToSet(Content[name]) /\ Content[name] \in Seq(ToSet(entries))
  BY <1>2, <1>3, <1>4, SectionsReport
<1>6. Content[name] # <<>>
  BY <1>5 DEF ToSet
<1>7. Content.version # <<>>
  <2> DEFINE u == urls[i]
             r == fetched[i]
  <2>1. i \in DOMAIN fetched /\ e \in EntriesOf(u, r)
    BY <1>2, <1>3 DEF Holding, IInv, Typing
  <2>2. EntryFiles(Pulls[u][r].tree) # {}
    BY <2>1, EntryFields DEF EntryOf
  <2>3. ExtractVersion(Pulls[u][r].sets) \in Heard
    BY <2>1, <2>2 DEF Heard
  <2>4. Announced # {}
    BY <2>3 DEF Announced, Heard
  <2>5. ToSet(Content.version) = Announced
    BY ReleasedContent
  <2> QED
    BY <2>4, <2>5 DEF ToSet
<1>8. PICK k \in 1 .. Len(changelog) : changelog[k] = Start
  <2>1. Start \in ToSet(changelog)
    BY <1>1, TimesOfElements DEF Pending
  <2> QED
    BY <1>1, <2>1, SeqOfItself
<1>9. Slot(name) \in ToSet(changelog)
  <2>1. PICK a, b \in k + 1 .. Len(changelog) :
           changelog[a] = Slot("breaking") /\ changelog[b] = Slot("other")
    BY <1>1, <1>8 DEF Furnished
  <2>2. Len(changelog) \in Nat
    BY <1>1
  <2>3. a \in 1 .. Len(changelog) /\ b \in 1 .. Len(changelog)
    BY <2>2
  <2>4. changelog[a] \in ToSet(changelog) /\ changelog[b] \in ToSet(changelog)
    BY <1>1, <2>3, SeqOfItself
  <2> QED
    BY <1>4, <2>1, <2>4
<1>10. Filled(name, Content[name]) \in ToSet(changelog')
  BY <1>1, <1>6, <1>7, <1>9, PlaceholdersAreFilled
<1>11. \A body : /\ Filled(name, body).kind = "filled" /\ Filled(name, body).name = name
                 /\ Filled(name, body).body = body
  BY DEF Filled
<1> QED
  BY <1>4, <1>5, <1>10, <1>11 DEF IsReported

\* What is written reports exactly the entries of all the pull requests, each from the
\* one revision that was read, and a breaking change never among the others
\* (main.go:72-95, generator.go:40).
THEOREM ReportIsComplete == Spec => WrittenIsComplete
<1>1. ASSUME Whole, Next, Fills, Pending(changelog) > 0
      PROVE  /\ \A l \in NewLines : l.name \in {"breaking", "other"} => Reports(l)
             /\ \A i \in DOMAIN urls : \A e \in Promised(i) : IsReported(e)
  BY <1>1, FilledLinesReport, PromisedIsReported
<1>2. Whole /\ [Next]_vars
        => [Fills /\ Pending(changelog) > 0 =>
               /\ \A l \in NewLines : l.name \in {"breaking", "other"} => Reports(l)
               /\ \A i \in DOMAIN urls : \A e \in Promised(i) : IsReported(e)]_vars
  BY <1>1
<1> QED
  BY <1>2, AlwaysWhole, PTL DEF Spec, WrittenIsComplete
================================================================================
