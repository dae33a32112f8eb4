----------------------------- MODULE ChangelogRun -----------------------------
(***************************************************************************)
(* Runs of the changelog generator (src/internal/changelog-generator):     *)
(* the requests to GitHub with their retry, the pull requests one after    *)
(* the other, and the one write to CHANGELOG.md at the end.                *)
(*                                                                         *)
(* While a run waits for an answer, somebody may push to a pull request,   *)
(* and the list of components on the main branches may be renamed.         *)
(* Between runs `make chlog-update` may start another release.             *)
(***************************************************************************)
EXTENDS Changelog

CONSTANTS
    Source,       \* Source[u]: "core" or "contrib", or None if u is no PR URL
    Pulls,        \* Pulls[u]: the revisions of the pull request, [sets, tree] each
    Arguments,    \* the command lines: sequences of URLs
    MainLists,    \* the contents .chloggen/config.yaml may have on a main branch
    Normalized,   \* Normalized[c]: the component without underscores
    Manifest,     \* the normalized components of manifest.yaml
    Cfg,          \* config.yaml: [allowlist, denylist]
    MaxRuns,      \* bound: how often the tool is run
    MaxReleases   \* bound: how many releases are scaffolded

Urls == DOMAIN Source
MaxAttempts == 2

ASSUME SourceAssumption == \A u \in Urls : Source[u] \in {"core", "contrib", None}
ASSUME PullsAssumption ==
    /\ DOMAIN Pulls = Urls
    /\ \A u \in Urls : Pulls[u] # <<>> /\ Pulls[u] \in Seq(ToSet(Pulls[u]))
    /\ \A u \in Urls : \A pull \in ToSet(Pulls[u]) :
           /\ pull.sets \in [ToSet(ModuleSets) -> Nat \cup {None, Malformed}]
           /\ pull.tree = None \/ IsFiniteSet(pull.tree)
ASSUME IndexAssumption == MainLists \subseteq Seq(DOMAIN Normalized)
ASSUME NoneAssumption == None \notin [revision : Nat, version : Nat \cup {None}]
ASSUME ArgumentsAssumption == Arguments \subseteq Seq(Urls)
ASSUME BoundsAssumption == MaxRuns \in Nat /\ MaxReleases \in Nat

VARIABLES
    revision,   \* the current revision of each pull request
    step,       \* where the run is
    urls,       \* the arguments of the run
    dryRun,     \* its flag -dry-run
    attempt,    \* of the request under way
    index,      \* normalized component -> component
    info,       \* the PRInfo of the pull request under way: [revision, version]
    fetched,    \* the revisions whose entries were collected, one per URL so far
    entries,    \* allEntries
    text,       \* what is about to be written to CHANGELOG.md
    changelog,  \* the lines of CHANGELOG.md
    outcome,    \* of the last run
    releases,   \* how many releases are in the changelog
    runs        \* how many runs were started

vars == <<revision, step, urls, dryRun, attempt, index, info, fetched, entries,
          text, changelog, outcome, releases, runs>>

collected == <<index, info, fetched, entries, text>>
world == <<revision, urls, dryRun, releases, runs>>

-----------------------------------------------------------------------------
Requests == {"pull", "versions", "tree"}
Running == Requests \cup {"index core", "index contrib", "files", "render", "remove", "write"}

Current == urls[Len(fetched) + 1]

Components == {index[n] : n \in DOMAIN index \cap Manifest}

EmptyIndex == [n \in {} |-> None]

Init ==
    /\ revision = [u \in Urls |-> 1]
    /\ step = "idle"
    /\ urls = <<>> /\ dryRun = FALSE
    /\ attempt = 1
    /\ index = EmptyIndex /\ info = None /\ fetched = <<>> /\ entries = <<>> /\ text = <<>>
    /\ \E own \in BOOLEAN :
           changelog = <<Text(0, "title"), Blank>> \o Scaffold(1, own)
                           \o <<Text(0, "heading"), Blank>>
    /\ outcome = "none"
    /\ releases = 1 /\ runs = 0

\* The process exits; what it had collected is gone.
Finish(result) ==
    /\ step' = "ended" /\ outcome' = result
    /\ urls' = <<>> /\ dryRun' = FALSE /\ attempt' = 1
    /\ index' = EmptyIndex /\ info' = None /\ fetched' = <<>> /\ entries' = <<>> /\ text' = <<>>
    /\ UNCHANGED <<revision, releases, runs>>

-----------------------------------------------------------------------------
(* Outside the tool *)

\* A pull request gets another base or another head.
Push(u) ==
    /\ revision[u] < Len(Pulls[u])
    /\ revision' = [revision EXCEPT ![u] = @ + 1]
    /\ UNCHANGED <<step, urls, dryRun, attempt, collected, changelog, outcome, releases, runs>>

\* `make chlog-update` puts the scaffold of the next release on top.
ChlogUpdate ==
    /\ step \in {"idle", "ended"} /\ outcome # "torn"
    /\ releases < MaxReleases
    /\ releases' = releases + 1
    /\ \E own \in BOOLEAN :
           changelog' = SubSeq(changelog, 1, 2) \o Scaffold(releases + 1, own)
                            \o SubSeq(changelog, 3, Len(changelog))
    /\ UNCHANGED <<revision, step, urls, dryRun, attempt, collected, outcome, runs>>

-----------------------------------------------------------------------------
(* main.go *)

\* Without URLs there is no upstream release, and nothing is fetched.
Run(arguments, dry) ==
    /\ step \in {"idle", "ended"} /\ outcome # "torn"
    /\ runs < MaxRuns
    /\ runs' = runs + 1
    /\ urls' = arguments /\ dryRun' = dry
    /\ step' = IF arguments = <<>> THEN "remove" ELSE "index core"
    /\ outcome' = "none"
    /\ UNCHANGED <<revision, attempt, collected, changelog, releases>>

\* The later of two components with the same normalized form wins.
Indexed(known, list) ==
    LET Form(i) == Normalized[list[i]]
        forms == {Form(i) : i \in DOMAIN list}
        last(n) == list[Max({i \in DOMAIN list : Form(i) = n})]
    IN  [n \in DOMAIN known \cup forms |-> IF n \in forms THEN last(n) ELSE known[n]]

\* ParseChloggenConfig.  The status of the answer is not looked at: an error page
\* that is YAML is a configuration without components.
FetchIndex(at, next) ==
    /\ step = at
    /\ \E list \in MainLists \cup {<<>>} : index' = Indexed(index, list)
    /\ step' = next
    /\ UNCHANGED <<world, attempt, info, fetched, entries, text, changelog, outcome>>

\* ParseManifest and ParseConfig.
ReadFiles ==
    /\ step = "files"
    /\ step' = "pull"
    /\ UNCHANGED <<world, attempt, collected, changelog, outcome>>

-----------------------------------------------------------------------------
(* github.go: `do` sends a request at most twice, the second time only when the
   answer to the first was 403 or 429. *)

\* Mutant: no limit on the attempts.
MutRetryForEver ==
    /\ step \in Requests
    /\ attempt' = attempt + 1
    /\ UNCHANGED <<world, step, collected, changelog, outcome>>

Retry ==
    /\ step \in Requests /\ attempt < MaxAttempts
    /\ attempt' = attempt + 1
    /\ UNCHANGED <<world, step, collected, changelog, outcome>>

\* FetchPRInfo.  Both commits are taken from the one answer.
PullRead ==
    /\ step = "pull" /\ Source[Current] # None
    /\ info' = [revision |-> revision[Current], version |-> None]
    /\ step' = "versions" /\ attempt' = 1
    /\ UNCHANGED <<world, index, fetched, entries, text, changelog, outcome>>

\* versions.yaml at the head commit.
VersionsRead ==
    LET version == ExtractVersion(Pulls[Current][info.revision].sets)
    IN  /\ step = "versions" /\ version # Malformed
        /\ info' = [info EXCEPT !.version = version]
        /\ step' = "tree" /\ attempt' = 1
        /\ UNCHANGED <<world, index, fetched, entries, text, changelog, outcome>>

\* FetchChloggenEntries at the base commit.  The files are ranged over as a map, in
\* any order.
\* Mutant: the entries are read at the current head of the pull request's base.
MutTreeOfNow ==
    LET tree == Pulls[Current][revision[Current]].tree
    IN  /\ step = "tree" /\ tree # None
        /\ \E found \in SetToSeqs(Entries(tree, Source[Current], info.version)) :
               entries' = entries \o found
        /\ fetched' = Append(fetched, info.revision)
        /\ step' = IF Len(fetched') < Len(urls) THEN "pull" ELSE "render"
        /\ info' = None /\ attempt' = 1
        /\ UNCHANGED <<world, index, text, changelog, outcome>>

TreeRead ==
    LET tree == Pulls[Current][info.revision].tree
    IN  /\ step = "tree" /\ tree # None
        /\ \E found \in SetToSeqs(Entries(tree, Source[Current], info.version)) :
               entries' = entries \o found
        /\ fetched' = Append(fetched, info.revision)
        /\ step' = IF Len(fetched') < Len(urls) THEN "pull" ELSE "render"
        /\ info' = None /\ attempt' = 1
        /\ UNCHANGED <<world, index, text, changelog, outcome>>

-----------------------------------------------------------------------------
(* The end of run *)

\* FillUpstreamPlaceholders up to the write.
\* Mutant: the flag -dry-run is forgotten.
MutPrepareAlways(content) ==
    /\ text' = FillUpstreamPlaceholders(changelog, content)
    /\ step' = "write"
    /\ UNCHANGED <<world, attempt, index, info, fetched, entries, changelog, outcome>>

Prepare(content) ==
    /\ ~dryRun
    /\ text' = FillUpstreamPlaceholders(changelog, content)
    /\ step' = "write"
    /\ UNCHANGED <<world, attempt, index, info, fetched, entries, changelog, outcome>>

Fill ==
    /\ step = "render" /\ UpstreamVersions(entries) # {}
    /\ Prepare(GenerateUpstreamContent(entries, Components, Cfg))

RemoveSection == step = "remove" /\ Prepare(NoContent)

\* Nothing is written: the content is printed, or that the section would be removed.
DryRun ==
    /\ dryRun
    /\ step = "remove" \/ (step = "render" /\ UpstreamVersions(entries) # {})
    /\ Finish("ok")
    /\ UNCHANGED changelog

Write ==
    /\ step = "write"
    /\ changelog' = text
    /\ Finish("ok")

\* os.WriteFile truncates the file first: a write that fails after that leaves a part,
\* or nothing.
WriteTorn ==
    /\ step = "write"
    /\ \E n \in 0 .. Len(text) - 1 : changelog' = SubSeq(text, 1, n)
    /\ Finish("torn")

\* Every request and every file may fail, and every answer may be unusable; if no
\* entry was found there is no version to report.  run returns an error.
\* Mutant: a pull request that could not be read is tried again.
MutTryPullAgain ==
    /\ step \in Running
    /\ IF step \in Requests
       THEN /\ step' = "pull" /\ attempt' = 1 /\ info' = None
            /\ UNCHANGED <<world, index, fetched, entries, text, outcome>>
       ELSE Finish("failed")
    /\ UNCHANGED changelog

Fails ==
    /\ step \in Running
    /\ dryRun => step # "remove" /\ (step = "render" => UpstreamVersions(entries) = {})
    /\ Finish("failed")
    /\ UNCHANGED changelog

-----------------------------------------------------------------------------
RunStep ==
    \/ Fails
    \/ FetchIndex("index core", "index contrib")
    \/ FetchIndex("index contrib", "files")
    \/ ReadFiles
    \/ Retry \/ PullRead \/ VersionsRead \/ TreeRead
    \/ Fill \/ RemoveSection \/ DryRun \/ Write \/ WriteTorn

Next ==
    \/ RunStep
    \/ \E arguments \in Arguments, dry \in BOOLEAN : Run(arguments, dry)
    \/ \E u \in Urls : Push(u)
    \/ ChlogUpdate

\* The HTTP clients give up after 30 seconds and retryDelay is at most 30 seconds:
\* a run never waits for ever.
Spec == Init /\ [][Next]_vars /\ WF_vars(RunStep)

-----------------------------------------------------------------------------
(* Properties *)

\* Every variable keeps its type; a run that has everything has as many revisions
\* as arguments, and a request is never sent a third time.
TypeOK ==
    /\ \A u \in Urls : revision[u] \in 1 .. Len(Pulls[u])
    /\ step \in Running \cup {"idle", "ended"}
    /\ urls \in Arguments \cup {<<>>} /\ dryRun \in BOOLEAN
    /\ attempt \in 1 .. MaxAttempts
    /\ DOMAIN index \subseteq {Normalized[c] : c \in DOMAIN Normalized}
    /\ \A n \in DOMAIN index : Normalized[index[n]] = n
    /\ step \in {"versions", "tree"} => info # None
    /\ Len(fetched) <= Len(urls)
    /\ \A e \in ToSet(entries) : e.version \in Nat /\ e.source \in {"core", "contrib"}
    /\ \A l \in ToSet(changelog) :
           l.kind \in {"blank", "start", "end", "slot", "filled", "text"}
    /\ outcome \in {"none", "ok", "failed", "torn"}
    /\ releases \in 1 .. Max({1, MaxReleases}) /\ runs \in 0 .. MaxRuns

\* The entries of the i-th argument that the documentation promises: all that are
\* user-facing, of the revision that was read, for a component that is not denied
\* and that is in the manifest or allowed.
Promised(i) ==
    LET u == urls[i]
        pull == Pulls[u][fetched[i]]
    IN  {e \in Entries(pull.tree, Source[u], ExtractVersion(pull.sets)) :
             ShouldInclude(e.file.component, Components, Cfg)}

\* The entries reported by a filled line, and how often.
Reports(l) ==
    LET expected == {e \in UNION {Promised(i) : i \in DOMAIN urls} :
                         (e.file.changeType = "breaking") <=> (l.name = "breaking")}
    IN  /\ ToSet(l.body) = expected
        /\ \A e \in expected :
               Times(e, l.body) = Cardinality({i \in DOMAIN urls : e \in Promised(i)})

\* A step of a run that fills a scaffold.
Fills == step = "write" /\ urls # <<>> /\ outcome' = "ok"

NewLines == {l \in ToSet(changelog') : l.kind = "filled"} \ ToSet(changelog)

Pending(lines) == Times(Start, lines)

\* The entry is in one of the filled lines.
IsReported(e) ==
    \E l \in ToSet(changelog') :
        l.kind = "filled" /\ l.name \in {"breaking", "other"} /\ e \in ToSet(l.body)

\* What is written reports exactly the entries of all the pull requests that were
\* given, each from one revision of the pull request, whatever was pushed in the
\* meantime and in whatever order the files were ranged over; a breaking change is
\* never among the others (main.go:72-95, generator.go:40).
WrittenIsComplete ==
    [][Fills /\ Pending(changelog) > 0 =>
           /\ \A l \in NewLines : l.name \in {"breaking", "other"} => Reports(l)
           /\ \A i \in DOMAIN urls : \A e \in Promised(i) : IsReported(e)]_vars

\* The versions of the pull requests with at least one user-facing entry, without v1
\* releases if there are v0 releases.
Announced ==
    LET versions == {ExtractVersion(Pulls[urls[i]][fetched[i]].sets) :
                         i \in {j \in DOMAIN fetched :
                                   EntryFiles(Pulls[urls[j]][fetched[j]].tree) # {}}}
        v0 == {v \in versions : v < FirstMajor}
    IN  IF v0 = {} THEN versions ELSE v0

\* The versions that are announced are those of the pull requests with something to
\* report, each once and in ascending order, whatever the order of the arguments
\* (generator.go:41).
VersionsInOrder ==
    [][Fills => \A l \in NewLines : l.name \in {"version", "versions"} =>
           /\ ToSet(l.body) = Announced
           /\ \A i \in 1 .. Len(l.body) - 1 : l.body[i] < l.body[i + 1]]_vars

\* A run writes the changelog at most once, at its end, never with -dry-run, and only
\* after every pull request was read: a run that fails before leaves it as it was
\* (main.go:45-112).
OnlyCompleteRunsWrite ==
    [][changelog' # changelog /\ step \in Running =>
           /\ ~dryRun
           /\ Len(fetched) = Len(urls)
           /\ step' = "ended"]_vars

Markers == {"start", "end", "slot"}

\* A run keeps what is not its business: the headings and what the distribution
\* reports itself, and every line below the last scaffold, where the earlier releases
\* are (changelog.go:39-76).
Lasting(l) == l.kind = "text" /\ l.part # "upstream"

Lastings(lines) == Chosen(lines, Lasting)

Below(lines) ==
    LET last == SelectLastInSeq(lines, LAMBDA l : l.kind \in Markers)
    IN  TrimLeft(SubSeq(lines, last + 1, Len(lines)))

HistoryIsKept ==
    [][outcome' = "ok" /\ step \in Running =>
           /\ Lastings(changelog') = Lastings(changelog)
           /\ IsSuffix(Below(changelog), changelog')]_vars

\* A run that succeeds on a changelog with one scaffold leaves no marker and no
\* placeholder behind, whether it has filled or removed it, also when there are no
\* breaking changes (changelog.go:36).
NoMarkerIsLeft ==
    [][outcome' = "ok" /\ step = "write" /\ Pending(changelog) = 1
           => \A l \in ToSet(changelog') : l.kind \notin Markers]_vars

\* A changelog without markers is finished: no later run changes it, so running the
\* tool again is harmless (changelog.go:39).
FinishedStays ==
    [][(\A l \in ToSet(changelog) : l.kind \notin Markers) /\ step \in Running
           => changelog' = changelog \/ outcome' = "torn"]_vars

\* Every run ends, however often GitHub asks it to wait (github.go:296).
RunEnds == step \in Running ~> step = "ended"

-----------------------------------------------------------------------------
(* A claim of the configuration file that the code does not keep *)

\* config.yaml:3: "Components from manifest.yaml are always included."  It also says
\* that the denylist takes precedence.
ManifestIsIncluded ==
    [][Fills /\ Pending(changelog) > 0 =>
           \A i \in DOMAIN urls :
               LET pull == Pulls[urls[i]][fetched[i]]
               IN  \A e \in Entries(pull.tree, Source[urls[i]], ExtractVersion(pull.sets)) :
                       /\ Normalized[e.file.component] \in Manifest
                       /\ ~MatchesAny(e.file.component, Cfg.denylist)
                       => IsReported(e)]_vars

=============================================================================
