------------------------------- MODULE Changelog -------------------------------
(***************************************************************************)
(* The pure part of the changelog generator                                *)
(* (src/internal/changelog-generator): which upstream entries a release    *)
(* reports, in which order, and what becomes of the lines of CHANGELOG.md. *)
(*                                                                         *)
(* A component is the sequence of the segments of its path; a version is   *)
(* its rank in the order of semver, FirstMajor being the lowest rank with  *)
(* a major version other than 0; a line of the changelog is blank, text, a *)
(* marker, a placeholder or what has replaced one.                         *)
(***************************************************************************)
EXTENDS Selections

CONSTANTS
    FirstMajor,  \* the versions below it are v0.x.y
    Malformed,   \* a string that is not a version
    None         \* an absent version, tree or request

-----------------------------------------------------------------------------
(* Selection: config.go, filter.go *)

\* A pattern is [path, glob]: "pkg/ottl" is <<"pkg", "ottl">> without glob and
\* "cmd/*" is <<"cmd">> with it.
MatchPattern(component, pattern) ==
    /\ IsPrefix(pattern.path, component)
    /\ pattern.glob => component # pattern.path

MatchesAny(component, patterns) == \E p \in patterns : MatchPattern(component, p)

ShouldInclude(component, components, cfg) ==
    /\ ~MatchesAny(component, cfg.denylist)
    /\ component \in components \/ MatchesAny(component, cfg.allowlist)

-----------------------------------------------------------------------------
(* Entries: entry.go, and the names that fetchChloggenFiles skips *)

ChangeTypes == {"breaking", "deprecation", "new_component", "enhancement", "bug_fix"}

IsUserFacing(changeLogs) == changeLogs = {} \/ "user" \in changeLogs

\* The files of a tree that become entries.  Files with another name or without
\* content are passed over in silence, files that do not parse with a warning.
EntryFiles(tree) ==
    {f \in tree : f.named /\ f.changeType \in ChangeTypes /\ IsUserFacing(f.changeLogs)}

Entry(f, source, version) == [file |-> f, source |-> source, version |-> version]

Entries(tree, source, version) == {Entry(f, source, version) : f \in EntryFiles(tree)}

-----------------------------------------------------------------------------
(* Versions: github.go, version.go, generator.go *)

ModuleSets == <<"beta", "contrib-base", "stable">>

\* The version of the first module set that has one; Malformed if that one is not
\* a version, or if there is none.
ExtractVersion(sets) ==
    LET present == {i \in DOMAIN ModuleSets : sets[ModuleSets[i]] # None}
    IN  IF present = {} THEN Malformed ELSE sets[ModuleSets[Min(present)]]

UpstreamVersions(entries) == {e.version : e \in ToSet(entries)}

SortedUniqueVersions(versions) ==
    CHOOSE sorted \in SetToSeqs(versions) :
        \A i, j \in DOMAIN sorted : i < j => sorted[i] < sorted[j]

\* Mutant: every version is announced, releases of v1 modules included.
MutAllVersions(versions) == versions

FilterCollectorReleaseVersions(versions) ==
    LET collector == Chosen(versions, LAMBDA v : v < FirstMajor)
    IN  IF collector # <<>> THEN collector ELSE versions

-----------------------------------------------------------------------------
(* Rendering: generator.go *)

OfType(entries, type, components, cfg) ==
    Chosen(entries, LAMBDA e : /\ e.file.changeType = type
                               /\ ShouldInclude(e.file.component, components, cfg))

WriteEntries(entries) ==
    Chosen(entries, LAMBDA e : e.source = "core")
    \o Chosen(entries, LAMBDA e : e.source = "contrib")

\* An UpstreamContent maps the name of a placeholder to what replaces it.
NoContent == [name \in {"version", "versions", "breaking", "other"} |-> <<>>]

GenerateUpstreamContent(entries, components, cfg) ==
    LET Section(type) == WriteEntries(OfType(entries, type, components, cfg))
        released == FilterCollectorReleaseVersions(
                        SortedUniqueVersions(UpstreamVersions(entries)))
    IN  [version  |-> released,
         versions |-> released,
         breaking |-> Section("breaking"),
         other    |-> Section("deprecation") \o Section("new_component")
                          \o Section("enhancement") \o Section("bug_fix")]

-----------------------------------------------------------------------------
(* The changelog as lines: changelog.go *)

Blank == [kind |-> "blank"]
Start == [kind |-> "start"]
End == [kind |-> "end"]
Slot(name) == [kind |-> "slot", name |-> name]
Filled(name, body) == [kind |-> "filled", name |-> name, body |-> body]
Text(release, part) == [kind |-> "text", release |-> release, part |-> part]

\* What `make chlog-update` writes for a release; `own` tells whether the
\* distribution has entries of its own.
Scaffold(release, own) ==
    <<Text(release, "heading"), Blank,
      Start, Slot("version"), Blank, Text(release, "upstream"), Blank,
      Slot("versions"), Blank, Slot("breaking"), Blank,
      Text(release, "upstream"), Blank, Slot("other"), Blank,
      Text(release, "upstream"), Blank, End, Blank>>
    \o (IF own THEN <<Text(release, "own"), Blank>> ELSE <<>>)
    \o <<Text(release, "previous-version"), Blank>>

\* Every occurrence of a placeholder is replaced.  Without highlights OtherChanges is
\* a note that says so: its placeholder is always replaced.
FillSlots(lines, content) ==
    LET Fill(l) == IF l.kind = "slot" /\ (l.name = "other" \/ content[l.name] # <<>>)
                   THEN Filled(l.name, content[l.name])
                   ELSE l
    IN  [i \in DOMAIN lines |-> Fill(lines[i])]

\* The positions at which "\n\n" followed by the line occurs.
AfterBlank(lines, line) ==
    {i \in DOMAIN lines : i > 2 /\ lines[i] = line /\ lines[i - 1] = Blank}

\* The placeholders that had no content go, with the blank line above.
\* Mutant: a release without breaking changes is not thought of.
MutRemoveVersionsOnly(lines) ==
    LET at == AfterBlank(lines, Slot("versions"))
    IN  Without(lines, at \cup {i - 1 : i \in at})

RemoveSlots(lines) ==
    LET at == AfterBlank(lines, Slot("versions")) \cup AfterBlank(lines, Slot("breaking"))
    IN  Without(lines, at \cup {i - 1 : i \in at})

RemoveStart(lines) == Without(lines, {i \in DOMAIN lines : lines[i] = Start})

RemoveEnd(lines) == Without(lines, AfterBlank(lines, End))

TrimRight(lines) ==
    SubSeq(lines, 1, SelectLastInSeq(lines, LAMBDA l : l # Blank))

TrimLeft(lines) ==
    LET first == SelectInSeq(lines, LAMBDA l : l # Blank)
    IN  IF first = 0 THEN <<>> ELSE SubSeq(lines, first, Len(lines))

\* Mutant: up to the last end marker in place of the first.
MutRemoveToLastEnd(lines) ==
    LET start == SelectInSeq(lines, LAMBDA l : l = Start)
        end   == SelectLastInSeq(lines, LAMBDA l : l = End)
    IN  IF start = 0 \/ end = 0
        THEN lines
        ELSE TrimRight(SubSeq(lines, 1, start - 1)) \o <<Blank>>
                 \o TrimLeft(SubSeq(lines, end + 1, Len(lines)))

\* Mutant: a missing marker goes unnoticed.
MutRemoveUnconditionally(lines) ==
    LET start == SelectInSeq(lines, LAMBDA l : l = Start)
        end   == SelectInSeq(lines, LAMBDA l : l = End)
    IN  TrimRight(SubSeq(lines, 1, start - 1)) \o <<Blank>>
            \o TrimLeft(SubSeq(lines, end + 1, Len(lines)))

RemoveUpstreamSection(lines) ==
    LET start == SelectInSeq(lines, LAMBDA l : l = Start)
        end   == SelectInSeq(lines, LAMBDA l : l = End)
    IN  IF start = 0 \/ end = 0
        THEN lines
        ELSE TrimRight(SubSeq(lines, 1, start - 1)) \o <<Blank>>
                 \o TrimLeft(SubSeq(lines, end + 1, Len(lines)))

FillUpstreamPlaceholders(lines, content) ==
    IF content.version = <<>>
    THEN RemoveUpstreamSection(lines)
    ELSE RemoveEnd(RemoveStart(RemoveSlots(FillSlots(lines, content))))

=============================================================================
