----------------------------- MODULE VersionInfo -----------------------------
(***************************************************************************)
(* params/version.go of the challenge's go-ethereum                       *)
(* (src/flags/wrong-price/go-ethereum/params/version.go:26-145): the       *)
(* version strings and RuntimeInfo, which reads the build information Go  *)
(* embeds in a binary.                                                     *)
(*                                                                         *)
(* A version string is the sequence of its "-"-separated fields; a field  *)
(* is a record of a tag and a sequence of numbers (the version triple, the *)
(* hex digits of a commit), so that every field has the same type.  A     *)
(* package or module path is the sequence of its "/"-separated elements,   *)
(* and strings.HasPrefix on paths is IsPrefix on those sequences.  The     *)
(* state is one input: a list of VCS settings or the build information   *)
(* of the running binary; nothing changes it.                              *)
(***************************************************************************)
EXTENDS Naturals, Sequences, SequencesExt

CONSTANTS
    VersionMeta,   \* "unstable" in this source; "stable" on a release
    HexDigits,     \* the digits commit hashes are written with
    MaxCommitLen,  \* the length of the vcs.revision hashes
    Dates          \* gitDate values, "" included

ASSUME VersionMetaAssumption == VersionMeta \in {"stable", "unstable"}
ASSUME MaxCommitLenAssumption == MaxCommitLen \in Nat
ASSUME DatesAssumption == "" \in Dates

VersionMajor == 1
VersionMinor == 11
VersionPatch == 0

OurPath == <<"github.com", "ethereum", "go-ethereum">>

Field(tag, digits) == [tag |-> tag, digits |-> digits]

\* Version: fmt.Sprintf("%d.%d.%d", major, minor, patch).
Version == <<Field("version", <<VersionMajor, VersionMinor, VersionPatch>>)>>

\* VersionWithMeta: Version, then "-" + VersionMeta unless it is empty.
VersionWithMeta ==
    IF VersionMeta # "" THEN Version \o <<Field(VersionMeta, <<>>)>> ELSE Version

\* "-" + gitCommit[:8] when the commit has at least 8 digits.
CommitSuffix(gitCommit) ==
    IF Len(gitCommit) >= 8 THEN <<Field("commit", SubSeq(gitCommit, 1, 8))>>
                           ELSE <<>>

ArchiveVersion(gitCommit) ==
    Version \o (IF VersionMeta # "stable" THEN <<Field(VersionMeta, <<>>)>> ELSE <<>>)
            \o CommitSuffix(gitCommit)

VersionWithCommit(gitCommit, gitDate) ==
    VersionWithMeta \o CommitSuffix(gitCommit)
        \o (IF VersionMeta # "stable" /\ gitDate # "" THEN <<Field(gitDate, <<>>)>>
                                                     ELSE <<>>)

-----------------------------------------------------------------------------
(***************************************************************************)
(* Build information (runtime/debug.BuildInfo) and the VCS settings in it. *)
(***************************************************************************)
VcsKeys == {"vcs.revision", "vcs.modified", "vcs.time"}

\* A character that is not a hex digit, and the revision "unknown": seven
\* such characters, too short for a commit suffix.
NonHex == 16
UnknownRevision == [i \in 1..7 |-> NonHex]

NoVcs == [revision |-> UnknownRevision, dirty |-> FALSE, date |-> "unknown"]

\* One iteration of vcsInfo's loop over info.Settings.
VcsStep(acc, v) ==
    CASE v.key = "vcs.revision" -> [acc EXCEPT !.revision = v.value]
      [] v.key = "vcs.modified" -> IF v.value = "true" THEN [acc EXCEPT !.dirty = TRUE]
                                                       ELSE acc
      [] v.key = "vcs.time"     -> [acc EXCEPT !.date = v.value]
      [] OTHER                  -> acc

\* Mutant: any vcs.modified setting marks the build dirty.
VcsInfoAnyModified(settings) ==
    FoldLeft(LAMBDA acc, v :
                 IF v.key = "vcs.modified" THEN [acc EXCEPT !.dirty = TRUE]
                                            ELSE VcsStep(acc, v),
             NoVcs, settings)

\* vcsInfo: the loop over the settings of debug.ReadBuildInfo() (it reads
\* the build information again instead of using its argument, which is the
\* same value).
VcsInfo(settings) == FoldLeft(VcsStep, NoVcs, settings)

\* findModule: the main module when the main package's path is ourPath,
\* otherwise the dependency with that module path, otherwise nil.
FindModule(info, path) ==
    IF info.path = path THEN "main"
    ELSE IF path \in info.deps THEN "dep"
    ELSE "nil"

\* RuntimeInfo: without build information the plain version; for a main
\* package under ourPath the version with the VCS revision and date and the
\* dirty mark; for any other main package the version of the go-ethereum
\* module found by findModule, whose result is dereferenced without a nil
\* check. The Go version, GOARCH and GOOS appended to all are left out.
RuntimeInfo(info) ==
    CASE ~info.ok ->
            [kind |-> "plain", version |-> VersionWithMeta, dirty |-> FALSE]
      [] IsPrefix(OurPath, info.path) ->
            LET vcs == VcsInfo(info.settings)
            IN  [kind |-> "ours", version |-> VersionWithCommit(vcs.revision, vcs.date),
                 dirty |-> vcs.dirty]
      [] FindModule(info, OurPath) = "nil" ->
            [kind |-> "panic", version |-> <<>>, dirty |-> FALSE]
      [] OTHER ->
            [kind |-> "module", version |-> <<>>, dirty |-> FALSE]

-----------------------------------------------------------------------------
(***************************************************************************)
(* The inputs. VCS settings as the Go toolchain writes them (a revision   *)
(* of MaxCommitLen digits), each key at most once, in any order, with a   *)
(* setting vcsInfo does not read; the build information                   *)
(* of a binary that links this package, so whose main module or one of    *)
(* whose dependencies is go-ethereum.                                      *)
(***************************************************************************)
SettingValues(k) ==
    CASE k = "vcs.revision" -> {[i \in 1..MaxCommitLen |-> d] : d \in HexDigits}
      [] k = "vcs.modified" -> {"true", "false"}
      [] k = "vcs.time"     -> Dates \ {""}
      [] OTHER              -> {"gc"}

Settings == UNION {[key : {k}, value : SettingValues(k)] : k \in VcsKeys \cup {"-compiler"}}

SettingLists ==
    {s \in UNION {[1..n -> Settings] : n \in 0..4} :
        \A i, j \in DOMAIN s : i # j => s[i].key # s[j].key}

\* Main packages: geth, a program run as "go run file.go" (Go names its
\* package command-line-arguments), and a program of another module.
GethMain == OurPath \o <<"cmd", "geth">>
FileMain == <<"command-line-arguments">>
OtherMain == <<"example.com", "tool">>

Infos ==
    {i \in [ok : BOOLEAN, path : {GethMain, FileMain, OtherMain},
            main : {OurPath, OtherMain}, deps : SUBSET {OurPath},
            settings : {<<>>, <<[key |-> "vcs.modified", value |-> "true"]>>}] :
        /\ i.path = GethMain => i.main = OurPath
        /\ i.path = OtherMain => i.main = OtherMain
        /\ i.main = OurPath \/ OurPath \in i.deps
        /\ i.main = OurPath => i.deps = {}}

VARIABLE input

Inputs ==
    {[kind |-> "settings", settings |-> s] : s \in SettingLists}
    \cup {[kind |-> "info", info |-> i] : i \in Infos}

VInit == input \in Inputs

VSpec == VInit /\ [][UNCHANGED input]_input

VTypeOK == input \in Inputs

-----------------------------------------------------------------------------
\* vcsInfo's loop reports, for each key, the value of the setting with that
\* key, and "dirty" exactly when vcs.modified is "true".
VcsInfoMatchesReference ==
    input.kind = "settings" =>
        LET s == input.settings
            at(k) == SelectLastInSeq(s, LAMBDA v : v.key = k)
        IN  VcsInfo(s) =
              [revision |-> IF at("vcs.revision") = 0 THEN UnknownRevision
                            ELSE s[at("vcs.revision")].value,
               dirty    |-> at("vcs.modified") # 0 /\ s[at("vcs.modified")].value = "true",
               date     |-> IF at("vcs.time") = 0 THEN "unknown"
                            ELSE s[at("vcs.time")].value]

\* RuntimeInfo does not crash in any binary that links go-ethereum: its
\* default branch dereferences what findModule returns.
RuntimeInfoNoPanic ==
    input.kind = "info" => RuntimeInfo(input.info).kind # "panic"

=============================================================================
