-------------------------- MODULE ProjectGenerator --------------------------
(***************************************************************************)
(* generate_project of the simulator generator: what a run does to the     *)
(* file system, step by step, when a step may fail and the process may be  *)
(* killed between two of them.                                             *)
(*                                                                         *)
(* A path is a sequence of components from the root; a relative one has    *)
(* been joined to the current directory.  Links lead to directories.       *)
(***************************************************************************)
EXTENDS Integers, FiniteSets, SequencesExt

CONSTANTS
  Names,         \* what a component of a path may be
  Requests,      \* [output, accepted]: the directory, and whether crate name, domains
                 \* and design pass validate_crate_name, select_domains and generate
  Directories,   \* the directories there are at first
  Links,         \* path of a link to the directory it leads to
  UserFiles,     \* files the user may write
  RuntimeDir,    \* where the runtime crate is
  MaxRuns        \* bound: runs of the generator

Paths == Seq(Names)
Places == Seq(Names \ {".."})    \* what ".." and links have been resolved in

ASSUME RequestsArePaths == \A r \in Requests : r.output \in Paths
ASSUME DirectoriesAreNested ==
  /\ Directories \subseteq Places /\ <<>> \in Directories
  /\ \A d \in Directories : d # <<>> => Front(d) \in Directories
ASSUME LinksLeadToDirectories ==
  \A l \in DOMAIN Links :
    /\ l \in Places \ Directories /\ l # <<>> /\ Front(l) \in Directories
    /\ Links[l] \in Directories
ASSUME UserFilesAreFiles == UserFiles \subseteq Places \ ({<<>>} \cup DOMAIN Links)
ASSUME RuntimeIsThere == RuntimeDir \in Directories /\ MaxRuns \in Nat

VARIABLES
  directories,   \* the directories there are
  files,         \* path to [run, whole]; run 0 is the user
  request,       \* of the current or last run
  step,          \* "idle", "check", "create", "write"
  created,       \* how many components of output/src exist for sure
  written,       \* how many of the project's files are written
  dependency,    \* the runtime's path in the manifest
  result,        \* of the last run: "none", "Refused", "Failed", "Killed", "Ok"
  runs,          \* how many runs were started
  before         \* the file system when the run started

vars == <<directories, files, request, step, created, written, dependency, result, runs, before>>

UserContent == [run |-> 0, whole |-> TRUE]

-----------------------------------------------------------------------------
(* The file system.                                                        *)

Parent(path) == IF path = <<>> THEN path ELSE Front(path)
Follow(path) == IF path \in DOMAIN Links THEN Links[path] ELSE path
Walk(at, component) == IF component = ".." THEN Parent(at) ELSE Follow(Append(at, component))
Resolve(path) == FoldLeft(Walk, <<>>, path)
Prefix(path, n) == SubSeq(path, 1, n)

IsDirectory(path) == \A n \in 0 .. Len(path) : Resolve(Prefix(path, n)) \in directories
Exists(path) == /\ path # <<>> => IsDirectory(Front(path))
                /\ Resolve(path) \in directories \cup DOMAIN files
Entries(path) ==
  {p \in directories \cup DOMAIN files \cup DOMAIN Links : p # <<>> /\ Front(p) = Resolve(path)}

\* The files of the project, in the order they are written.
ProjectFiles ==
  << <<"Cargo.toml">>, <<"src", "lib.rs">>, <<"src", "types.rs">>, <<"src", "input.rs">>,
     <<"src", "output.rs">>, <<"src", "state.rs">> >>
Located(output, k) == Resolve(output \o ProjectFiles[k])
SourceDir(output) == output \o <<"src">>

ASSUME ProjectIsNamed ==
  /\ ".." \in Names
  /\ {"Cargo.toml", "src", "lib.rs", "types.rs", "input.rs", "output.rs", "state.rs"}
       \subseteq Names \ {".."}

-----------------------------------------------------------------------------
(* absolute_normalized and relative_path.                                  *)

\* Without the file system: ".." removes the component before it.
Normalizes(path) ==
  \A n \in DOMAIN path :
    2 * Cardinality({i \in 1 .. n : path[i] = ".."}) <= n
Normalized(path) ==
  FoldLeft(LAMBDA at, c : IF c = ".." THEN Parent(at) ELSE Append(at, c), <<>>, path)

\* The part that exists is resolved, the rest is appended.
AbsoluteUnresolved(path) == Normalized(path)    \* mutant: links are not followed
AbsoluteNormalized(path) ==
  LET plain == Normalized(path)
      n == CHOOSE k \in 0 .. Len(plain) :
             /\ Exists(Prefix(plain, k))
             /\ k < Len(plain) => ~ Exists(Prefix(plain, k + 1))
  IN  Resolve(Prefix(plain, n)) \o SubSeq(plain, n + 1, Len(plain))

RelativePath(from, to) ==
  LET source == AbsoluteNormalized(from)
      target == AbsoluteNormalized(to)
      common == CHOOSE n \in 0 .. Len(source) :
                  /\ IsPrefix(Prefix(source, n), target)
                  /\ n < Len(source) => ~ IsPrefix(Prefix(source, n + 1), target)
  IN  [i \in 1 .. Len(source) - common |-> ".."] \o SubSeq(target, common + 1, Len(target))

-----------------------------------------------------------------------------
Init ==
  /\ directories = Directories
  /\ files = <<>>
  /\ request \in {r \in Requests : r.accepted}
  /\ step = "idle" /\ created = 0 /\ written = 0 /\ dependency = <<>>
  /\ result = "none" /\ runs = 0
  /\ before = [files |-> files, directories |-> directories]

Unchanged == UNCHANGED <<request, dependency, runs, before>>

Finish(outcome) == step' = "idle" /\ result' = outcome

ThenCreate(at) ==                   \* mutant: the directory is created, then looked at
  CASE at = "idle" -> "create" [] at = "create" -> "check" [] at = "check" -> "write"
Then(at) ==
  CASE at = "idle" -> "check" [] at = "check" -> "create" [] at = "create" -> "write"

\* Everything that is computed before the file system is touched.
Start ==
  /\ step = "idle" /\ runs < MaxRuns
  /\ runs' = runs + 1
  /\ request' \in Requests
  /\ before' = [files |-> files, directories |-> directories]
  /\ created' = 0 /\ written' = 0
  /\ IF request'.accepted /\ Normalizes(request'.output)
     THEN /\ dependency' = RelativePath(AbsoluteNormalized(request'.output), RuntimeDir)
          /\ step' = Then("idle") /\ result' = "none"
     ELSE Finish("Refused") /\ UNCHANGED dependency
  /\ UNCHANGED <<directories, files>>

\* Whether the run may go on: there is no such directory, or nothing in it.
MayUseAnyDirectory(output) ==                  \* mutant: a project is regenerated in place
  Exists(output) => IsDirectory(output)
MayUse(output) ==
  Exists(output) => IsDirectory(output) /\ Entries(output) = {}

Check ==
  /\ step = "check"
  /\ IF MayUse(request.output) THEN step' = Then("check") /\ UNCHANGED result ELSE Finish("Refused")
  /\ UNCHANGED <<directories, files, created, written>> /\ Unchanged

\* create_dir_all, one directory at a time; a file in the way is an error.
Create ==
  /\ step = "create" /\ created < Len(SourceDir(request.output))
  /\ LET next == Resolve(Prefix(SourceDir(request.output), created + 1)) IN
     \/ /\ next \notin DOMAIN files
        /\ directories' = directories \cup {next}
        /\ created' = created + 1
        /\ step' = IF created' = Len(SourceDir(request.output)) THEN Then("create") ELSE step
        /\ UNCHANGED result
     \/ Finish("Failed") /\ UNCHANGED <<directories, created>>
  /\ UNCHANGED <<files, written>> /\ Unchanged

\* fs::write: the file is there as soon as it is opened, and whole at the end.
FinishIfLastButOne(count) == count = Len(ProjectFiles) - 1   \* mutant: a file too few
AllWritten(count) == count = Len(ProjectFiles)

Content(whole) == [run |-> runs, whole |-> whole]
Put(path, content) == [f \in DOMAIN files \cup {path} |-> IF f = path THEN content ELSE files[f]]

\* What a write that does not come to its end may leave.
Torn ==
  LET path == Located(request.output, written + 1)
  IN  {Put(p, Content(FALSE)) : p \in {path} \ directories}

Write ==
  /\ step = "write"
  /\ LET path == Located(request.output, written + 1) IN
     \/ /\ path \notin directories
        /\ files' = Put(path, Content(TRUE))
        /\ written' = written + 1
        /\ IF AllWritten(written') THEN Finish("Ok") ELSE UNCHANGED <<step, result>>
     \/ files' \in {files} \cup Torn /\ Finish("Failed") /\ UNCHANGED written
  /\ UNCHANGED <<directories, created>> /\ Unchanged

\* The process is killed; a file it was writing is not whole.
Kill ==
  /\ step # "idle"
  /\ files' \in {files} \cup (IF step = "write" THEN Torn ELSE {})
  /\ Finish("Killed")
  /\ UNCHANGED <<directories, created, written>> /\ Unchanged

\* Between two runs the user writes a file, or removes the output directory
\* unless the runtime or what a link needs is in it.
UserWrites ==
  /\ step = "idle"
  /\ \E path \in UserFiles :
       /\ Parent(path) \in directories /\ path \notin directories
       /\ files' = Put(path, UserContent)
  /\ result' = "none"
  /\ UNCHANGED <<directories, step, created, written>> /\ Unchanged

Within(path, directory) == IsPrefix(directory, path)
UserRemoves ==
  /\ step = "idle"
  /\ \E directory \in {Resolve(r.output) : r \in Requests} :
       /\ \A path \in {RuntimeDir} \cup DOMAIN Links \cup {Links[l] : l \in DOMAIN Links} :
            ~ Within(path, directory)
       /\ directories' = {d \in directories : ~ Within(d, directory)}
       /\ files' = [f \in {p \in DOMAIN files : ~ Within(p, directory)} |-> files[f]]
  /\ result' = "none"
  /\ UNCHANGED <<step, created, written>> /\ Unchanged

GeneratorStep == Start \/ Check \/ Create \/ Write \/ Kill
Next == GeneratorStep \/ UserWrites \/ UserRemoves
Spec == Init /\ [][Next]_vars

-----------------------------------------------------------------------------
(* Properties.                                                             *)

TypeOK ==
  /\ step \in {"idle", "check", "create", "write"}
  /\ result \in {"none", "Refused", "Failed", "Killed", "Ok"}
  /\ created \in 0 .. Len(SourceDir(request.output))
  /\ written \in 0 .. Len(ProjectFiles) /\ runs \in 0 .. MaxRuns
  /\ <<>> \in directories
  /\ \A f \in DOMAIN files : files[f].run \in 0 .. runs /\ Parent(f) \in directories

\* Every ".." of the path leaves a directory that was there before the run.
\* Through one that was not, exists() finds nothing, and create_dir_all makes
\* the directory and with it the path.
LeavesThere ==
  \A n \in DOMAIN request.output :
    request.output[n] = ".." => Resolve(Prefix(request.output, n - 1)) \in before.directories

\* A run never overwrites or removes a file that it has not written itself:
\* not the user's, and not what an earlier run left behind when it failed or
\* was killed (refuses_to_overwrite_a_nonempty_directory).
OthersFilesKept ==
  [][GeneratorStep /\ LeavesThere =>
       \A f \in DOMAIN files :
         files[f].run # runs' => f \in DOMAIN files' /\ files'[f] = files[f]]_vars

\* A run that refuses has changed nothing.
RefusalChangesNothing ==
  result = "Refused" => before = [files |-> files, directories |-> directories]

\* After a run that succeeded the directory holds the files of this run, all
\* of them whole, and nothing else; retries after failed runs included.
SuccessIsComplete ==
  result = "Ok" /\ LeavesThere =>
    /\ {f \in DOMAIN files : Within(f, Resolve(request.output))}
         = {Located(request.output, k) : k \in DOMAIN ProjectFiles}
    /\ \A k \in DOMAIN ProjectFiles : files[Located(request.output, k)] = Content(TRUE)

\* And from where the manifest was written its dependency leads to the
\* runtime, through whichever links the output directory was reached.  Only a
\* path that leaves a link by ".." is excepted: removing the two components
\* makes another path of it, and the dependency is computed from that one.
DependencyLeadsToRuntime ==
  result = "Ok" /\ Resolve(Normalized(request.output)) = Resolve(request.output) =>
    Resolve(Resolve(request.output) \o dependency) = RuntimeDir
=============================================================================
