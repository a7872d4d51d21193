----------------------------- MODULE CompatRunner -----------------------------
(***************************************************************************)
(* internal/corecompat: verify the application against pairs of versions   *)
(* of the Spice core and toolchain.  For each pair the runner prepares and *)
(* then verifies: it resolves both versions, writes an alternate modfile,  *)
(* checks what minimal version selection makes of it, runs vet and the     *)
(* tests, copies the application to a mirror with its own vendor tree and  *)
(* runs the spice tool there.  Every go command can fail, the 15-minute    *)
(* deadline included (no go command follows one that failed, so the done   *)
(* context needs no variable), and those run in the repository may write   *)
(* to it.  Cleanups are Go defers: a stack, run on return.                 *)
(***************************************************************************)
EXTENDS Naturals, Sequences, FiniteSets

CONSTANTS
    MaxVersion,   \* versions are 1..MaxVersion, ordered as semver orders them
    Paths,        \* regular files of the repository, .git left aside
    Vendored,     \* those under vendor/
    Digests,      \* SHA-256 digests of file contents
    Committed,    \* the repository as it was checked out
    MaxLeftovers  \* bound: temporary files whose removal may fail

Versions  == 1..MaxVersion
Alias     == 0  \* "latest" or a branch: go resolves it, to another string
Modules   == {"core", "toolchain"}
Pairs     == [Modules -> Versions \cup {Alias}]
NoModule  == [version |-> Alias, indirect |-> FALSE]  \* not in go.mod
Requirements == {NoModule} \cup [version : Versions, indirect : BOOLEAN]
Repositories == UNION {[S -> Digests] : S \in SUBSET Paths}
ToolChecks   == {"verify", "generate", "build"}
Checks       == {"vet", "test"} \cup ToolChecks

ASSUME ConstantsAssumption ==
    /\ MaxVersion \in Nat \ {0}
    /\ IsFiniteSet(Paths) /\ Vendored \subseteq Paths
    /\ Committed \in Repositories
    /\ MaxLeftovers \in Nat

VARIABLES
    line,      \* the -line flag
    contract,  \* spice-compatibility.json: the minimum and the current pair
    goMod,     \* what go.mod requires of each module
    graph,     \* the versions the rest of the module graph asks for
    pc,        \* where the run is
    todo,      \* boundaries still to run
    pair,      \* the boundary being run
    phase,     \* "prepare" or "verify"
    repo,      \* contents of the repository
    before,    \* runBoundary's before
    require,   \* requirements of the current alternate modfile
    mirror,    \* the mirror: its requirements and application files
    made,      \* temporary names drawn so far
    tmp,       \* temporary files on disk
    defers,    \* deferred calls: the kind and the temporary name of each
    warned,    \* files a "warning: remove" was printed for
    errors,    \* what the returned error joins
    ran,       \* auxiliary: checks that passed, with the versions selected
    judged,    \* auxiliary: application files the spice tool accepted
    code       \* exit status

inputs == <<line, contract, goMod, graph>>
passed == <<ran, judged>>
files  == <<require, mirror, made, tmp, defers, warned>>
vars   == <<inputs, pc, todo, pair, phase, repo, before, files, errors, passed,
            code>>

NoPair == [m \in Modules |-> Alias]
Empty  == [p \in {} |-> 0]

Init ==
    /\ line \in {"minimum", "current", "all", "other"}
    /\ contract \in [minimum : Pairs, current : Pairs]
    /\ goMod \in [Modules -> Requirements]
    /\ graph \in [Modules -> Versions]
    /\ pc = "execute"
    /\ todo = <<>>
    /\ pair = NoPair
    /\ phase = "prepare"
    /\ repo = Committed
    /\ before = Empty
    /\ require = NoPair
    /\ mirror = [require |-> NoPair, files |-> Empty]
    /\ made = 0
    /\ tmp = {}
    /\ defers = <<>>
    /\ warned = {}
    /\ errors = {}
    /\ ran = {}
    /\ judged = {}
    /\ code = 9  \* still running

-----------------------------------------------------------------------------
(* Helpers                                                                 *)

Goto(label) == pc' = label /\ UNCHANGED errors

\* A return with an error: the deferred calls run first, if there are any.
Fail ==
    /\ errors' = errors \cup {"step"}
    /\ pc' = IF defers = <<>> THEN "exit" ELSE "return"

\* goCommand and captureGo in the repository: -mod=mod lets go rewrite
\* go.mod and go.sum, and tests may write anything.
RunInRepository == repo' \in Repositories

FilesOf(kind, name) ==
    IF kind = "mirror" THEN {<<"mirror", name>>}
                       ELSE {<<"mod", name>>, <<"sum", name>>}

\* cleanup: remove what exists of `own`; a failed removal is only a warning.
Remove(own, present) ==
    \E kept \in SUBSET (own \cap present) :
        /\ Cardinality(warned \cup kept) <= MaxLeftovers
        /\ tmp' = (present \ own) \cup kept
        /\ warned' = warned \cup kept

\* go's minimal version selection for a module file.
Selected(mod) ==
    [m \in Modules |-> IF graph[m] > mod[m] THEN graph[m] ELSE mod[m]]

\* copyApplication leaves vendor/ behind.
Application(contents) ==
    [p \in DOMAIN contents \ Vendored |-> contents[p]]

-----------------------------------------------------------------------------
(* execute and run                                                         *)

\* Flags and positional arguments (2), the Go version and the root (1).
Execute ==
    /\ pc = "execute"
    /\ \/ pc' = "contract" /\ UNCHANGED code
       \/ pc' = "done" /\ code' \in {1, 2}
    /\ UNCHANGED <<inputs, todo, pair, phase, repo, before, files, errors, passed>>

\* Unreadable, undecodable and invalid contracts fail.
ReadContract ==
    /\ pc = "contract"
    /\ Goto("metadata") \/ Fail
    /\ UNCHANGED <<inputs, todo, pair, phase, repo, before, files, passed, code>>

\* The toolchain may be required indirectly, the core may not.
RequirementVersion(m) ==
    IF m = "core" /\ goMod[m].indirect THEN Alias ELSE goMod[m].version

ValidateModuleContract ==
    \A m \in Modules :
        /\ RequirementVersion(m) # Alias
        /\ RequirementVersion(m) = contract.minimum[m]

\* go mod edit -json only reads; undeclared tools are a failure too.
ReadModuleMetadata ==
    /\ pc = "metadata"
    /\ \/ ValidateModuleContract /\ Goto("boundaries")
       \/ Fail
    /\ UNCHANGED <<inputs, todo, pair, phase, repo, before, files, passed, code>>

\* Mutant of Boundaries: one run when the core versions agree.
BoundariesByCore(l) ==
    CASE l = "minimum" -> <<contract.minimum>>
      [] l = "current" -> <<contract.current>>
      [] l = "all" ->
            IF contract.minimum["core"] = contract.current["core"]
            THEN <<contract.minimum>>
            ELSE <<contract.minimum, contract.current>>

Boundaries(l) ==
    CASE l = "minimum" -> <<contract.minimum>>
      [] l = "current" -> <<contract.current>>
      [] l = "all" ->
            IF \A m \in Modules : contract.minimum[m] = contract.current[m]
            THEN <<contract.minimum>>
            ELSE <<contract.minimum, contract.current>>

SelectBoundaries ==
    /\ pc = "boundaries"
    /\ \/ line # "other" /\ todo' = Boundaries(line) /\ Goto("loop")
       \/ line = "other" /\ Fail /\ UNCHANGED todo
    /\ UNCHANGED <<inputs, pair, phase, repo, before, files, passed, code>>

\* runBoundary up to its defer: an unreadable repository returns before it.
RunBoundary ==
    /\ pc = "loop" /\ todo # <<>>
    /\ pair' = Head(todo) /\ todo' = Tail(todo)
    /\ phase' = "prepare"
    /\ \/ /\ before' = repo
          /\ defers' = <<[kind |-> "compare", name |-> 0]>>
          /\ Goto("core")
       \/ Fail /\ UNCHANGED <<before, defers>>
    /\ UNCHANGED <<inputs, repo, require, mirror, made, tmp, warned, passed, code>>

LoopDone ==
    /\ pc = "loop" /\ todo = <<>>
    /\ Goto("exit")
    /\ UNCHANGED <<inputs, todo, pair, phase, repo, before, files, passed, code>>

Exit ==
    /\ pc = "exit"
    /\ code' = IF errors = {} THEN 0 ELSE 1
    /\ Goto("done")
    /\ UNCHANGED <<inputs, todo, pair, phase, repo, before, files, passed>>

-----------------------------------------------------------------------------
(* prepareBoundary and verifyBoundary                                      *)

AfterModule(m) == IF m = "core" THEN "toolchain"
                  ELSE IF phase = "prepare" THEN "modfile" ELSE "tools"

\* go list -m module@version must answer with the version it was asked for.
ResolveExactModule(m) ==
    /\ pc = m /\ phase = "prepare"
    /\ \/ \E resolved \in Versions :
            /\ pair[m] # Alias => resolved = pair[m]
            /\ IF resolved = pair[m] THEN Goto(AfterModule(m)) ELSE Fail
       \/ Fail
    /\ RunInRepository
    /\ UNCHANGED <<inputs, todo, pair, phase, before, files, passed, code>>

\* alternateModfile, first half: go.mod and go.sum are read before the
\* temporary file exists.
CreateModfile ==
    /\ pc = "modfile"
    /\ \/ /\ made' = made + 1
          /\ tmp' = tmp \cup {<<"mod", made + 1>>}
          /\ Goto("edit")
       \/ Fail /\ UNCHANGED <<made, tmp>>
    /\ UNCHANGED <<inputs, todo, pair, phase, repo, before, require, mirror,
                   defers, warned, passed, code>>

\* Mutant of EditModfile: a failed edit forgets the cleanup.
EditModfileLeaky ==
    /\ pc = "edit"
    /\ tmp' = tmp \cup {<<"sum", made>>}
    /\ \/ /\ require' = pair
          /\ defers' = <<[kind |-> "modfile", name |-> made]>> \o defers
          /\ Goto(IF phase = "prepare" THEN "download" ELSE "core")
       \/ Fail /\ UNCHANGED <<require, defers>>
    /\ UNCHANGED <<inputs, todo, pair, phase, repo, before, mirror, made,
                   warned, passed, code>>

\* The rest of alternateModfile: fill both files and edit the requirements;
\* go.sum may or may not exist when a step fails.  The caller defers cleanup.
EditModfile ==
    /\ pc = "edit"
    /\ \/ /\ tmp' = tmp \cup {<<"sum", made>>}
          /\ require' = pair
          /\ defers' = <<[kind |-> "modfile", name |-> made]>> \o defers
          /\ Goto(IF phase = "prepare" THEN "download" ELSE "core")
          /\ UNCHANGED warned
       \/ /\ \E present \in {tmp, tmp \cup {<<"sum", made>>}} :
                Remove(FilesOf("modfile", made), present)
          /\ Fail
          /\ UNCHANGED <<require, defers>>
    /\ UNCHANGED <<inputs, todo, pair, phase, repo, before, mirror, made, passed,
                   code>>

\* go mod download; prepareBoundary returns either way.
DownloadGraph ==
    /\ pc = "download"
    /\ Goto("return") \/ Fail
    /\ RunInRepository
    /\ UNCHANGED <<inputs, todo, pair, phase, before, files, passed, code>>

VerifySelectedModule(m) ==
    /\ pc = m /\ phase = "verify"
    /\ \/ Selected(require)[m] = pair[m] /\ Goto(AfterModule(m))
       \/ Fail
    /\ RunInRepository
    /\ UNCHANGED <<inputs, todo, pair, phase, before, files, passed, code>>

\* Each authorized tool is a main package of the selected toolchain.
VerifyToolModules ==
    /\ pc = "tools"
    /\ \/ Selected(require)["toolchain"] = pair["toolchain"] /\ Goto("packages")
       \/ Fail
    /\ RunInRepository
    /\ UNCHANGED <<inputs, todo, pair, phase, before, files, passed, code>>

ProductPackages ==
    /\ pc = "packages"
    /\ Goto("vet") \/ Fail
    /\ RunInRepository
    /\ UNCHANGED <<inputs, todo, pair, phase, before, files, passed, code>>

Passed(check, mod) ==
    ran' = ran \cup {[check |-> check, versions |-> Selected(mod)]}

\* go vet and go test, in the repository with the alternate modfile.
RunGoCheck(check) ==
    /\ pc = check /\ check \in {"vet", "test"}
    /\ \/ /\ Passed(check, require) /\ UNCHANGED judged
          /\ Goto(IF check = "vet" THEN "test" ELSE "mirror")
       \/ Fail /\ UNCHANGED passed
    /\ RunInRepository
    /\ UNCHANGED <<inputs, todo, pair, phase, before, files, code>>

\* applicationMirror: a failure after MkdirTemp removes the mirror at once.
ApplicationMirror ==
    /\ pc = "mirror"
    /\ made' = made + 1
    /\ \/ /\ tmp' = tmp \cup {<<"mirror", made + 1>>}
          /\ mirror' = [require |-> require, files |-> Application(repo)]
          /\ defers' = <<[kind |-> "mirror", name |-> made + 1]>> \o defers
          /\ Goto("verify")
          /\ UNCHANGED warned
       \/ /\ \E present \in {tmp, tmp \cup {<<"mirror", made + 1>>}} :
                Remove(FilesOf("mirror", made + 1), present)
          /\ Fail
          /\ UNCHANGED <<mirror, defers>>
    /\ UNCHANGED <<inputs, todo, pair, phase, repo, before, require, passed, code>>

AfterTool(check) == CASE check = "verify"   -> "generate"
                      [] check = "generate" -> "build"
                      [] check = "build"    -> "return"

\* Mutant of RunSpiceTool: the tool runs in the repository.
RunSpiceToolInPlace(check) ==
    /\ pc = check /\ check \in ToolChecks
    /\ \/ /\ Passed(check, require)
          /\ judged' = judged \cup {Application(repo)}
          /\ Goto(AfterTool(check))
       \/ Fail /\ UNCHANGED passed
    /\ RunInRepository
    /\ UNCHANGED <<inputs, todo, pair, phase, before, files, code>>

\* go tool spice verify, generate --check and build, in the mirror.
RunSpiceTool(check) ==
    /\ pc = check /\ check \in ToolChecks
    /\ \/ /\ Passed(check, mirror.require)
          /\ judged' = judged \cup {mirror.files}
          /\ Goto(AfterTool(check))
       \/ Fail /\ UNCHANGED passed
    /\ UNCHANGED <<inputs, todo, pair, phase, repo, before, files, code>>

-----------------------------------------------------------------------------
(* Returns                                                                 *)

\* The deferred cleanup of a modfile or of the mirror.
DeferredCleanup ==
    /\ pc = "return" /\ Head(defers).kind # "compare"
    /\ Remove(FilesOf(Head(defers).kind, Head(defers).name), tmp)
    /\ defers' = Tail(defers)
    /\ UNCHANGED <<inputs, pc, todo, pair, phase, repo, before, require, mirror,
                   made, errors, passed, code>>

\* prepareBoundary returned nil: verifyBoundary is called.
Prepared ==
    /\ pc = "return" /\ Head(defers).kind = "compare"
    /\ phase = "prepare" /\ errors = {}
    /\ phase' = "verify"
    /\ Goto("modfile")
    /\ UNCHANGED <<inputs, todo, pair, repo, before, files, passed, code>>

\* Mutant of MapsEqual: sizes are not compared.
MapsCovered(left, right) ==
    \A p \in DOMAIN left : p \in DOMAIN right /\ right[p] = left[p]

\* Equal sizes, and each digest of left found in right; a path missing from
\* right reads as the zero digest, which is the digest of nothing.
MapsEqual(left, right) ==
    /\ Cardinality(DOMAIN left) = Cardinality(DOMAIN right)
    /\ \A p \in DOMAIN left : p \in DOMAIN right /\ right[p] = left[p]

\* The deferred comparison of runBoundary, and run's answer to its error.
DeferredCompare ==
    /\ pc = "return" /\ Head(defers).kind = "compare"
    /\ phase = "verify" \/ errors # {}
    /\ \/ errors' = errors \cup
                    IF MapsEqual(before, repo) THEN {} ELSE {"modified"}
       \/ errors' = errors \cup {"state"}
    /\ defers' = <<>>
    /\ pc' = IF errors' = {} THEN "loop" ELSE "exit"
    /\ UNCHANGED <<inputs, todo, pair, phase, repo, before, require, mirror,
                   made, tmp, warned, passed, code>>

Exited == pc = "done" /\ UNCHANGED vars

Next ==
    \/ Execute \/ ReadContract \/ ReadModuleMetadata \/ SelectBoundaries
    \/ RunBoundary \/ LoopDone \/ Exit
    \/ \E m \in Modules : ResolveExactModule(m) \/ VerifySelectedModule(m)
    \/ CreateModfile \/ EditModfile \/ DownloadGraph
    \/ VerifyToolModules \/ ProductPackages
    \/ \E check \in Checks : RunGoCheck(check) \/ RunSpiceTool(check)
    \/ ApplicationMirror
    \/ DeferredCleanup \/ Prepared \/ DeferredCompare
    \/ Exited

Spec == Init /\ [][Next]_vars

-----------------------------------------------------------------------------
\* Properties

Kinds(stack) == [i \in DOMAIN stack |-> stack[i].kind]

\* Type invariant.  The stack of defers is that of at most one verifyBoundary
\* in one runBoundary, and a boundary draws at most three temporary names.
TypeOK ==
    /\ pc \in Modules \cup Checks \cup
              {"execute", "contract", "metadata", "boundaries", "loop",
               "modfile", "edit", "download", "tools", "packages", "mirror",
               "return", "exit", "done"}
    /\ todo \in {<<>>} \cup [{1} -> Pairs] \cup [{1, 2} -> Pairs]
    /\ pair \in Pairs /\ require \in Pairs
    /\ phase \in {"prepare", "verify"}
    /\ repo \in Repositories /\ before \in Repositories
    /\ mirror \in [require : Pairs, files : Repositories]
    /\ made \in 0..6
    /\ tmp \subseteq {"mod", "sum", "mirror"} \X (1..6)
    /\ warned \subseteq tmp
    /\ Kinds(defers) \in {<<>>, <<"compare">>, <<"modfile", "compare">>,
                          <<"mirror", "modfile", "compare">>}
    /\ errors \subseteq {"step", "state", "modified"}
    /\ ran \subseteq [check : Checks, versions : [Modules -> Versions]]
    /\ judged \subseteq Repositories
    /\ code \in {0, 1, 2, 9}

\* The pairs that -line names, read off the contract.
Asked == (IF line \in {"minimum", "all"} THEN {contract.minimum} ELSE {})
         \cup (IF line \in {"current", "all"} THEN {contract.current} ELSE {})

\* docs/compatibility.md:14 "aliases ... and mismatched MVS selection fail
\* closed": a success means that for every pair asked for each acceptance
\* check passed with exactly those versions selected, whatever the contract,
\* go.mod and the module graph say; and the pair go.mod requires is the minimum
\* pair (docs/compatibility.md:10), so a successful minimum run has verified
\* the versions that are committed.
PairsVerified ==
    code = 0 =>
        /\ Asked # {}
        /\ \A versions \in Asked, check \in Checks :
              \E r \in ran : r.check = check /\ r.versions = versions
        /\ line # "current" =>
              \A check \in Checks : \E r \in ran :
                 /\ r.check = check
                 /\ r.versions = [m \in Modules |-> goMod[m].version]

\* README.md:80 "fails if any handwritten, generated, ... or vendor byte
\* changes": a changed repository is in the returned error (or the failure to
\* read it is), also when another step failed first or a boundary came after.
ModificationReported ==
    pc = "done" /\ repo # Committed => {"modified", "state"} \cap errors # {}

\* The spice tool judged the application that is committed: no success rests
\* on a mirror taken while the repository was changed.
MirrorIsCommitted ==
    code = 0 => judged = {Application(Committed)}

\* Whatever step failed, every temporary file is gone when a boundary ends,
\* or its name was printed.
LeftoversWarned == pc \in {"loop", "exit", "done"} => tmp \subseteq warned
=============================================================================
