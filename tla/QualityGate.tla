---------------------------- MODULE QualityGate -----------------------------
(***************************************************************************)
(* internal/qualitygate: the repository's verification command.  A mode is *)
(* a sequence of steps and a step a sequence of instructions, most of them *)
(* subprocesses that may fail for any reason, the 20-minute deadline       *)
(* included.  The repository may have defects; an instruction that looks   *)
(* for one does not succeed when it is there.                              *)
(***************************************************************************)
EXTENDS Naturals, Sequences, FiniteSets, SequencesExt

CONSTANTS
    FileCount,        \* Go files below the root
    BatchSize,        \* 64 in the code
    DefectSets,       \* which checks may find something wrong, together
    UnformattedSets   \* which files a formatter may complain of, together

Files == [i \in 1..FileCount |-> i]  \* goFiles: sorted, without duplicates
Formatters == {"goimports", "gofumpt"}

-----------------------------------------------------------------------------
\* The steps: stepsForMode and the functions it names.

run(name)  == <<"run", name>>       \* command
path(name) == <<"path", name>>      \* toolPath

\* format
formatting(write) ==
    LET how == IF write THEN "write" ELSE "list"
    IN  <<path("goimports"), path("gofumpt"),
          <<how, "goimports">>, <<how, "gofumpt">>>>

checkIdentity == <<<<"identity", "repository">>>>
checkModule ==
    <<run("tidy"), run("tidy tools"), <<"make", "vendor">>,
      run("mod vendor"), <<"compare", "vendor">>>>
style == <<run("spicestyle")>>
vet   == <<run("vet")>>
lint  == <<path("golangci-lint"), run("golangci-lint"),
           path("nilaway"), run("nilaway")>>
security == <<path("gosec"), run("gosec"),
              path("govulncheck"), run("govulncheck")>>
tests    == <<run("test shuffled"), run("test race")>>
coverage == <<<<"make", "profile">>, <<"close", "profile">>,
              run("test business packages"), run("cover"),
              <<"threshold", "coverage">>>>
offline  == <<run("vendored test"), run("vendored build")>>
spiceApplication == <<run("spice verify"), run("spice generate"),
                      run("spice build"), run("spice run")>>
compatibility == <<run("corecompat")>>  \* networkGoCommand

stepsForMode(mode) ==
    CASE mode = "check" -> <<checkIdentity, formatting(FALSE), checkModule,
                             style, vet>>
      [] mode = "fmt" -> <<formatting(TRUE)>>
      [] mode = "lint" -> <<lint>>
      [] mode = "security" -> <<security>>
      [] mode = "smoke" -> <<spiceApplication>>
      [] mode = "test" -> <<tests, coverage>>
      [] mode = "verify" -> <<checkIdentity, formatting(FALSE), checkModule,
                              style, vet, lint, security, tests, coverage,
                              offline, spiceApplication, compatibility>>

Modes == {"check", "fmt", "lint", "security", "smoke", "test", "verify"}

\* The instructions that look for a defect other than formatting.
Checks == {i \in UNION {ToSet(s) : s \in ToSet(stepsForMode("verify"))} :
             i[1] \in {"identity", "run", "compare", "threshold"}}

ASSUME GateAssumption ==
    /\ FileCount \in Nat
    /\ BatchSize \in Nat \ {0}
    /\ DefectSets \subseteq SUBSET Checks
    /\ UnformattedSets \subseteq SUBSET (Formatters \X (1..FileCount))

-----------------------------------------------------------------------------
VARIABLES
    mode,         \* the -mode flag
    root,         \* what repositoryRoot finds from the working directory
    release,      \* runtime.Version() is the required one
    defects,      \* checks that would find something wrong
    unformatted,  \* pairs of a formatter and a file it would change
    pc,
    steps,        \* steps left, the current one first
    body,         \* instructions left in the current step
    batch,        \* batches of the current instruction that are done
    changed,      \* files listed by checkFormatted
    expired,      \* the command's context is done
    tmp,          \* temporary files on disk
    deferred,     \* those the current step has deferred to remove
    warned,       \* those a warning was printed for
    failed,       \* the step returns an error
    code          \* exit status

setting == <<mode, root, release, defects>>
vars == <<setting, unformatted, pc, steps, body, batch, changed, expired, tmp,
          deferred, warned, failed, code>>

Running == 2

\* The command may be started with any flag, in any directory: below the
\* repository, below tools/ or outside.
Init ==
    /\ mode \in Modes \cup {"other"}
    /\ root \in {"repository", "tools", "none"}
    /\ release \in BOOLEAN
    /\ defects \in DefectSets
    /\ unformatted \in UnformattedSets
    /\ pc = "execute"
    /\ steps = <<>>
    /\ body = <<>>
    /\ batch = 0
    /\ changed = {}
    /\ expired = FALSE
    /\ tmp = {}
    /\ deferred = {}
    /\ warned = {}
    /\ failed = FALSE
    /\ code = Running

Exit(status) ==
    /\ pc' = "exit"
    /\ code' = status

\* execute and run, up to the steps.
Execute ==
    /\ pc = "execute"
    /\ IF root # "none" /\ release /\ mode \in Modes
       THEN /\ pc' = "step"
            /\ steps' = stepsForMode(mode)
            /\ body' = Head(stepsForMode(mode))
            /\ UNCHANGED code
       ELSE /\ Exit(1)
            /\ UNCHANGED <<steps, body>>
    /\ UNCHANGED <<setting, unformatted, batch, changed, expired, tmp,
                   deferred, warned, failed>>

\* Twenty minutes have passed.
Expire ==
    /\ pc # "exit"
    /\ ~expired
    /\ expired' = TRUE
    /\ UNCHANGED <<setting, unformatted, pc, steps, body, batch, changed, tmp,
                   deferred, warned, failed, code>>

At(kinds) == pc = "step" /\ body # <<>> /\ Head(body)[1] \in kinds
Advance ==
    /\ body' = Tail(body)
    /\ UNCHANGED <<setting, pc, steps, expired, deferred, warned, failed, code>>

\* Mutant of Present: toolPath looks in the root's own module.
PresentOwn(i) ==
    \/ root = "repository"
    \/ i \in {run("tidy"), run("vet"), run("golangci-lint"), run("nilaway"),
              run("gosec"), run("govulncheck"), run("test shuffled"),
              run("test race"), run("vendored build"), run("vendored test")}
    \/ i[1] \in {"close", "path"}

\* tools/ has a module of its own, whose path begins with the repository's.
\* What names a package, a tool or a directory of the repository, tools/
\* itself included, fails there; closing a temporary file does not.
Present(i) ==
    \/ root = "repository"
    \/ i \in {run("tidy"), run("vet"), run("golangci-lint"), run("nilaway"),
              run("gosec"), run("govulncheck"), run("test shuffled"),
              run("test race"), run("vendored build"), run("vendored test")}
    \/ i[1] = "close"

\* command, capture and networkGoCommand: the subprocess succeeds.
Subprocess ==
    /\ At({"run", "path"})
    /\ ~expired
    /\ Head(body) \notin defects
    /\ Present(Head(body))
    /\ Advance
    /\ UNCHANGED <<unformatted, batch, changed, tmp>>

\* Code of the gate itself that finds nothing wrong: the walk of
\* checkIdentity, the digests of checkModule, the total of the coverage
\* report, closing the profile.
Look ==
    /\ At({"identity", "compare", "threshold", "close"})
    /\ Head(body) \notin defects
    /\ Present(Head(body))
    /\ body' = Tail(body)
    /\ deferred' = IF Head(body)[1] = "close" THEN deferred \cup {"profile"}
                   ELSE deferred
    /\ UNCHANGED <<setting, unformatted, pc, steps, batch, changed, expired,
                   tmp, warned, failed, code>>

\* os.MkdirTemp and os.CreateTemp.  The profile's removal is deferred only
\* once it is closed.
Make ==
    /\ At({"make"})
    /\ tmp' = tmp \cup {Head(body)[2]}
    /\ deferred' = IF Head(body)[2] = "vendor" THEN deferred \cup {"vendor"}
                   ELSE deferred
    /\ body' = Tail(body)
    /\ UNCHANGED <<setting, unformatted, pc, steps, batch, changed, expired,
                   warned, failed, code>>

least(a, b) == IF a < b THEN a ELSE b

\* Mutant of batches: only full batches.
batchesFull(values, size) ==
    [b \in 1..(Len(values) \div size) |->
       SubSeq(values, (b - 1) * size + 1, b * size)]

batches(values, size) ==
    [b \in 1..((Len(values) + size - 1) \div size) |->
       SubSeq(values, (b - 1) * size + 1, least(b * size, Len(values)))]

InBatch == ToSet(batches(Files, BatchSize)[batch + 1])
BatchesDone == batch = Len(batches(Files, BatchSize))

\* One subprocess of checkFormatted adds the files it lists.
ListBatch ==
    /\ At({"list"})
    /\ ~BatchesDone
    /\ ~expired
    /\ changed' = changed \cup
                     {f \in InBatch : <<Head(body)[2], f>> \in unformatted}
    /\ batch' = batch + 1
    /\ UNCHANGED <<setting, unformatted, pc, steps, body, expired, tmp,
                   deferred, warned, failed, code>>

\* One subprocess of fileBatches rewrites its files.  goimports may leave
\* what gofumpt would change; gofumpt keeps the imports in order.
WriteBatch ==
    /\ At({"write"})
    /\ ~BatchesDone
    /\ ~expired
    /\ \E disturbed \in SUBSET InBatch :
          /\ Head(body)[2] = "gofumpt" => disturbed = {}
          /\ unformatted' = (unformatted \ ({Head(body)[2]} \X InBatch))
                               \cup ({"gofumpt"} \X disturbed)
    /\ batch' = batch + 1
    /\ UNCHANGED <<setting, pc, steps, body, changed, expired, tmp, deferred,
                   warned, failed, code>>

\* checkFormatted and fileBatches return.
Formatted ==
    /\ At({"list", "write"})
    /\ BatchesDone
    /\ changed = {}
    /\ batch' = 0
    /\ Advance
    /\ UNCHANGED <<unformatted, changed, tmp>>

\* The current instruction returns an error; a formatter that was writing may
\* have rewritten any of its files.
Fail ==
    /\ pc = "step"
    /\ body # <<>>
    /\ \/ UNCHANGED unformatted
       \/ /\ At({"write"})
          /\ ~BatchesDone
          /\ \E rewritten \in SUBSET InBatch :
                unformatted' = unformatted \ ({Head(body)[2]} \X rewritten)
    /\ failed' = TRUE
    /\ body' = <<>>
    /\ UNCHANGED <<setting, pc, steps, batch, changed, expired, tmp, deferred,
                   warned, code>>

\* Mutant of Deferred: the error of os.Remove is dropped.
DeferredSilent ==
    /\ pc = "step"
    /\ body = <<>>
    /\ \E f \in deferred :
          /\ deferred' = deferred \ {f}
          /\ \/ tmp' = tmp \ {f} /\ UNCHANGED warned
             \/ UNCHANGED tmp /\ warned' = warned \cup ({f} \ {"profile"})
    /\ UNCHANGED <<setting, unformatted, pc, steps, body, batch, changed,
                   expired, failed, code>>

\* removeTree warns when it fails; coverage returns the error of os.Remove.
Deferred ==
    /\ pc = "step"
    /\ body = <<>>
    /\ \E f \in deferred :
          /\ deferred' = deferred \ {f}
          /\ \/ /\ tmp' = tmp \ {f}
                /\ UNCHANGED <<warned, failed>>
             \/ /\ f = "vendor"
                /\ warned' = warned \cup {f}
                /\ UNCHANGED <<tmp, failed>>
             \/ /\ f = "profile"
                /\ failed' = TRUE
                /\ UNCHANGED <<tmp, warned>>
    /\ UNCHANGED <<setting, unformatted, pc, steps, body, batch, changed,
                   expired, code>>

\* runSequential goes on with the next step, or returns.
NextStep ==
    /\ pc = "step"
    /\ body = <<>>
    /\ deferred = {}
    /\ IF ~failed /\ Len(steps) > 1
       THEN /\ steps' = Tail(steps)
            /\ body' = Head(Tail(steps))
            /\ UNCHANGED <<pc, code>>
       ELSE /\ Exit(IF failed THEN 1 ELSE 0)
            /\ UNCHANGED <<steps, body>>
    /\ UNCHANGED <<setting, unformatted, batch, changed, expired, tmp,
                   deferred, warned, failed>>

Step ==
    \/ Execute
    \/ Subprocess
    \/ Look
    \/ Make
    \/ ListBatch
    \/ WriteBatch
    \/ Formatted
    \/ Fail
    \/ Deferred
    \/ NextStep

Next == Step \/ Expire

Spec == Init /\ [][Next]_vars

-----------------------------------------------------------------------------
\* Properties.

\* Every variable has its type, and only what exists is deferred to be
\* removed.
TypeOK ==
    /\ mode \in Modes \cup {"other"}
    /\ defects \subseteq Checks
    /\ unformatted \subseteq Formatters \X (1..FileCount)
    /\ pc \in {"execute", "step", "exit"}
    /\ batch \in 0..FileCount
    /\ changed \subseteq 1..FileCount
    /\ deferred \subseteq tmp
    /\ tmp \cup warned \subseteq {"vendor", "profile"}
    /\ failed \in BOOLEAN
    /\ code \in {0, 1, Running}

\* "make verify" is the definitive gate: when it passes, the repository has
\* none of the defects the gate knows of, and every file passed both
\* formatters although they see the files in batches.  After "make fmt" passes
\* the formatting step would find nothing to list, although each formatter
\* rewrites what the other has seen.
PassMeansClean ==
    /\ code = 0 /\ mode = "verify" => defects = {} /\ unformatted = {}
    /\ code = 0 /\ mode = "fmt" => unformatted = {}

\* A pass is about the repository.  repositoryRoot takes tools/ for the root
\* when it is started there, because it looks for a prefix of the module
\* line; every mode then fails later, at something tools/ does not have.
PassIsAboutRepository == code = 0 => root = "repository"

\* A temporary file that outlives the command was warned of, or the command
\* failed.
LeftoversReported ==
    pc = "exit" => \A f \in tmp : f \in warned \/ code = 1
=============================================================================
