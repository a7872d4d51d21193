------------------------- MODULE CompatRunnerProofs -------------------------
(***************************************************************************)
(* Theorems about CompatRunner, for any versions, any contract, go.mod and *)
(* module graph, and any contents of the repository.                       *)
(***************************************************************************)
EXTENDS CompatRunner, FiniteSetTheorems, SequenceTheorems, TLAPS

-----------------------------------------------------------------------------
(***************************************************************************)
(* Types.                                                                  *)
(***************************************************************************)

\* Where the run is outside any boundary, and inside one.
Before == {"execute", "contract", "metadata", "boundaries", "loop"}
Outer  == Before \cup {"exit", "done"}
Inner  == {"core", "toolchain", "modfile", "edit", "download", "tools",
           "packages", "vet", "test", "mirror", "verify", "generate", "build",
           "return"}
\* Only verifyBoundary comes here.
Verifying == {"tools", "packages", "vet", "test", "mirror", "verify",
              "generate", "build"}

Inputs ==
    /\ line \in {"minimum", "current", "all", "other"}
    /\ contract \in [minimum : Pairs, current : Pairs]
    /\ goMod \in [Modules -> Requirements]
    /\ graph \in [Modules -> Versions]

Control ==
    /\ pc \in Outer \cup Inner
    /\ phase \in {"prepare", "verify"}
    /\ errors \subseteq {"step", "state", "modified"}
    /\ code \in {0, 1, 2, 9}
    /\ pc \in Verifying => phase = "verify"
    /\ pc = "download" => phase = "prepare"
    /\ pc # "done" => code = 9

Data ==
    /\ todo \in Seq(Pairs) /\ Len(todo) <= 2
    /\ pair \in Pairs /\ require \in Pairs
    /\ repo \in Repositories /\ before \in Repositories
    /\ mirror \in [require : Pairs, files : Repositories]
    /\ ran \subseteq [check : Checks, versions : [Modules -> Versions]]
    /\ judged \subseteq Repositories

Types == Inputs /\ Control /\ Data

-----------------------------------------------------------------------------
(***************************************************************************)
(* Temporary files.                                                        *)
(***************************************************************************)

Compare == [kind |-> "compare", name |-> 0]
Cleanup(kind, name) == [kind |-> kind, name |-> name]

\* The stacks of defers: runBoundary's, verifyBoundary's once it has the
\* modfile, and once it has the mirror.
Stack0 == <<Compare>>
Stack1(a) == <<Cleanup("modfile", a), Compare>>
Stack2(a, b) == <<Cleanup("mirror", b), Cleanup("modfile", a), Compare>>

\* The files that a stack removes.
Owned(stack) ==
    UNION {FilesOf(stack[i].kind, stack[i].name) :
             i \in {j \in DOMAIN stack : stack[j].kind # "compare"}}

\* The modfile that is not deferred to be removed yet.
Pending == IF pc = "edit" THEN FilesOf("modfile", made) ELSE {}

Shallow == \/ pc \in {"modfile", "edit"}
           \/ pc \in {"core", "toolchain"} /\ phase = "prepare"
Deep    == pc \in ToolChecks

Stacked ==
    /\ pc \in Outer => defers = << >>
    /\ Shallow => defers = Stack0
    /\ Deep => \E a, b \in 1..made : defers = Stack2(a, b)
    /\ pc \in Inner \ {"return"} /\ ~Shallow /\ ~Deep =>
          \E a \in 1..made : defers = Stack1(a)
    /\ pc = "return" =>
          \/ defers = Stack0
          \/ \E a \in 1..made : defers = Stack1(a)
          \/ \E a, b \in 1..made : defers = Stack2(a, b)

\* Names the current boundary may still draw.
Needed ==
    IF pc \in Outer THEN 0
    ELSE IF phase = "prepare"
         THEN IF pc \in {"core", "toolchain", "modfile"} THEN 3 ELSE 2
         ELSE IF pc = "modfile" THEN 2
              ELSE IF pc \in ToolChecks \cup {"return"} THEN 0 ELSE 1

Counted ==
    /\ made \in Nat
    /\ made + 3 * Len(todo) + Needed <= 6
    /\ pc \in Before \ {"loop"} => made = 0
    /\ pc = "edit" => made >= 1

Disk ==
    /\ tmp \subseteq {"mod", "sum", "mirror"} \X (1..made)
    /\ warned \subseteq tmp
    /\ warned \cap (Owned(defers) \cup Pending) = {}
    /\ tmp \subseteq warned \cup Owned(defers) \cup Pending

-----------------------------------------------------------------------------
(***************************************************************************)
(* The repository.                                                         *)
(***************************************************************************)

Kept ==
    /\ pc \in Before => repo = Committed
    /\ pc \in Before \cup (Inner \ {"return"}) => errors = {}
    /\ pc \in Inner => before = Committed
    /\ pc \in {"exit", "done"} /\ repo # Committed =>
          {"modified", "state"} \cap errors # {}

-----------------------------------------------------------------------------
(***************************************************************************)
(* What was verified.                                                      *)
(***************************************************************************)

Ran(check, versions) == \E r \in ran : r.check = check /\ r.versions = versions
Verified(versions) == \A check \in Checks : Ran(check, versions)

\* What go.mod requires.
Required == [m \in Modules |-> goMod[m].version]

\* No step has failed so far.
Good == errors = {} /\ pc # "done"

Agreed ==
    Good /\ pc \notin {"execute", "contract", "metadata"} =>
        contract.minimum = Required

Accounted ==
    Good /\ pc \in {"loop", "exit"} \cup Inner =>
        /\ Asked # {}
        /\ \A versions \in Asked :
              \/ Verified(versions)
              \/ \E i \in DOMAIN todo : todo[i] = versions
              \/ pc \in Inner /\ pair = versions
        /\ pc = "exit" => todo = << >>

\* Where verifyBoundary is when a check has passed.
After(check) ==
    CASE check = "vet"  -> {"test", "mirror", "verify", "generate", "build",
                            "return"}
      [] check = "test" -> {"mirror", "verify", "generate", "build", "return"}
      [] check = "verify" -> {"generate", "build", "return"}
      [] check = "generate" -> {"build", "return"}
      [] check = "build" -> {"return"}

Staged ==
    Good /\ phase = "verify" =>
        /\ pc \in {"core", "toolchain"} \cup Verifying => require = pair
        /\ pc = "toolchain" => Selected(require)["core"] = pair["core"]
        /\ pc \in Verifying => Selected(require) = pair
        /\ pc \in ToolChecks => /\ mirror.require = require
                                /\ mirror.files = Application(repo)
        /\ \A check \in Checks : pc \in After(check) => Ran(check, pair)

Judged ==
    /\ Good => judged \subseteq
          {Application(Committed)}
             \cup IF \/ pc \in {"generate", "build"}
                     \/ pc = "return" /\ phase = "verify"
                  THEN {Application(repo)} ELSE {}
    /\ \A r \in ran : r.check \in ToolChecks => judged # {}

-----------------------------------------------------------------------------
(***************************************************************************)
(* Type correctness.                                                       *)
(***************************************************************************)

LEMMA InputsInv == Inputs /\ [Next]_vars => Inputs'
<1> SUFFICES ASSUME Inputs, [Next]_vars PROVE Inputs'
  OBVIOUS
<1>1. UNCHANGED inputs
  BY DEF Next, vars, Execute, ReadContract, ReadModuleMetadata,
         SelectBoundaries, RunBoundary, LoopDone, Exit, ResolveExactModule,
         VerifySelectedModule, CreateModfile, EditModfile, DownloadGraph,
         VerifyToolModules, ProductPackages, RunGoCheck, RunSpiceTool,
         ApplicationMirror, DeferredCleanup, Prepared, DeferredCompare, Exited
<1>2. QED
  BY <1>1 DEF Inputs, inputs

LEMMA ControlInv == Control /\ [Next]_vars => Control'
<1> SUFFICES ASSUME Control, [Next]_vars PROVE Control'
  OBVIOUS
<1> USE DEF Control, Outer, Before, Inner, Verifying
<1>1. CASE Execute
  BY <1>1 DEF Execute
<1>2. CASE ReadContract
  BY <1>2 DEF ReadContract, Goto, Fail
<1>3. CASE ReadModuleMetadata
  BY <1>3 DEF ReadModuleMetadata, Goto, Fail
<1>4. CASE SelectBoundaries
  BY <1>4 DEF SelectBoundaries, Goto, Fail
<1>5. CASE RunBoundary
  BY <1>5 DEF RunBoundary, Goto, Fail
<1>6. CASE LoopDone
  BY <1>6 DEF LoopDone, Goto
<1>7. CASE Exit
  BY <1>7 DEF Exit, Goto
<1>8. ASSUME NEW m \in Modules, ResolveExactModule(m) PROVE Control'
  BY <1>8 DEF ResolveExactModule, AfterModule, Modules, Goto, Fail
<1>9. ASSUME NEW m \in Modules, VerifySelectedModule(m) PROVE Control'
  BY <1>9 DEF VerifySelectedModule, AfterModule, Modules, Goto, Fail
<1>10. CASE CreateModfile
  BY <1>10 DEF CreateModfile, Goto, Fail
<1>11. CASE EditModfile
  BY <1>11 DEF EditModfile, Goto, Fail
<1>12. CASE DownloadGraph
  BY <1>12 DEF DownloadGraph, Goto, Fail
<1>13. CASE VerifyToolModules
  BY <1>13 DEF VerifyToolModules, Goto, Fail
<1>14. CASE ProductPackages
  BY <1>14 DEF ProductPackages, Goto, Fail
<1>15. ASSUME NEW check \in Checks, RunGoCheck(check) PROVE Control'
  BY <1>15 DEF RunGoCheck, Goto, Fail
<1>16. ASSUME NEW check \in Checks, RunSpiceTool(check) PROVE Control'
  BY <1>16 DEF RunSpiceTool, ToolChecks, AfterTool, Goto, Fail
<1>17. CASE ApplicationMirror
  BY <1>17 DEF ApplicationMirror, Goto, Fail
<1>18. CASE DeferredCleanup
  BY <1>18 DEF DeferredCleanup
<1>19. CASE Prepared
  BY <1>19 DEF Prepared, Goto
<1>20. CASE DeferredCompare
  BY <1>20 DEF DeferredCompare
<1>21. CASE UNCHANGED vars
  BY <1>21 DEF vars
<1>22. QED
  BY <1>1, <1>2, <1>3, <1>4, <1>5, <1>6, <1>7, <1>8, <1>9, <1>10, <1>11,
     <1>12, <1>13, <1>14, <1>15, <1>16, <1>17, <1>18, <1>19, <1>20, <1>21
     DEF Next, Exited

\* Minimal version selection answers with versions.
LEMMA SelectedVersions ==
    ASSUME Inputs, NEW mod \in Pairs
    PROVE  Selected(mod) \in [Modules -> Versions]
BY ConstantsAssumption DEF Inputs, Selected, Pairs, Versions, Alias

\* The application without vendor/ is a part of the repository.
LEMMA ApplicationContents ==
    ASSUME NEW contents \in Repositories
    PROVE  Application(contents) \in Repositories
<1>1. PICK S \in SUBSET Paths : contents \in [S -> Digests]
  BY DEF Repositories
<1>2. Application(contents) \in [S \ Vendored -> Digests]
  BY <1>1 DEF Application
<1>3. S \ Vendored \in SUBSET Paths
  OBVIOUS
<1>4. QED
  BY <1>2, <1>3 DEF Repositories

LEMMA BoundariesPairs ==
    ASSUME Inputs, line # "other"
    PROVE  /\ Boundaries(line) \in Seq(Pairs) /\ Len(Boundaries(line)) <= 2
           /\ Boundaries(line) # << >>
           /\ \A versions : versions \in Asked <=>
                 \E i \in DOMAIN Boundaries(line) :
                    Boundaries(line)[i] = versions
<1>1. contract.minimum \in Pairs /\ contract.current \in Pairs
  BY DEF Inputs
<1>2. ASSUME NEW a \in Pairs, NEW b \in Pairs
      PROVE  /\ <<a>> \in Seq(Pairs) /\ Len(<<a>>) = 1 /\ DOMAIN <<a>> = {1}
             /\ <<a>>[1] = a
             /\ <<a, b>> \in Seq(Pairs) /\ Len(<<a, b>>) = 2
             /\ DOMAIN <<a, b>> = {1, 2}
             /\ <<a, b>>[1] = a /\ <<a, b>>[2] = b
  OBVIOUS
<1>3. CASE line = "minimum"
  BY <1>1, <1>2, <1>3 DEF Boundaries, Asked
<1>4. CASE line = "current"
  BY <1>1, <1>2, <1>4 DEF Boundaries, Asked
<1>5. CASE line = "all"
  <2>1. Asked = {contract.minimum, contract.current}
    BY <1>5 DEF Asked
  <2>2. CASE \A m \in Modules : contract.minimum[m] = contract.current[m]
    <3>1. contract.minimum = contract.current
      BY <1>1, <2>2 DEF Pairs
    <3>2. Boundaries(line) = <<contract.minimum>>
      BY <1>5, <2>2 DEF Boundaries
    <3>3. QED
      BY <1>1, <1>2, <2>1, <3>1, <3>2
  <2>3. CASE ~\A m \in Modules : contract.minimum[m] = contract.current[m]
    <3>1. Boundaries(line) = <<contract.minimum, contract.current>>
      BY <1>5, <2>3 DEF Boundaries
    <3>2. QED
      BY <1>1, <1>2, <2>1, <3>1
  <2>4. QED
    BY <2>2, <2>3
<1>6. QED
  BY <1>3, <1>4, <1>5 DEF Inputs

LEMMA DataInv == Types /\ [Next]_vars => Data'
<1> SUFFICES ASSUME Types, [Next]_vars PROVE Data'
  OBVIOUS
<1> USE DEF Data
<1>0. Inputs /\ Data
  BY DEF Types
<1>1. CASE Execute
  BY <1>0, <1>1 DEF Execute, files, passed
<1>2. CASE ReadContract
  BY <1>0, <1>2 DEF ReadContract, files, passed
<1>3. CASE ReadModuleMetadata
  BY <1>0, <1>3 DEF ReadModuleMetadata, files, passed
<1>4. CASE SelectBoundaries
  <2>1. todo' \in Seq(Pairs) /\ Len(todo') <= 2
    BY <1>0, <1>4, BoundariesPairs DEF SelectBoundaries
  <2>2. QED
    BY <1>0, <1>4, <2>1 DEF SelectBoundaries, files, passed
<1>5. CASE RunBoundary
  <2>1. pair' = Head(todo) /\ todo' = Tail(todo) /\ todo # << >>
    BY <1>5 DEF RunBoundary
  <2>2. /\ Head(todo) \in Pairs /\ Tail(todo) \in Seq(Pairs)
        /\ Len(Tail(todo)) <= 2
    BY <1>0, <2>1
  <2>3. before' \in Repositories
    BY <1>0, <1>5 DEF RunBoundary
  <2>4. UNCHANGED <<repo, require, mirror, ran, judged>>
    BY <1>5 DEF RunBoundary, passed
  <2>5. QED
    BY <1>0, <2>1, <2>2, <2>3, <2>4
<1>6. CASE LoopDone
  BY <1>0, <1>6 DEF LoopDone, files, passed
<1>7. CASE Exit
  BY <1>0, <1>7 DEF Exit, files, passed
<1>8. ASSUME NEW m \in Modules, ResolveExactModule(m) PROVE Data'
  BY <1>0, <1>8 DEF ResolveExactModule, RunInRepository, files, passed
<1>9. ASSUME NEW m \in Modules, VerifySelectedModule(m) PROVE Data'
  BY <1>0, <1>9 DEF VerifySelectedModule, RunInRepository, files, passed
<1>10. CASE CreateModfile
  BY <1>0, <1>10 DEF CreateModfile, passed
<1>11. CASE EditModfile
  <2>1. require' \in Pairs
    BY <1>0, <1>11 DEF EditModfile
  <2>2. QED
    BY <1>0, <1>11, <2>1 DEF EditModfile, passed
<1>12. CASE DownloadGraph
  BY <1>0, <1>12 DEF DownloadGraph, RunInRepository, files, passed
<1>13. CASE VerifyToolModules
  BY <1>0, <1>13 DEF VerifyToolModules, RunInRepository, files, passed
<1>14. CASE ProductPackages
  BY <1>0, <1>14 DEF ProductPackages, RunInRepository, files, passed
<1>15. ASSUME NEW check \in Checks, RunGoCheck(check) PROVE Data'
  <2>1. Selected(require) \in [Modules -> Versions]
    BY <1>0, SelectedVersions
  <2>2. ran' \subseteq [check : Checks, versions : [Modules -> Versions]]
    BY <1>0, <1>15, <2>1 DEF RunGoCheck, Passed, passed
  <2>3. /\ UNCHANGED <<todo, pair, before, require, mirror, judged>>
        /\ repo' \in Repositories
    BY <1>15 DEF RunGoCheck, RunInRepository, files, passed
  <2>4. QED
    BY <1>0, <2>2, <2>3
<1>16. ASSUME NEW check \in Checks, RunSpiceTool(check) PROVE Data'
  <2>1. mirror.require \in Pairs /\ mirror.files \in Repositories
    BY <1>0
  <2>2. Selected(mirror.require) \in [Modules -> Versions]
    BY <1>0, <2>1, SelectedVersions
  <2>3. ran' \subseteq [check : Checks, versions : [Modules -> Versions]]
    BY <1>0, <1>16, <2>2 DEF RunSpiceTool, Passed, passed
  <2>4. judged' \subseteq Repositories
    BY <1>0, <1>16, <2>1 DEF RunSpiceTool, passed
  <2>5. UNCHANGED <<todo, pair, repo, before, require, mirror>>
    BY <1>16 DEF RunSpiceTool, files
  <2>6. QED
    BY <1>0, <2>3, <2>4, <2>5
<1>17. CASE ApplicationMirror
  <2>1. Application(repo) \in Repositories
    BY <1>0, ApplicationContents
  <2>2. mirror' \in [require : Pairs, files : Repositories]
    BY <1>0, <1>17, <2>1 DEF ApplicationMirror
  <2>3. UNCHANGED <<todo, pair, repo, before, require, ran, judged>>
    BY <1>17 DEF ApplicationMirror, passed
  <2>4. QED
    BY <1>0, <2>2, <2>3
<1>18. CASE DeferredCleanup
  BY <1>0, <1>18 DEF DeferredCleanup, passed
<1>19. CASE Prepared
  BY <1>0, <1>19 DEF Prepared, files, passed
<1>20. CASE DeferredCompare
  BY <1>0, <1>20 DEF DeferredCompare, passed
<1>21. CASE UNCHANGED vars
  BY <1>0, <1>21 DEF vars, files, passed
<1>22. QED
  BY <1>1, <1>2, <1>3, <1>4, <1>5, <1>6, <1>7, <1>8, <1>9, <1>10, <1>11,
     <1>12, <1>13, <1>14, <1>15, <1>16, <1>17, <1>18, <1>19, <1>20, <1>21
     DEF Next, Exited

-----------------------------------------------------------------------------
(***************************************************************************)
(* Temporary files are accounted for.                                      *)
(***************************************************************************)

LEMMA OwnedFiles ==
    /\ Owned(<< >>) = {}
    /\ Owned(Stack0) = {}
    /\ \A a : Owned(Stack1(a)) = FilesOf("modfile", a)
    /\ \A a, b : Owned(Stack2(a, b)) = FilesOf("modfile", a)
                                          \cup FilesOf("mirror", b)
<1> USE DEF Stack0, Stack1, Stack2, Compare, Cleanup
<1>1. Owned(<< >>) = {}
  BY DEF Owned
<1>2. Owned(Stack0) = {}
  BY DEF Owned
<1>3. ASSUME NEW a PROVE Owned(Stack1(a)) = FilesOf("modfile", a)
  BY DEF Owned
<1>4. ASSUME NEW a, NEW b
      PROVE  Owned(Stack2(a, b)) = FilesOf("modfile", a)
                                      \cup FilesOf("mirror", b)
  BY DEF Owned
<1>5. QED
  BY <1>1, <1>2, <1>3, <1>4

\* A short stack, taken apart and put together.
LEMMA PairStack ==
    ASSUME NEW x, NEW y
    PROVE  /\ <<x, y>> # << >> /\ Head(<<x, y>>) = x
           /\ Tail(<<x, y>>) = <<y>>
           /\ <<x>> \o <<y>> = <<x, y>>
<1> DEFINE S == {x, y}
           s == <<x>>
           t == <<y>>
           p == s \o t
           q == <<x, y>>
<1>1. /\ s \in Seq(S) /\ Len(s) = 1 /\ s[1] = x
      /\ t \in Seq(S) /\ Len(t) = 1 /\ t[1] = y
      /\ q \in Seq(S) /\ Len(q) = 2 /\ q[1] = x /\ q[2] = y
  OBVIOUS
<1> HIDE DEF S, s, t, q
<1>2. p \in Seq(S) /\ Len(p) = 2 /\ p[1] = x /\ p[2] = y
  BY <1>1, ConcatProperties
<1> HIDE DEF p
<1>3. Len(p) = Len(q) /\ \A i \in 1 .. Len(p) : p[i] = q[i]
  BY <1>1, <1>2
<1>4. p = q
  BY <1>1, <1>2, <1>3, SeqEqual
<1>5. /\ <<x, y>> # << >> /\ Head(<<x, y>>) = x
      /\ Tail(<<x, y>>) = <<y>>
  OBVIOUS
<1>6. QED
  BY <1>4, <1>5 DEF p, q, s, t

LEMMA TripleStack ==
    ASSUME NEW x, NEW y, NEW z
    PROVE  /\ <<x, y, z>> # << >> /\ Head(<<x, y, z>>) = x
           /\ Tail(<<x, y, z>>) = <<y, z>>
           /\ <<x>> \o <<y, z>> = <<x, y, z>>
<1> DEFINE S == {x, y, z}
           s == <<x>>
           t == <<y, z>>
           p == s \o t
           q == <<x, y, z>>
<1>1. /\ s \in Seq(S) /\ Len(s) = 1 /\ s[1] = x
      /\ t \in Seq(S) /\ Len(t) = 2 /\ t[1] = y /\ t[2] = z
      /\ q \in Seq(S) /\ Len(q) = 3 /\ q[1] = x /\ q[2] = y /\ q[3] = z
  OBVIOUS
<1> HIDE DEF S, s, t, q
<1>7. /\ p \in Seq(S) /\ Len(p) = Len(s) + Len(t)
      /\ \A i \in 1 .. Len(s) + Len(t) :
            p[i] = IF i <= Len(s) THEN s[i] ELSE t[i - Len(s)]
  BY <1>1, ConcatProperties
<1> HIDE DEF p
<1>8. \A i \in 1 .. 3 : p[i] = IF i <= 1 THEN s[i] ELSE t[i - 1]
  BY <1>1, <1>7
<1>2. p \in Seq(S) /\ Len(p) = 3 /\ p[1] = x /\ p[2] = y /\ p[3] = z
  BY <1>1, <1>7, <1>8
<1>3. Len(p) = Len(q) /\ \A i \in 1 .. Len(p) : p[i] = q[i]
  BY <1>1, <1>2
<1>4. p = q
  BY <1>1, <1>2, <1>3, SeqEqual
<1>5. /\ <<x, y, z>> # << >> /\ Head(<<x, y, z>>) = x
      /\ Tail(<<x, y, z>>) = <<y, z>>
  OBVIOUS
<1>6. QED
  BY <1>4, <1>5 DEF p, q, s, t

LEMMA StackShapes ==
    /\ Stack0 # << >> /\ Head(Stack0).kind = "compare"
    /\ \A a : /\ Stack1(a) # << >> /\ Tail(Stack1(a)) = Stack0
              /\ Head(Stack1(a)).kind = "modfile" /\ Head(Stack1(a)).name = a
              /\ <<[kind |-> "modfile", name |-> a]>> \o Stack0 = Stack1(a)
    /\ \A a, b : /\ Stack2(a, b) # << >> /\ Tail(Stack2(a, b)) = Stack1(a)
                 /\ Head(Stack2(a, b)).kind = "mirror"
                 /\ Head(Stack2(a, b)).name = b
                 /\ <<[kind |-> "mirror", name |-> b]>> \o Stack1(a)
                       = Stack2(a, b)
<1> DEFINE c == Compare
           m(a) == Cleanup("modfile", a)
           r(b) == Cleanup("mirror", b)
<1>1. /\ c.kind = "compare"
      /\ \A a : m(a).kind = "modfile" /\ m(a).name = a
                /\ m(a) = [kind |-> "modfile", name |-> a]
      /\ \A b : r(b).kind = "mirror" /\ r(b).name = b
                /\ r(b) = [kind |-> "mirror", name |-> b]
  BY DEF Compare, Cleanup
<1>2. /\ Stack0 = <<c>>
      /\ \A a : Stack1(a) = <<m(a), c>>
      /\ \A a, b : Stack2(a, b) = <<r(b), m(a), c>>
  BY DEF Stack0, Stack1, Stack2
<1> HIDE DEF c, m, r
<1>3. ASSUME NEW x PROVE <<x>> # << >> /\ Head(<<x>>) = x
  OBVIOUS
<1>4. Stack0 # << >> /\ Head(Stack0).kind = "compare"
  BY <1>1, <1>2, <1>3
<1>5. ASSUME NEW a
      PROVE  /\ Stack1(a) # << >> /\ Tail(Stack1(a)) = Stack0
             /\ Head(Stack1(a)).kind = "modfile" /\ Head(Stack1(a)).name = a
             /\ <<[kind |-> "modfile", name |-> a]>> \o Stack0 = Stack1(a)
  <2>1. Stack1(a) = <<m(a), c>> /\ Stack0 = <<c>>
    BY <1>2
  <2>2. /\ Stack1(a) # << >> /\ Tail(Stack1(a)) = Stack0
        /\ Head(Stack1(a)) = m(a) /\ <<m(a)>> \o Stack0 = Stack1(a)
    BY <2>1, PairStack
  <2>3. QED
    BY <1>1, <2>2
<1>6. ASSUME NEW a, NEW b
      PROVE  /\ Stack2(a, b) # << >> /\ Tail(Stack2(a, b)) = Stack1(a)
             /\ Head(Stack2(a, b)).kind = "mirror"
             /\ Head(Stack2(a, b)).name = b
             /\ <<[kind |-> "mirror", name |-> b]>> \o Stack1(a) = Stack2(a, b)
  <2>1. Stack1(a) = <<m(a), c>> /\ Stack2(a, b) = <<r(b), m(a), c>>
    BY <1>2
  <2>2. /\ Stack2(a, b) # << >> /\ Tail(Stack2(a, b)) = Stack1(a)
        /\ Head(Stack2(a, b)) = r(b)
        /\ <<r(b)>> \o Stack1(a) = Stack2(a, b)
    BY <2>1, TripleStack
  <2>3. QED
    BY <1>1, <2>2
<1>7. QED
  BY <1>4, <1>5, <1>6

LEMMA CountedInv == Types /\ Counted /\ Stacked /\ [Next]_vars => Counted'
<1> SUFFICES ASSUME Types, Counted, Stacked, [Next]_vars PROVE Counted'
  OBVIOUS
<1>23. pc \in Outer => defers = << >>
  BY DEF Stacked
<1>0. Control /\ Data /\ Inputs /\ made \in Nat /\ Len(todo) \in Nat
  BY DEF Types, Data, Counted
<1> USE DEF Counted, Needed, Outer, Before, Inner, ToolChecks
<1>1. CASE Execute
  BY <1>0, <1>1 DEF Execute, files
<1>2. CASE ReadContract
  BY <1>0, <1>2, <1>23 DEF ReadContract, Goto, Fail, files
<1>3. CASE ReadModuleMetadata
  BY <1>0, <1>3, <1>23 DEF ReadModuleMetadata, Goto, Fail, files
<1>4. CASE SelectBoundaries
  <2>1. Len(todo') <= 2 /\ Len(todo') \in Nat
    BY <1>0, <1>4, DataInv DEF Data
  <2>2. QED
    BY <1>0, <1>4, <2>1, <1>23 DEF SelectBoundaries, Goto, Fail, files
<1>5. CASE RunBoundary
  <2>1. todo' = Tail(todo) /\ todo # << >>
    BY <1>5 DEF RunBoundary
  <2>2. Len(todo') = Len(todo) - 1
    BY <1>0, <2>1 DEF Data
  <2>3. QED
    BY <1>0, <1>5, <2>2 DEF RunBoundary, Goto, Fail
<1>6. CASE LoopDone
  BY <1>0, <1>6 DEF LoopDone, Goto, files
<1>7. CASE Exit
  BY <1>0, <1>7 DEF Exit, Goto, files
<1>8. ASSUME NEW m \in Modules, ResolveExactModule(m) PROVE Counted'
  BY <1>0, <1>8 DEF ResolveExactModule, AfterModule, Modules, Goto, Fail, files
<1>9. ASSUME NEW m \in Modules, VerifySelectedModule(m) PROVE Counted'
  BY <1>0, <1>9 DEF VerifySelectedModule, AfterModule, Modules, Goto, Fail, files
<1>10. CASE CreateModfile
  BY <1>0, <1>10 DEF CreateModfile, Goto, Fail, Control
<1>11. CASE EditModfile
  BY <1>0, <1>11 DEF EditModfile, Goto, Fail, Control
<1>12. CASE DownloadGraph
  BY <1>0, <1>12 DEF DownloadGraph, Goto, Fail, files, Control
<1>13. CASE VerifyToolModules
  BY <1>0, <1>13 DEF VerifyToolModules, Goto, Fail, files, Control, Verifying
<1>14. CASE ProductPackages
  BY <1>0, <1>14 DEF ProductPackages, Goto, Fail, files, Control, Verifying
<1>15. ASSUME NEW check \in Checks, RunGoCheck(check) PROVE Counted'
  BY <1>0, <1>15 DEF RunGoCheck, Goto, Fail, files, Control, Verifying
<1>16. ASSUME NEW check \in Checks, RunSpiceTool(check) PROVE Counted'
  BY <1>0, <1>16 DEF RunSpiceTool, AfterTool, Goto, Fail, files, Control,
                     Verifying
<1>17. CASE ApplicationMirror
  BY <1>0, <1>17 DEF ApplicationMirror, Goto, Fail, Control, Verifying
<1>18. CASE DeferredCleanup
  BY <1>0, <1>18 DEF DeferredCleanup
<1>19. CASE Prepared
  BY <1>0, <1>19 DEF Prepared, Goto, files
<1>20. CASE DeferredCompare
  BY <1>0, <1>20 DEF DeferredCompare
<1>21. CASE UNCHANGED vars
  BY <1>0, <1>21 DEF vars, files
<1>22. QED
  BY <1>1, <1>2, <1>3, <1>4, <1>5, <1>6, <1>7, <1>8, <1>9, <1>10, <1>11,
     <1>12, <1>13, <1>14, <1>15, <1>16, <1>17, <1>18, <1>19, <1>20, <1>21
     DEF Next, Exited

LEMMA StackedInv == Types /\ Counted /\ Stacked /\ [Next]_vars => Stacked'
<1> SUFFICES ASSUME Types, Counted, Stacked, [Next]_vars PROVE Stacked'
  OBVIOUS
<1>0. Control /\ made \in Nat
  BY DEF Types, Counted
<1> USE DEF Stacked, Shallow, Deep, Outer, Before, Inner, ToolChecks
<1>1. CASE Execute
  BY <1>0, <1>1 DEF Execute, files
<1>2. CASE ReadContract
  BY <1>0, <1>2 DEF ReadContract, Goto, Fail, files
<1>3. CASE ReadModuleMetadata
  BY <1>0, <1>3 DEF ReadModuleMetadata, Goto, Fail, files
<1>4. CASE SelectBoundaries
  BY <1>0, <1>4 DEF SelectBoundaries, Goto, Fail, files
<1>5. CASE RunBoundary
  BY <1>0, <1>5 DEF RunBoundary, Goto, Fail, Stack0, Compare
<1>6. CASE LoopDone
  BY <1>0, <1>6 DEF LoopDone, Goto, files
<1>7. CASE Exit
  BY <1>0, <1>7 DEF Exit, Goto, files
<1>8. ASSUME NEW m \in Modules, ResolveExactModule(m) PROVE Stacked'
  BY <1>0, <1>8, StackShapes
     DEF ResolveExactModule, AfterModule, Modules, Goto, Fail, files
<1>9. ASSUME NEW m \in Modules, VerifySelectedModule(m) PROVE Stacked'
  BY <1>0, <1>9, StackShapes
     DEF VerifySelectedModule, AfterModule, Modules, Goto, Fail, files
<1>10. CASE CreateModfile
  BY <1>0, <1>10, StackShapes DEF CreateModfile, Goto, Fail
<1>11. CASE EditModfile
  <2>1. defers = Stack0 /\ made \in 1..made /\ UNCHANGED <<made, phase>>
        /\ phase \in {"prepare", "verify"}
    BY <1>0, <1>11 DEF EditModfile, Counted, Control
  <2>2. CASE defers' = <<[kind |-> "modfile", name |-> made]>> \o defers
             /\ pc' = IF phase = "prepare" THEN "download" ELSE "core"
    <3>1. defers' = Stack1(made)
      BY <2>1, <2>2, StackShapes
    <3>2. \E a \in 1..made' : defers' = Stack1(a)
      BY <2>1, <3>1
    <3>3. CASE phase = "prepare"
      BY <2>1, <2>2, <3>2, <3>3
    <3>4. CASE phase = "verify"
      BY <2>1, <2>2, <3>2, <3>4
    <3>5. QED
      BY <2>1, <3>3, <3>4
  <2>3. CASE defers' = defers /\ Fail
    BY <2>1, <2>3, StackShapes DEF Fail
  <2>4. QED
    BY <1>11, <2>2, <2>3 DEF EditModfile, Goto
<1>12. CASE DownloadGraph
  BY <1>0, <1>12, StackShapes DEF DownloadGraph, Goto, Fail, files, Control
<1>13. CASE VerifyToolModules
  BY <1>0, <1>13, StackShapes
     DEF VerifyToolModules, Goto, Fail, files, Control, Verifying
<1>14. CASE ProductPackages
  BY <1>0, <1>14, StackShapes
     DEF ProductPackages, Goto, Fail, files, Control, Verifying
<1>15. ASSUME NEW check \in Checks, RunGoCheck(check) PROVE Stacked'
  BY <1>0, <1>15, StackShapes
     DEF RunGoCheck, Goto, Fail, files, Control, Verifying
<1>16. ASSUME NEW check \in Checks, RunSpiceTool(check) PROVE Stacked'
  BY <1>0, <1>16, StackShapes
     DEF RunSpiceTool, AfterTool, Goto, Fail, files, Control, Verifying
<1>17. CASE ApplicationMirror
  <2>1. PICK a \in 1..made : defers = Stack1(a)
    BY <1>17 DEF ApplicationMirror
  <2>2. made' = made + 1 /\ a \in 1..made' /\ made + 1 \in 1..made'
    BY <1>0, <1>17 DEF ApplicationMirror
  <2>3. CASE defers' = <<[kind |-> "mirror", name |-> made + 1]>> \o defers
             /\ pc' = "verify"
    <3>1. defers' = Stack2(a, made + 1)
      BY <2>1, <2>3, StackShapes
    <3>2. QED
      BY <2>2, <2>3, <3>1
  <2>4. CASE defers' = defers /\ Fail
    BY <2>1, <2>2, <2>4, StackShapes DEF Fail
  <2>5. QED
    BY <1>17, <2>3, <2>4 DEF ApplicationMirror, Goto
<1>18. CASE DeferredCleanup
  <2>1. /\ pc = "return" /\ Head(defers).kind # "compare" /\ pc' = pc
        /\ defers' = Tail(defers) /\ made' = made
    BY <1>18 DEF DeferredCleanup
  <2>2. QED
    BY <2>1, StackShapes, SMTT(30)
<1>19. CASE Prepared
  <2>1. /\ pc = "return" /\ Head(defers).kind = "compare" /\ pc' = "modfile"
        /\ defers' = defers
    BY <1>19 DEF Prepared, Goto, files
  <2>2. QED
    BY <2>1, StackShapes
<1>20. CASE DeferredCompare
  BY <1>0, <1>20 DEF DeferredCompare
<1>21. CASE UNCHANGED vars
  BY <1>0, <1>21 DEF vars, files
<1>22. QED
  BY <1>1, <1>2, <1>3, <1>4, <1>5, <1>6, <1>7, <1>8, <1>9, <1>10, <1>11,
     <1>12, <1>13, <1>14, <1>15, <1>16, <1>17, <1>18, <1>19, <1>20, <1>21
     DEF Next, Exited

\* A step that touches no temporary file.
LEMMA DiskKept ==
    ASSUME Disk, UNCHANGED <<made, tmp, warned, defers>>,
           pc # "edit", pc' # "edit"
    PROVE  Disk'
BY DEF Disk, Pending

LEMMA DiskInv ==
    Types /\ Counted /\ Stacked /\ Disk /\ [Next]_vars => Disk'
<1> SUFFICES ASSUME Types, Counted, Stacked, Disk, [Next]_vars PROVE Disk'
  OBVIOUS
<1>0. Control /\ made \in Nat
  BY DEF Types, Counted
<1>1. CASE Execute
  BY <1>1, DiskKept DEF Execute, files
<1>2. CASE ReadContract
  BY <1>2, DiskKept DEF ReadContract, Goto, Fail, files
<1>3. CASE ReadModuleMetadata
  BY <1>3, DiskKept DEF ReadModuleMetadata, Goto, Fail, files
<1>4. CASE SelectBoundaries
  BY <1>4, DiskKept DEF SelectBoundaries, Goto, Fail, files
<1>5. CASE RunBoundary
  <2>1. /\ defers = << >> /\ defers' \in {<< >>, Stack0}
        /\ UNCHANGED <<made, tmp, warned>> /\ pc # "edit" /\ pc' # "edit"
    BY <1>5 DEF RunBoundary, Goto, Fail, Stack0, Compare, Stacked, Outer,
                Before
  <2>2. Owned(defers) = {} /\ Owned(defers') = {}
    BY <2>1, OwnedFiles
  <2>3. QED
    BY <2>1, <2>2 DEF Disk, Pending
<1>6. CASE LoopDone
  BY <1>6, DiskKept DEF LoopDone, Goto, files
<1>7. CASE Exit
  BY <1>7, DiskKept DEF Exit, Goto, files
<1>8. ASSUME NEW m \in Modules, ResolveExactModule(m) PROVE Disk'
  BY <1>8, DiskKept
     DEF ResolveExactModule, AfterModule, Modules, Goto, Fail, files
<1>9. ASSUME NEW m \in Modules, VerifySelectedModule(m) PROVE Disk'
  BY <1>9, DiskKept
     DEF VerifySelectedModule, AfterModule, Modules, Goto, Fail, files
<1>10. CASE CreateModfile
  <2>1. /\ pc = "modfile" /\ defers = Stack0
        /\ UNCHANGED <<defers, warned>>
    BY <1>10 DEF CreateModfile, Stacked, Shallow
  <2>2. Owned(defers) = {} /\ Pending = {}
    BY <2>1, OwnedFiles DEF Pending
  <2>3. CASE made' = made + 1 /\ tmp' = tmp \cup {<<"mod", made + 1>>}
             /\ pc' = "edit"
    <3>1. Pending' = {<<"mod", made + 1>>, <<"sum", made + 1>>}
      BY <2>3 DEF Pending, FilesOf
    <3>2. <<"mod", made + 1>> \notin tmp /\ <<"sum", made + 1>> \notin tmp
      BY <1>0 DEF Disk
    <3>3. tmp' \subseteq {"mod", "sum", "mirror"} \X (1..made')
      <4>1. 1..made \subseteq 1..made' /\ made + 1 \in 1..made'
        BY <1>0, <2>3
      <4>2. QED
        BY <2>3, <4>1 DEF Disk
    <3>4. warned' \subseteq tmp' /\ warned' \cap Pending' = {}
      BY <2>1, <2>3, <3>1, <3>2 DEF Disk
    <3>5. tmp' \subseteq warned' \cup Pending'
      BY <2>1, <2>2, <2>3, <3>1 DEF Disk
    <3>6. QED
      BY <2>1, <2>2, <3>3, <3>4, <3>5 DEF Disk
  <2>4. CASE UNCHANGED <<made, tmp>> /\ pc' # "edit"
    BY <2>1, <2>4, DiskKept
  <2>5. QED
    BY <1>10, <2>3, <2>4 DEF CreateModfile, Goto, Fail
<1>11. CASE EditModfile
  <2> DEFINE own == {<<"mod", made>>, <<"sum", made>>}
  <2>1. pc = "edit" /\ defers = Stack0 /\ made' = made /\ made \in 1..made
    BY <1>0, <1>11 DEF EditModfile, Stacked, Shallow, Counted
  <2>2. FilesOf("modfile", made) = own
    BY DEF FilesOf
  <2>3. Owned(defers) = {} /\ Pending = own
    BY <2>1, <2>2, OwnedFiles DEF Pending
  <2>4. /\ warned \subseteq tmp /\ warned \cap own = {}
        /\ tmp \subseteq warned \cup own
        /\ tmp \cup own \subseteq {"mod", "sum", "mirror"} \X (1..made)
    BY <2>1, <2>3 DEF Disk
  <2>5. CASE /\ tmp' = tmp \cup {<<"sum", made>>}
             /\ defers' = <<[kind |-> "modfile", name |-> made]>> \o defers
             /\ pc' # "edit" /\ warned' = warned
    <3>1. Owned(defers') = own /\ Pending' = {}
      BY <2>1, <2>2, <2>5, StackShapes, OwnedFiles DEF Pending
    <3>2. QED
      BY <2>1, <2>4, <2>5, <3>1 DEF Disk
  <2>6. CASE /\ \E present \in {tmp, tmp \cup {<<"sum", made>>}} :
                   Remove(FilesOf("modfile", made), present)
             /\ pc' # "edit" /\ defers' = defers
    <3>1. PICK present \in {tmp, tmp \cup {<<"sum", made>>}} :
             Remove(own, present)
      BY <2>2, <2>6
    <3>2. PICK kept \in SUBSET (own \cap present) :
             tmp' = (present \ own) \cup kept /\ warned' = warned \cup kept
      BY <3>1 DEF Remove
    <3>3. Owned(defers') = {} /\ Pending' = {}
      BY <2>3, <2>6 DEF Pending
    <3>4. tmp \subseteq present /\ present \subseteq tmp \cup own
      BY <3>1
    <3>5. warned' \subseteq tmp' /\ tmp' \subseteq warned'
      BY <2>4, <3>2, <3>4
    <3>6. tmp' \subseteq {"mod", "sum", "mirror"} \X (1..made')
      BY <2>1, <2>4, <3>2, <3>4
    <3>7. QED
      BY <3>3, <3>5, <3>6 DEF Disk
  <2>7. QED
    BY <1>11, <2>5, <2>6 DEF EditModfile, Goto, Fail
<1>12. CASE DownloadGraph
  BY <1>12, DiskKept DEF DownloadGraph, Goto, Fail, files
<1>13. CASE VerifyToolModules
  BY <1>13, DiskKept DEF VerifyToolModules, Goto, Fail, files
<1>14. CASE ProductPackages
  BY <1>14, DiskKept DEF ProductPackages, Goto, Fail, files
<1>15. ASSUME NEW check \in Checks, RunGoCheck(check) PROVE Disk'
  BY <1>15, DiskKept DEF RunGoCheck, Goto, Fail, files
<1>16. ASSUME NEW check \in Checks, RunSpiceTool(check) PROVE Disk'
  BY <1>16, DiskKept DEF RunSpiceTool, ToolChecks, AfterTool, Goto, Fail, files
<1>17. CASE ApplicationMirror
  <2> DEFINE own == {<<"mirror", made + 1>>}
  <2>1. PICK a \in 1..made : defers = Stack1(a)
    BY <1>17 DEF ApplicationMirror, Stacked, Inner, Shallow, Deep, ToolChecks
  <2>2. made' = made + 1 /\ pc = "mirror"
    BY <1>17 DEF ApplicationMirror
  <2>3. /\ FilesOf("mirror", made + 1) = own
        /\ Owned(defers) = {<<"mod", a>>, <<"sum", a>>} /\ Pending = {}
    BY <2>1, <2>2, OwnedFiles DEF FilesOf, Pending
  <2>4. /\ warned \subseteq tmp /\ warned \cap Owned(defers) = {}
        /\ tmp \subseteq warned \cup Owned(defers)
        /\ tmp \cap own = {} /\ Owned(defers) \cap own = {}
        /\ tmp \cup own \subseteq {"mod", "sum", "mirror"} \X (1..made')
    <3>1. 1..made \subseteq 1..made' /\ made + 1 \in 1..made'
          /\ made + 1 \notin 1..made
      BY <1>0, <2>2
    <3>2. tmp \subseteq {"mod", "sum", "mirror"} \X (1..made)
          /\ warned \subseteq tmp /\ warned \cap Owned(defers) = {}
          /\ tmp \subseteq warned \cup Owned(defers)
      BY <2>3 DEF Disk
    <3>3. tmp \cap own = {} /\ Owned(defers) \cap own = {}
      BY <2>3, <3>1, <3>2
    <3>4. tmp \cup own \subseteq {"mod", "sum", "mirror"} \X (1..made')
      BY <3>1, <3>2
    <3>5. QED
      BY <3>2, <3>3, <3>4
  <2>5. CASE /\ tmp' = tmp \cup {<<"mirror", made + 1>>}
             /\ defers' = <<[kind |-> "mirror", name |-> made + 1]>> \o defers
             /\ pc' # "edit" /\ warned' = warned
    <3>1. defers' = Stack2(a, made + 1)
      BY <2>1, <2>5, StackShapes
    <3>2. Owned(defers') = Owned(defers) \cup own /\ Pending' = {}
      BY <2>1, <2>3, <2>5, <3>1, OwnedFiles, ZenonT(40) DEF Pending
    <3>3. QED
      BY <2>4, <2>5, <3>2 DEF Disk
  <2>6. CASE /\ \E present \in {tmp, tmp \cup {<<"mirror", made + 1>>}} :
                   Remove(FilesOf("mirror", made + 1), present)
             /\ pc' # "edit" /\ defers' = defers
    <3>1. PICK present \in {tmp, tmp \cup {<<"mirror", made + 1>>}} :
             Remove(own, present)
      BY <2>3, <2>6
    <3>2. PICK kept \in SUBSET (own \cap present) :
             tmp' = (present \ own) \cup kept /\ warned' = warned \cup kept
      BY <3>1 DEF Remove
    <3>3. Owned(defers') = Owned(defers) /\ Pending' = {}
      BY <2>6 DEF Pending
    <3>4. tmp \subseteq present /\ present \subseteq tmp \cup own
      BY <3>1
    <3>5. /\ warned' \subseteq tmp' /\ warned' \cap Owned(defers) = {}
          /\ tmp' \subseteq warned' \cup Owned(defers)
      BY <2>4, <3>2, <3>4
    <3>6. tmp' \subseteq {"mod", "sum", "mirror"} \X (1..made')
      BY <2>4, <3>2, <3>4
    <3>7. QED
      BY <3>3, <3>5, <3>6 DEF Disk
  <2>7. QED
    BY <1>17, <2>5, <2>6 DEF ApplicationMirror, Goto, Fail
<1>18. CASE DeferredCleanup
  <2>1. /\ pc = "return" /\ Head(defers).kind # "compare" /\ pc' = pc
        /\ defers' = Tail(defers) /\ made' = made
        /\ Remove(FilesOf(Head(defers).kind, Head(defers).name), tmp)
    BY <1>18 DEF DeferredCleanup
  <2> DEFINE own == FilesOf(Head(defers).kind, Head(defers).name)
  <2>2. PICK kept \in SUBSET (own \cap tmp) :
           tmp' = (tmp \ own) \cup kept /\ warned' = warned \cup kept
    BY <2>1 DEF Remove
  <2>3. /\ Owned(defers) = Owned(defers') \cup own
        /\ Owned(defers') \cap own = {}
    <3>1. CASE \E a \in 1..made : defers = Stack1(a)
      <4>1. PICK a \in 1..made : defers = Stack1(a)
        BY <3>1
      <4>2. /\ own = FilesOf("modfile", a) /\ defers' = Stack0
        BY <2>1, <4>1, StackShapes
      <4>3. QED
        BY <4>1, <4>2, OwnedFiles
    <3>2. CASE \E a, b \in 1..made : defers = Stack2(a, b)
      <4>1. PICK a \in 1..made, b \in 1..made : defers = Stack2(a, b)
        BY <3>2
      <4>2. /\ own = FilesOf("mirror", b) /\ defers' = Stack1(a)
        BY <2>1, <4>1, StackShapes
      <4>3. FilesOf("mirror", b) \cap FilesOf("modfile", a) = {}
        BY DEF FilesOf
      <4>4. QED
        BY <4>1, <4>2, <4>3, OwnedFiles
    <3>3. defers # Stack0
      BY <2>1, StackShapes
    <3>4. QED
      BY <2>1, <3>1, <3>2, <3>3 DEF Stacked
  <2>4. Pending = {} /\ Pending' = {}
    BY <2>1 DEF Pending
  <2> HIDE DEF own
  <2>5. QED
    BY <2>1, <2>2, <2>3, <2>4 DEF Disk
<1>19. CASE Prepared
  BY <1>19, DiskKept DEF Prepared, Goto, files
<1>20. CASE DeferredCompare
  <2>1. /\ pc = "return" /\ Head(defers).kind = "compare"
        /\ pc' # "edit" /\ defers' = << >> /\ UNCHANGED <<made, tmp, warned>>
    BY <1>20 DEF DeferredCompare
  <2>2. defers = Stack0
    BY <2>1, StackShapes DEF Stacked
  <2>3. QED
    BY <2>1, <2>2, OwnedFiles DEF Disk, Pending
<1>21. CASE UNCHANGED vars
  BY <1>21 DEF vars, files, Disk, Pending
<1>22. QED
  BY <1>1, <1>2, <1>3, <1>4, <1>5, <1>6, <1>7, <1>8, <1>9, <1>10, <1>11,
     <1>12, <1>13, <1>14, <1>15, <1>16, <1>17, <1>18, <1>19, <1>20, <1>21
     DEF Next, Exited

-----------------------------------------------------------------------------
(***************************************************************************)
(* The repository is compared.                                             *)
(***************************************************************************)

\* Comparing sizes and looking up the paths of one side compares the maps.
LEMMA MapsEqualExact ==
    ASSUME NEW left \in Repositories, NEW right \in Repositories,
           MapsEqual(left, right)
    PROVE  left = right
<1>1. PICK S \in SUBSET Paths : left \in [S -> Digests]
  BY DEF Repositories
<1>2. PICK T \in SUBSET Paths : right \in [T -> Digests]
  BY DEF Repositories
<1>3. IsFiniteSet(T)
  BY ConstantsAssumption, FS_Subset
<1>4. S \subseteq T /\ Cardinality(S) = Cardinality(T)
  BY <1>1, <1>2 DEF MapsEqual
<1>5. S = T
  BY <1>3, <1>4, FS_Subset
<1>6. \A p \in S : left[p] = right[p]
  BY <1>1, <1>2 DEF MapsEqual
<1>7. QED
  BY <1>1, <1>2, <1>5, <1>6

\* Inside a boundary a failure returns through the deferred comparison.
LEMMA FailInside ==
    ASSUME Stacked, pc \in Inner, Fail
    PROVE  pc' = "return" /\ errors' = errors \cup {"step"}
BY StackShapes DEF Stacked, Fail, Inner, Shallow, Deep

\* A step from one place inside a boundary to another.
LEMMA KeptInside ==
    ASSUME Kept, Stacked, pc \in Inner, before' = before,
           \/ pc' \in Inner /\ errors' = errors /\ (pc = "return" => errors = {})
           \/ Fail
    PROVE  Kept'
<1>1. before = Committed
  BY DEF Kept
<1>2. pc' \in Inner /\ pc' \notin Before \cup {"exit", "done"}
      /\ (pc' # "return" => errors' = {})
  BY FailInside DEF Kept, Inner, Before
<1>3. QED
  BY <1>1, <1>2 DEF Kept

LEMMA KeptInv == Types /\ Stacked /\ Kept /\ [Next]_vars => Kept'
<1> SUFFICES ASSUME Types, Stacked, Kept, [Next]_vars PROVE Kept'
  OBVIOUS
<1>0. Control /\ Data
  BY DEF Types
<1>1. CASE Execute
  BY <1>1 DEF Execute, Kept, Before, Inner
<1>2. CASE ReadContract
  BY <1>2 DEF ReadContract, Goto, Fail, Kept, Stacked, Outer, Before, Inner
<1>3. CASE ReadModuleMetadata
  BY <1>3 DEF ReadModuleMetadata, Goto, Fail, Kept, Stacked, Outer, Before,
              Inner
<1>4. CASE SelectBoundaries
  BY <1>4 DEF SelectBoundaries, Goto, Fail, Kept, Stacked, Outer, Before, Inner
<1>5. CASE RunBoundary
  BY <1>5 DEF RunBoundary, Goto, Fail, Kept, Stacked, Outer, Before, Inner
<1>6. CASE LoopDone
  BY <1>6 DEF LoopDone, Goto, Kept, Before, Inner
<1>7. CASE Exit
  BY <1>7 DEF Exit, Goto, Kept, Before, Inner
<1>8. ASSUME NEW m \in Modules, ResolveExactModule(m) PROVE Kept'
  BY <1>8, KeptInside DEF ResolveExactModule, AfterModule, Modules, Goto, Inner
<1>9. ASSUME NEW m \in Modules, VerifySelectedModule(m) PROVE Kept'
  BY <1>9, KeptInside
     DEF VerifySelectedModule, AfterModule, Modules, Goto, Inner
<1>10. CASE CreateModfile
  BY <1>10, KeptInside DEF CreateModfile, Goto, Inner
<1>11. CASE EditModfile
  BY <1>11, KeptInside DEF EditModfile, Goto, Inner
<1>12. CASE DownloadGraph
  BY <1>12, KeptInside DEF DownloadGraph, Goto, Inner
<1>13. CASE VerifyToolModules
  BY <1>13, KeptInside DEF VerifyToolModules, Goto, Inner
<1>14. CASE ProductPackages
  BY <1>14, KeptInside DEF ProductPackages, Goto, Inner
<1>15. ASSUME NEW check \in Checks, RunGoCheck(check) PROVE Kept'
  BY <1>15, KeptInside DEF RunGoCheck, Goto, Inner
<1>16. ASSUME NEW check \in Checks, RunSpiceTool(check) PROVE Kept'
  BY <1>16, KeptInside DEF RunSpiceTool, ToolChecks, AfterTool, Goto, Inner
<1>17. CASE ApplicationMirror
  BY <1>17, KeptInside DEF ApplicationMirror, Goto, Inner
<1>18. CASE DeferredCleanup
  BY <1>18 DEF DeferredCleanup, Kept, Before, Inner
<1>19. CASE Prepared
  BY <1>19 DEF Prepared, Goto, Kept, Before, Inner
<1>20. CASE DeferredCompare
  <2>1. /\ pc = "return" /\ pc' = IF errors' = {} THEN "loop" ELSE "exit"
        /\ \/ errors' = errors \cup
                        IF MapsEqual(before, repo) THEN {} ELSE {"modified"}
           \/ errors' = errors \cup {"state"}
        /\ UNCHANGED <<repo, before>>
    BY <1>20 DEF DeferredCompare
  <2>2. before = Committed
    BY <2>1 DEF Kept, Inner
  <2>3. MapsEqual(before, repo) => repo = Committed
    BY <1>0, <2>2, MapsEqualExact DEF Data
  <2>4. repo # Committed => {"modified", "state"} \cap errors' # {}
    BY <2>1, <2>3
  <2>5. QED
    BY <2>1, <2>2, <2>4 DEF Kept, Before, Inner
<1>21. CASE UNCHANGED vars
  BY <1>21 DEF vars, Kept
<1>22. QED
  BY <1>1, <1>2, <1>3, <1>4, <1>5, <1>6, <1>7, <1>8, <1>9, <1>10, <1>11,
     <1>12, <1>13, <1>14, <1>15, <1>16, <1>17, <1>18, <1>19, <1>20, <1>21
     DEF Next, Exited

-----------------------------------------------------------------------------
(***************************************************************************)
(* The invariant of the run, and what follows from it.                     *)
(***************************************************************************)

Safe == Types /\ Counted /\ Stacked /\ Disk /\ Kept

LEMMA InitSafe == Init => Safe
<1> SUFFICES ASSUME Init PROVE Safe
  OBVIOUS
<1> USE DEF Init
<1>1. Inputs /\ Control
  BY DEF Inputs, Control, Outer, Before, Verifying
<1>2. NoPair \in Pairs
  BY DEF NoPair, Pairs
<1>3. Empty \in Repositories
  <2>1. Empty \in [{} -> Digests] /\ {} \in SUBSET Paths
    BY DEF Empty
  <2>2. QED
    BY <2>1 DEF Repositories
<1>4. Data
  BY <1>2, <1>3, ConstantsAssumption DEF Data
<1>5. Counted
  BY DEF Counted, Needed, Outer, Before
<1>6. Stacked
  BY DEF Stacked, Outer, Before, Inner, Shallow, Deep, ToolChecks
<1>7. Disk
  BY OwnedFiles DEF Disk, Pending
<1>8. Kept
  BY DEF Kept, Before, Inner
<1>9. QED
  BY <1>1, <1>4, <1>5, <1>6, <1>7, <1>8 DEF Safe, Types

\* The types, the stack of defers, the temporary files and the repository are
\* as described above in every state of a run.
THEOREM Safety == Spec => []Safe
<1>1. Safe /\ [Next]_vars => Safe'
  BY InputsInv, ControlInv, DataInv, CountedInv, StackedInv, DiskInv, KeptInv
     DEF Safe, Types
<1>2. QED
  BY <1>1, InitSafe, PTL DEF Spec

\* Every variable keeps its type: the deferred calls of runBoundary,
\* prepareBoundary and verifyBoundary nest as Go runs them, a run draws at most
\* six temporary names, and a file whose removal was reported to have failed is
\* really still there.
THEOREM TypeCorrect == Spec => []TypeOK
<1>1. Safe => TypeOK
  <2> SUFFICES ASSUME Safe PROVE TypeOK
    OBVIOUS
  <2>1. Control /\ Data /\ Counted /\ Stacked /\ Disk
    BY DEF Safe, Types
  <2>2. pc \in Modules \cup Checks \cup
               {"execute", "contract", "metadata", "boundaries", "loop",
                "modfile", "edit", "download", "tools", "packages", "mirror",
                "return", "exit", "done"}
    BY <2>1 DEF Control, Outer, Before, Inner, Modules, Checks, ToolChecks
  <2>3. todo \in {<< >>} \cup [{1} -> Pairs] \cup [{1, 2} -> Pairs]
    <3>1. /\ todo \in [1..Len(todo) -> Pairs] /\ Len(todo) \in Nat
          /\ Len(todo) <= 2
      BY <2>1 DEF Data
    <3>2. Len(todo) = 0 \/ Len(todo) = 1 \/ Len(todo) = 2
      BY <3>1
    <3>3. Len(todo) = 0 => todo = << >>
      BY <2>1 DEF Data
    <3>4. 1..1 = {1} /\ 1..2 = {1, 2}
      OBVIOUS
    <3>5. QED
      BY <3>1, <3>2, <3>3, <3>4
  <2>4. made \in 0..6
    <3>1. Needed \in Nat /\ Len(todo) \in Nat
      BY <2>1 DEF Needed, Data
    <3>2. QED
      BY <2>1, <3>1 DEF Counted
  <2>5. tmp \subseteq {"mod", "sum", "mirror"} \X (1..6) /\ warned \subseteq tmp
    <3>1. 1..made \subseteq 1..6
      BY <2>4
    <3>2. QED
      BY <2>1, <3>1 DEF Disk
  <2>6. Kinds(defers) \in {<< >>, <<"compare">>, <<"modfile", "compare">>,
                           <<"mirror", "modfile", "compare">>}
    <3>1. \/ defers = << >> \/ defers = Stack0
          \/ \E a \in 1..made : defers = Stack1(a)
          \/ \E a, b \in 1..made : defers = Stack2(a, b)
      BY <2>1 DEF Stacked, Control
    <3>2. Kinds(<< >>) = << >>
      BY DEF Kinds
    <3>3. Kinds(Stack0) = <<"compare">>
      BY DEF Kinds, Stack0, Compare
    <3>4. ASSUME NEW a PROVE Kinds(Stack1(a)) = <<"modfile", "compare">>
      BY DEF Kinds, Stack1, Compare, Cleanup
    <3>5. ASSUME NEW a, NEW b
          PROVE  Kinds(Stack2(a, b)) = <<"mirror", "modfile", "compare">>
      BY DEF Kinds, Stack2, Compare, Cleanup
    <3>6. QED
      BY <3>1, <3>2, <3>3, <3>4, <3>5
  <2>7. QED
    BY <2>1, <2>2, <2>3, <2>4, <2>5, <2>6 DEF TypeOK, Control, Data
<1>2. QED
  BY <1>1, Safety, PTL

\* Whichever step of a boundary fails, its defers leave no temporary file
\* behind that "warning: remove" was not printed for.
THEOREM NothingLeftSilently == Spec => []LeftoversWarned
<1>1. Safe => LeftoversWarned
  <2> SUFFICES ASSUME Safe, pc \in {"loop", "exit", "done"}
               PROVE  tmp \subseteq warned
    BY DEF LeftoversWarned
  <2>1. defers = << >> /\ Pending = {}
    BY DEF Safe, Stacked, Outer, Before, Pending
  <2>2. QED
    BY <2>1, OwnedFiles DEF Safe, Disk
<1>2. QED
  BY <1>1, Safety, PTL

\* A repository that differs from what was checked out is in the error that
\* run returns, whatever else failed: the comparison deferred by runBoundary
\* is the only way out of a boundary, and mapsEqual is exact.
THEOREM NoModificationHidden == Spec => []ModificationReported
<1>1. Safe => ModificationReported
  BY DEF Safe, Kept, ModificationReported
<1>2. QED
  BY <1>1, Safety, PTL

-----------------------------------------------------------------------------
(***************************************************************************)
(* A success has verified what was asked for.                              *)
(***************************************************************************)

Progress ==
    /\ Agreed /\ Accounted /\ Staged /\ Judged
    /\ PairsVerified /\ MirrorIsCommitted

\* Nothing is claimed of a run that is not done.
LEMMA NotDone ==
    ASSUME Safe, pc # "done", code' = code
    PROVE  (PairsVerified /\ MirrorIsCommitted)'
<1>1. code' # 0
  BY DEF Safe, Types, Control
<1>2. QED
  BY <1>1 DEF PairsVerified, MirrorIsCommitted

\* After a failure only what was run so far matters.
LEMMA FailProgress ==
    ASSUME Safe, Progress, pc # "done", Fail, code' = code, UNCHANGED passed
    PROVE  Progress'
<1>1. ~Good'
  BY DEF Fail, Good
<1>2. Agreed' /\ Accounted' /\ Staged'
  BY <1>1 DEF Agreed, Accounted, Staged
<1>3. Judged'
  BY <1>1 DEF Progress, Judged, passed
<1>4. QED
  BY <1>2, <1>3, NotDone DEF Progress

\* A step inside a boundary that succeeds.
LEMMA InsideProgress ==
    ASSUME Safe, Progress, pc \in Inner, pc' \in Inner, errors' = errors,
           UNCHANGED <<inputs, todo, pair, code>>, ran \subseteq ran',
           Staged', Judged'
    PROVE  Progress'
<1>1. /\ pc \notin {"execute", "contract", "metadata", "done", "exit"}
      /\ pc' \notin {"execute", "contract", "metadata", "done", "exit"}
  BY DEF Inner
<1>2. Good' => Good
  BY <1>1 DEF Good
<1>3. UNCHANGED <<line, contract, goMod>>
  BY DEF inputs
<1>4. Agreed'
  BY <1>1, <1>2, <1>3 DEF Progress, Agreed, Required
<1>5. \A versions : Verified(versions) => Verified(versions)'
  BY DEF Verified, Ran
<1>6. Asked' = Asked
  BY <1>3 DEF Asked
<1>7. Accounted'
  BY <1>1, <1>2, <1>5, <1>6 DEF Progress, Accounted
<1>8. QED
  BY <1>1, <1>4, <1>7, NotDone DEF Progress

\* No mirror has been judged in this boundary.
LEMMA JudgedKept ==
    ASSUME Judged, judged' = judged, errors' = errors,
           \A r \in ran' : r.check \in ToolChecks => r \in ran,
           pc \notin {"generate", "build", "return", "done"}
    PROVE  Judged'
BY DEF Judged, Good

\* A step of prepareBoundary.
LEMMA PrepareProgress ==
    ASSUME Safe, Progress, pc \in Inner \ {"generate", "build", "return"},
           pc' \in Inner,
           errors' = errors, UNCHANGED <<inputs, todo, pair, code>>,
           UNCHANGED passed, phase' = "prepare"
    PROVE  Progress'
<1>1. Staged'
  BY DEF Staged
<1>2. Judged'
  BY JudgedKept DEF Progress, passed, Inner
<1>3. QED
  BY <1>1, <1>2, InsideProgress DEF passed

\* What a passed check adds.
LEMMA RanGrows ==
    ASSUME NEW check, NEW mod, Passed(check, mod)
    PROVE  /\ ran \subseteq ran'
           /\ \A versions : versions = Selected(mod) => Ran(check, versions)'
           /\ \A c, versions : Ran(c, versions) => Ran(c, versions)'
           /\ \A r \in ran' : r \in ran \/ r.check = check
<1>1. [check |-> check, versions |-> Selected(mod)] \in ran'
  BY DEF Passed
<1>2. /\ [check |-> check, versions |-> Selected(mod)].check = check
      /\ [check |-> check, versions |-> Selected(mod)].versions = Selected(mod)
  OBVIOUS
<1>3. \E r \in ran' : r.check = check /\ r.versions = Selected(mod)
  BY <1>1, <1>2
<1>4. ran \subseteq ran' /\ \A r \in ran' : r \in ran \/ r.check = check
  BY DEF Passed
<1>5. ASSUME NEW c, NEW versions, Ran(c, versions) PROVE Ran(c, versions)'
  BY <1>4, <1>5 DEF Ran
<1>6. QED
  BY <1>3, <1>4, <1>5 DEF Ran

\* RequirementVersion is go.mod's version when the contract is accepted.
LEMMA ContractAgrees ==
    ASSUME Inputs, ValidateModuleContract
    PROVE  contract.minimum = Required
<1>1. contract.minimum \in [Modules -> Versions \cup {Alias}]
  BY DEF Inputs, Pairs
<1>2. ASSUME NEW m \in Modules PROVE contract.minimum[m] = goMod[m].version
  BY DEF ValidateModuleContract, RequirementVersion
<1>3. QED
  BY <1>1, <1>2 DEF Required

LEMMA ProgressOutside ==
    ASSUME Safe, Progress,
           \/ Execute \/ ReadContract \/ ReadModuleMetadata
           \/ SelectBoundaries \/ RunBoundary \/ LoopDone \/ Exit
    PROVE  Progress'
<1>0. /\ Inputs /\ Data /\ Agreed /\ Accounted /\ Staged /\ Judged /\ Control
  BY DEF Safe, Types, Progress
<1> DEFINE Quiet == pc' \notin {"core", "toolchain", "return"} \cup Verifying
                    \/ phase' = "prepare"
<1>10. Quiet => Staged'
  <2>1. \A check \in Checks : After(check) \subseteq Verifying \cup {"return"}
    BY DEF Checks, ToolChecks, After, Verifying
  <2>2. ToolChecks \subseteq Verifying
    BY DEF ToolChecks, Verifying
  <2>3. QED
    BY <2>1, <2>2 DEF Staged
<1> HIDE DEF Quiet
<1>1. CASE Execute
  <2>1. /\ pc = "execute" /\ UNCHANGED <<inputs, errors, passed>>
        /\ \/ pc' = "contract" /\ code' = code
           \/ pc' = "done" /\ code' \in {1, 2}
    BY <1>1 DEF Execute
  <2>2. code' # 0
    BY <1>0, <2>1 DEF Control
  <2>3. Agreed' /\ Accounted'
    BY <2>1 DEF Agreed, Accounted, Good, Inner
  <2>4. Judged'
    BY <1>0, <2>1 DEF Judged, Good, passed
  <2>5. Staged'
    BY <1>10, <2>1 DEF Quiet, Verifying
  <2>6. QED
    BY <2>2, <2>3, <2>4, <2>5 DEF Progress, PairsVerified, MirrorIsCommitted
<1>2. CASE ReadContract
  <2>1. pc = "contract" /\ code' = code /\ UNCHANGED passed /\ UNCHANGED inputs
    BY <1>2 DEF ReadContract
  <2>2. CASE Fail
    BY <2>1, <2>2, FailProgress
  <2>3. CASE Goto("metadata")
    <3>1. pc' = "metadata" /\ errors' = errors
      BY <2>3 DEF Goto
    <3>2. Agreed' /\ Accounted'
      BY <3>1 DEF Agreed, Accounted, Inner
    <3>3. Judged'
      BY <1>0, <2>1, <3>1 DEF Judged, Good, passed
    <3>4. Staged'
      BY <1>10, <3>1 DEF Quiet, Verifying
    <3>5. QED
      BY <2>1, <3>2, <3>3, <3>4, NotDone DEF Progress
  <2>4. QED
    BY <1>2, <2>2, <2>3 DEF ReadContract
<1>3. CASE ReadModuleMetadata
  <2>1. pc = "metadata" /\ code' = code /\ UNCHANGED passed /\ UNCHANGED inputs
    BY <1>3 DEF ReadModuleMetadata
  <2>2. CASE Fail
    BY <2>1, <2>2, FailProgress
  <2>3. CASE ValidateModuleContract /\ Goto("boundaries")
    <3>1. pc' = "boundaries" /\ errors' = errors
      BY <2>3 DEF Goto
    <3>2. Agreed'
      BY <1>0, <2>1, <2>3, ContractAgrees DEF Agreed, Required, inputs
    <3>3. Accounted'
      BY <3>1 DEF Accounted, Inner
    <3>4. Judged'
      BY <1>0, <2>1, <3>1 DEF Judged, Good, passed
    <3>5. Staged'
      BY <1>10, <3>1 DEF Quiet, Verifying
    <3>6. QED
      BY <2>1, <3>2, <3>3, <3>4, <3>5, NotDone DEF Progress
  <2>4. QED
    BY <1>3, <2>2, <2>3 DEF ReadModuleMetadata
<1>4. CASE SelectBoundaries
  <2>1. pc = "boundaries" /\ code' = code /\ UNCHANGED passed /\ UNCHANGED inputs
    BY <1>4 DEF SelectBoundaries
  <2>2. CASE Fail
    BY <2>1, <2>2, FailProgress
  <2>3. CASE line # "other" /\ todo' = Boundaries(line) /\ Goto("loop")
    <3>1. pc' = "loop" /\ errors' = errors
      BY <2>3 DEF Goto
    <3>2. Agreed'
      BY <1>0, <2>1, <3>1 DEF Agreed, Good, Required, inputs
    <3>3. /\ \A versions : versions \in Asked <=>
                \E i \in DOMAIN todo' : todo'[i] = versions
          /\ todo' \in Seq(Pairs) /\ todo' # << >>
      BY <1>0, <2>3, BoundariesPairs
    <3>4. 1 \in DOMAIN todo'
      BY <3>3
    <3>5. Asked # {}
      BY <3>3, <3>4
    <3>6. Asked' = Asked
      BY <2>1 DEF Asked, inputs
    <3>7. Accounted'
      BY <3>1, <3>3, <3>5, <3>6 DEF Accounted
    <3>8. Judged'
      BY <1>0, <2>1, <3>1 DEF Judged, Good, passed
    <3>9. Staged'
      BY <1>10, <3>1 DEF Quiet, Verifying
    <3>10. QED
      BY <2>1, <3>2, <3>7, <3>8, <3>9, NotDone DEF Progress
  <2>4. QED
    BY <1>4, <2>2, <2>3 DEF SelectBoundaries
<1>5. CASE RunBoundary
  <2>1. /\ pc = "loop" /\ code' = code /\ UNCHANGED passed /\ UNCHANGED inputs
        /\ pair' = Head(todo) /\ todo' = Tail(todo) /\ todo # << >>
        /\ phase' = "prepare"
    BY <1>5 DEF RunBoundary
  <2>2. CASE Fail
    BY <2>1, <2>2, FailProgress
  <2>3. CASE Goto("core")
    <3>1. pc' = "core" /\ errors' = errors
      BY <2>3 DEF Goto
    <3>2. Good' => Good
      BY <2>1, <3>1 DEF Good
    <3>3. Agreed'
      BY <1>0, <2>1, <3>1, <3>2 DEF Agreed, Required, inputs
    <3>4. Asked' = Asked /\ \A versions : Verified(versions)' <=> Verified(versions)
      BY <2>1 DEF Asked, inputs, Verified, Ran, passed
    <3>5. ASSUME NEW i \in DOMAIN todo
          PROVE  todo[i] = pair' \/ \E j \in DOMAIN todo' : todo'[j] = todo[i]
      <4>1. /\ DOMAIN todo = 1..Len(todo) /\ Len(todo) \in Nat
            /\ DOMAIN Tail(todo) = 1..(Len(todo) - 1)
            /\ \A j \in 1..(Len(todo) - 1) : Tail(todo)[j] = todo[j + 1]
            /\ Head(todo) = todo[1]
        BY <1>0, <2>1 DEF Data
      <4>2. CASE i = 1
        BY <2>1, <4>1, <4>2
      <4>3. CASE i # 1
        <5>1. i - 1 \in DOMAIN Tail(todo) /\ Tail(todo)[i - 1] = todo[i]
          BY <4>1, <4>3
        <5>2. QED
          BY <2>1, <5>1
      <4>4. QED
        BY <4>2, <4>3
    <3>6. Accounted'
      BY <1>0, <2>1, <3>1, <3>2, <3>4, <3>5 DEF Accounted, Inner
    <3>7. Judged'
      BY <1>0, <2>1, <3>1, <3>2 DEF Judged, passed
    <3>8. Staged'
      BY <1>10, <2>1 DEF Quiet
    <3>9. QED
      BY <2>1, <3>3, <3>6, <3>7, <3>8, NotDone DEF Progress
  <2>4. QED
    BY <1>5, <2>2, <2>3 DEF RunBoundary
<1>6. CASE LoopDone
  <2>1. /\ pc = "loop" /\ todo = << >> /\ pc' = "exit" /\ errors' = errors
        /\ UNCHANGED <<inputs, todo, passed, code>>
    BY <1>6 DEF LoopDone, Goto
  <2>2. Good' => Good
    BY <2>1 DEF Good
  <2>3. Agreed'
    BY <1>0, <2>1, <2>2 DEF Agreed, Required, inputs
  <2>4. Asked' = Asked /\ \A versions : Verified(versions)' <=> Verified(versions)
    BY <2>1 DEF Asked, inputs, Verified, Ran, passed
  <2>5. Accounted'
    BY <1>0, <2>1, <2>2, <2>4 DEF Accounted, Inner
  <2>6. Judged'
    BY <1>0, <2>1, <2>2 DEF Judged, passed
  <2>7. Staged'
    BY <1>10, <2>1 DEF Quiet, Verifying
  <2>8. QED
    BY <2>1, <2>3, <2>5, <2>6, <2>7, NotDone DEF Progress
<1>7. CASE Exit
  <2>1. /\ pc = "exit" /\ pc' = "done" /\ errors' = errors
        /\ code' = IF errors = {} THEN 0 ELSE 1
        /\ UNCHANGED <<inputs, todo, passed, repo>>
    BY <1>7 DEF Exit, Goto
  <2>2. ~Good'
    BY <2>1 DEF Good
  <2>3. Agreed' /\ Accounted' /\ Staged'
    BY <2>2 DEF Agreed, Accounted, Staged
  <2>4. Judged'
    BY <1>0, <2>1, <2>2 DEF Judged, passed
  <2>5. CASE errors = {}
    <3>1. /\ Asked # {} /\ todo = << >>
          /\ \A versions \in Asked : \/ Verified(versions)
                \/ \E i \in DOMAIN todo : todo[i] = versions
      BY <1>0, <2>1, <2>5 DEF Accounted, Good, Inner
    <3>2. \A versions \in Asked : Verified(versions)
      BY <3>1
    <3>3. line # "current" => contract.minimum \in Asked
      BY <1>0, <3>1 DEF Inputs, Asked
    <3>4. contract.minimum = Required
      BY <1>0, <2>1, <2>5 DEF Agreed, Good
    <3>6. /\ Asked # {}
          /\ \A versions \in Asked, check \in Checks :
                \E r \in ran : r.check = check /\ r.versions = versions
          /\ line # "current" =>
                \A check \in Checks : \E r \in ran :
                   r.check = check /\ r.versions = Required
      BY <3>1, <3>2, <3>3, <3>4 DEF Verified, Ran
    <3>7. PairsVerified'
      BY <2>1, <3>6 DEF PairsVerified, Asked, inputs, passed, Required
    <3>8. judged # {}
      <4>1. PICK versions \in Asked : Ran("verify", versions)
        BY <3>1, <3>2 DEF Verified, Checks, ToolChecks
      <4>2. QED
        BY <1>0, <4>1 DEF Ran, Judged, ToolChecks
    <3>9. judged \subseteq {Application(Committed)}
      BY <1>0, <2>1, <2>5 DEF Judged, Good
    <3>10. MirrorIsCommitted'
      BY <2>1, <3>8, <3>9 DEF MirrorIsCommitted, passed, Application
    <3>11. QED
      BY <2>3, <2>4, <3>7, <3>10 DEF Progress
  <2>6. CASE errors # {}
    BY <2>1, <2>3, <2>4, <2>6 DEF Progress, PairsVerified, MirrorIsCommitted
  <2>7. QED
    BY <2>5, <2>6
<1>8. QED
  BY <1>1, <1>2, <1>3, <1>4, <1>5, <1>6, <1>7

\* The steps of prepareBoundary, and of verifyBoundary up to its checks.
LEMMA ProgressPrepare ==
    ASSUME Safe, Progress,
           \/ \E m \in Modules : ResolveExactModule(m) \/ VerifySelectedModule(m)
           \/ CreateModfile \/ EditModfile \/ DownloadGraph
           \/ VerifyToolModules \/ ProductPackages
    PROVE  Progress'
<1>0. /\ Inputs /\ Data /\ Staged /\ Judged /\ Control /\ Kept
  BY DEF Safe, Types, Progress
<1>1. ASSUME NEW m \in Modules, ResolveExactModule(m) PROVE Progress'
  <2>1. /\ pc = m /\ phase' = "prepare" /\ UNCHANGED <<inputs, todo, pair, code>>
        /\ UNCHANGED passed
    BY <1>1 DEF ResolveExactModule
  <2>2. CASE Fail
    BY <2>1, <2>2, FailProgress DEF Modules
  <2>3. CASE Goto(AfterModule(m))
    <3>1. pc' \in Inner /\ errors' = errors
          /\ pc \in Inner \ {"generate", "build", "return"}
      BY <2>1, <2>3 DEF Goto, AfterModule, Modules, Inner
    <3>2. QED
      BY <2>1, <3>1, PrepareProgress
  <2>4. QED
    BY <1>1, <2>2, <2>3 DEF ResolveExactModule
<1>2. ASSUME NEW m \in Modules, VerifySelectedModule(m) PROVE Progress'
  <2>1. /\ pc = m /\ phase = "verify" /\ phase' = "verify"
        /\ UNCHANGED <<inputs, todo, pair, code, require>> /\ UNCHANGED passed
    BY <1>2 DEF VerifySelectedModule, files
  <2>2. CASE Fail
    BY <2>1, <2>2, FailProgress DEF Modules
  <2>3. CASE Selected(require)[m] = pair[m] /\ Goto(AfterModule(m))
    <3>1. errors' = errors /\ pc \in Inner /\ pc \notin {"return", "done"}
          /\ pc \notin {"generate", "build"}
      BY <2>1, <2>3 DEF Goto, Modules, Inner
    <3>2. errors = {} /\ Good /\ require = pair
      BY <1>0, <2>1, <3>1 DEF Kept, Good, Staged, Modules
    <3>3. Selected(require)' = Selected(require)
      BY <2>1 DEF Selected, inputs
    <3>4. Judged'
      BY <1>0, <2>1, <3>1, JudgedKept DEF passed
    <3>5. CASE m = "core"
      <4>1. pc' = "toolchain"
        BY <2>3, <3>5 DEF Goto, AfterModule
      <4>2. Selected(require)'["core"] = pair'["core"] /\ require' = pair'
        BY <2>1, <2>3, <3>2, <3>3, <3>5
      <4>3. \A check \in Checks : "toolchain" \notin After(check)
        BY DEF Checks, ToolChecks, After
      <4>4. Staged'
        BY <4>1, <4>2, <4>3 DEF Staged, Verifying, ToolChecks
      <4>5. QED
        BY <2>1, <3>1, <3>4, <4>1, <4>4, InsideProgress DEF Inner, passed
    <3>6. CASE m = "toolchain"
      <4>1. pc' = "tools"
        BY <2>1, <2>3, <3>6 DEF Goto, AfterModule
      <4>2. Selected(require)["core"] = pair["core"]
        BY <1>0, <2>1, <3>2, <3>6 DEF Staged
      <4>3. Selected(require) = pair
        <5>1. \A n \in Modules : Selected(require)[n] = pair[n]
          BY <2>3, <3>6, <4>2 DEF Modules
        <5>2. Selected(require) \in [Modules -> Versions]
          BY <1>0, SelectedVersions DEF Data
        <5>3. pair \in [Modules -> Versions \cup {Alias}]
          BY <1>0 DEF Data, Pairs
        <5>4. QED
          BY <5>1, <5>2, <5>3
      <4>4. Selected(require)' = pair' /\ require' = pair'
        BY <2>1, <3>2, <3>3, <4>3
      <4>5. \A check \in Checks : "tools" \notin After(check)
        BY DEF Checks, ToolChecks, After
      <4>6. Staged'
        BY <4>1, <4>4, <4>5 DEF Staged, ToolChecks
      <4>7. QED
        BY <2>1, <3>1, <3>4, <4>1, <4>6, InsideProgress DEF Inner, passed
    <3>7. QED
      BY <3>5, <3>6 DEF Modules
  <2>4. QED
    BY <1>2, <2>2, <2>3 DEF VerifySelectedModule
<1>3. CASE CreateModfile
  <2>1. /\ pc = "modfile" /\ UNCHANGED <<inputs, todo, pair, code>>
        /\ UNCHANGED passed
    BY <1>3 DEF CreateModfile
  <2>2. CASE Fail
    BY <2>1, <2>2, FailProgress
  <2>3. CASE Goto("edit")
    <3>1. pc' = "edit" /\ errors' = errors
      BY <2>3 DEF Goto
    <3>2. Judged'
      BY <1>0, <2>1, <3>1, JudgedKept DEF passed
    <3>3. \A check \in Checks : "edit" \notin After(check)
      BY DEF Checks, ToolChecks, After
    <3>4. Staged'
      BY <3>1, <3>3 DEF Staged, Verifying, ToolChecks
    <3>5. QED
      BY <2>1, <3>1, <3>2, <3>4, InsideProgress DEF Inner, passed
  <2>4. QED
    BY <1>3, <2>2, <2>3 DEF CreateModfile
<1>4. CASE EditModfile
  <2>1. /\ pc = "edit" /\ UNCHANGED <<inputs, todo, pair, phase, code>>
        /\ UNCHANGED passed
    BY <1>4 DEF EditModfile
  <2>2. CASE Fail
    BY <2>1, <2>2, FailProgress
  <2>3. CASE /\ require' = pair
             /\ Goto(IF phase = "prepare" THEN "download" ELSE "core")
    <3>1. pc' = (IF phase = "prepare" THEN "download" ELSE "core")
          /\ errors' = errors
      BY <2>3 DEF Goto
    <3>2. Judged'
      BY <1>0, <2>1, <3>1, JudgedKept DEF passed
    <3>3. \A check \in Checks : "core" \notin After(check)
      BY DEF Checks, ToolChecks, After
    <3>4. Staged'
      BY <2>1, <2>3, <3>1, <3>3 DEF Staged, Verifying, ToolChecks
    <3>5. QED
      BY <2>1, <3>1, <3>2, <3>4, InsideProgress DEF Inner, passed
  <2>4. QED
    BY <1>4, <2>2, <2>3 DEF EditModfile
<1>5. CASE DownloadGraph
  <2>1. /\ pc = "download" /\ phase' = "prepare"
        /\ UNCHANGED <<inputs, todo, pair, code>> /\ UNCHANGED passed
    BY <1>0, <1>5 DEF DownloadGraph, Control
  <2>2. CASE Fail
    BY <2>1, <2>2, FailProgress
  <2>3. CASE Goto("return")
    BY <2>1, <2>3, PrepareProgress DEF Goto, Inner
  <2>4. QED
    BY <1>5, <2>2, <2>3 DEF DownloadGraph
<1>6. ASSUME VerifyToolModules \/ ProductPackages PROVE Progress'
  <2>1. /\ pc \in {"tools", "packages"}
        /\ UNCHANGED <<inputs, todo, pair, phase, code, require>>
        /\ UNCHANGED passed
    BY <1>6 DEF VerifyToolModules, ProductPackages, files
  <2>2. CASE Fail
    BY <2>1, <2>2, FailProgress
  <2>3. CASE pc' \in {"packages", "vet"} /\ errors' = errors
    <3>1. phase = "verify" /\ Good /\ require = pair /\ Selected(require) = pair
      BY <1>0, <2>1 DEF Control, Verifying, Kept, Inner, Good, Staged
    <3>2. Judged'
      BY <1>0, <2>1, <2>3, JudgedKept DEF passed
    <3>3. \A check \in Checks : {"packages", "vet"} \cap After(check) = {}
      BY DEF Checks, ToolChecks, After
    <3>4. Selected(require)' = pair' /\ require' = pair'
      BY <2>1, <3>1 DEF Selected, inputs
    <3>5. Staged'
      BY <2>3, <3>3, <3>4 DEF Staged, ToolChecks
    <3>6. QED
      BY <2>1, <2>3, <3>2, <3>5, InsideProgress DEF Inner, passed
  <2>4. QED
    BY <1>6, <2>2, <2>3 DEF VerifyToolModules, ProductPackages, Goto
<1>7. QED
  BY <1>1, <1>2, <1>3, <1>4, <1>5, <1>6

\* The checks of verifyBoundary.
LEMMA ProgressChecks ==
    ASSUME Safe, Progress,
           \/ \E check \in Checks : RunGoCheck(check) \/ RunSpiceTool(check)
           \/ ApplicationMirror
    PROVE  Progress'
<1>0. /\ Inputs /\ Data /\ Staged /\ Judged /\ Control /\ Kept
  BY DEF Safe, Types, Progress
<1>1. ASSUME NEW check \in Checks, RunGoCheck(check) PROVE Progress'
  <2>1. /\ pc = check /\ check \in {"vet", "test"}
        /\ UNCHANGED <<inputs, todo, pair, phase, code, require>>
    BY <1>1 DEF RunGoCheck, files
  <2>2. CASE Fail /\ UNCHANGED passed
    BY <2>1, <2>2, FailProgress
  <2>3. CASE /\ Passed(check, require) /\ UNCHANGED judged
             /\ Goto(IF check = "vet" THEN "test" ELSE "mirror")
    <3>1. errors' = errors /\ pc' = IF check = "vet" THEN "test" ELSE "mirror"
      BY <2>3 DEF Goto
    <3>2. phase = "verify" /\ Good /\ require = pair /\ Selected(require) = pair
      BY <1>0, <2>1 DEF Control, Verifying, Kept, Inner, Good, Staged
    <3>3. /\ ran \subseteq ran' /\ Ran(check, pair)'
          /\ \A c, versions : Ran(c, versions) => Ran(c, versions)'
          /\ \A r \in ran' : r \in ran \/ r.check = check
      <4>1. PICK versions : versions = pair
        OBVIOUS
      <4>2. Ran(check, versions)'
        BY <2>3, <3>2, <4>1, RanGrows
      <4>3. Ran(check, pair)'
        BY <2>1, <4>1, <4>2 DEF Ran
      <4>4. QED
        BY <2>3, <4>3, RanGrows
    <3>4. Judged'
      BY <1>0, <2>1, <2>3, <3>1, <3>3, JudgedKept DEF ToolChecks
    <3>5. Selected(require)' = pair' /\ require' = pair'
      BY <2>1, <3>2 DEF Selected, inputs
    <3>6. ASSUME NEW c \in Checks, pc' \in After(c) PROVE Ran(c, pair)'
      <4>1. CASE c = check
        BY <3>3, <4>1
      <4>2. CASE c # check
        <5>1. pc \in After(c)
          BY <2>1, <3>1, <3>6, <4>2 DEF After, Checks, ToolChecks
        <5>2. Ran(c, pair)
          BY <1>0, <3>2, <5>1 DEF Staged
        <5>3. PICK r \in ran : r.check = c /\ r.versions = pair
          BY <5>2 DEF Ran
        <5>4. QED
          BY <2>1, <3>3, <5>3 DEF Ran
      <4>3. QED
        BY <4>1, <4>2
    <3>7. Staged'
      BY <2>1, <3>1, <3>5, <3>6 DEF Staged, ToolChecks
    <3>8. QED
      BY <2>1, <3>1, <3>3, <3>4, <3>7, InsideProgress DEF Inner
  <2>4. QED
    BY <1>1, <2>2, <2>3 DEF RunGoCheck
<1>2. ASSUME NEW check \in Checks, RunSpiceTool(check) PROVE Progress'
  <2>1. /\ pc = check /\ check \in ToolChecks
        /\ UNCHANGED <<inputs, todo, pair, phase, repo, code, require, mirror>>
    BY <1>2 DEF RunSpiceTool, files
  <2>2. CASE Fail /\ UNCHANGED passed
    BY <2>1, <2>2, FailProgress DEF ToolChecks
  <2>3. CASE /\ Passed(check, mirror.require)
             /\ judged' = judged \cup {mirror.files}
             /\ Goto(AfterTool(check))
    <3>1. errors' = errors /\ pc' = AfterTool(check)
          /\ pc' \in {"generate", "build", "return"}
      BY <2>1, <2>3 DEF Goto, AfterTool, ToolChecks
    <3>2. /\ phase = "verify" /\ Good /\ require = pair
          /\ Selected(require) = pair /\ mirror.require = require
          /\ mirror.files = Application(repo)
      BY <1>0, <2>1
         DEF Control, Verifying, Kept, Inner, Good, Staged, ToolChecks
    <3>3. /\ ran \subseteq ran' /\ Ran(check, pair)'
          /\ \A c, versions : Ran(c, versions) => Ran(c, versions)'
          /\ \A r \in ran' : r \in ran \/ r.check = check
      <4>1. PICK versions : versions = pair
        OBVIOUS
      <4>2. Ran(check, versions)'
        BY <2>3, <3>2, <4>1, RanGrows
      <4>3. Ran(check, pair)'
        BY <2>1, <4>1, <4>2 DEF Ran
      <4>4. QED
        BY <2>3, <4>3, RanGrows
    <3>4. Judged'
      <4>1. judged \subseteq {Application(Committed), Application(repo)}
        BY <1>0, <3>2 DEF Judged
      <4>2. judged' \subseteq {Application(Committed), Application(repo)'}
        BY <2>1, <2>3, <3>2, <4>1 DEF Application
      <4>3. judged' # {}
        BY <2>3
      <4>4. Application(Committed)' = Application(Committed)
        BY DEF Application
      <4>5. QED
        BY <2>1, <3>1, <3>2, <4>2, <4>3, <4>4 DEF Judged
    <3>5. Selected(require)' = pair' /\ require' = pair'
      BY <2>1, <3>2 DEF Selected, inputs
    <3>6. ASSUME NEW c \in Checks, pc' \in After(c) PROVE Ran(c, pair)'
      <4>1. CASE c = check
        BY <3>3, <4>1
      <4>2. CASE c # check
        <5>1. pc \in After(c)
          BY <2>1, <3>1, <3>6, <4>2 DEF After, Checks, ToolChecks, AfterTool
        <5>2. Ran(c, pair)
          BY <1>0, <3>2, <5>1 DEF Staged
        <5>3. PICK r \in ran : r.check = c /\ r.versions = pair
          BY <5>2 DEF Ran
        <5>4. QED
          BY <2>1, <3>3, <5>3 DEF Ran
      <4>3. QED
        BY <4>1, <4>2
    <3>7. (mirror.require = require /\ mirror.files = Application(repo))'
      BY <2>1, <3>2 DEF Application
    <3>8. Staged'
      BY <2>1, <3>1, <3>5, <3>6, <3>7 DEF Staged
    <3>9. QED
      BY <2>1, <3>1, <3>3, <3>4, <3>8, InsideProgress DEF Inner, ToolChecks
  <2>4. QED
    BY <1>2, <2>2, <2>3 DEF RunSpiceTool
<1>3. CASE ApplicationMirror
  <2>1. /\ pc = "mirror"
        /\ UNCHANGED <<inputs, todo, pair, phase, repo, code, require>>
        /\ UNCHANGED passed
    BY <1>3 DEF ApplicationMirror
  <2>2. CASE Fail
    BY <2>1, <2>2, FailProgress
  <2>3. CASE /\ mirror' = [require |-> require, files |-> Application(repo)]
             /\ Goto("verify")
    <3>1. errors' = errors /\ pc' = "verify"
      BY <2>3 DEF Goto
    <3>2. phase = "verify" /\ Good /\ require = pair /\ Selected(require) = pair
      BY <1>0, <2>1 DEF Control, Verifying, Kept, Inner, Good, Staged
    <3>3. Judged'
      BY <1>0, <2>1, <3>1, JudgedKept DEF passed
    <3>4. Selected(require)' = pair' /\ require' = pair'
      BY <2>1, <3>2 DEF Selected, inputs
    <3>5. (mirror.require = require /\ mirror.files = Application(repo))'
      BY <2>1, <2>3 DEF Application
    <3>6. ASSUME NEW c \in Checks, pc' \in After(c) PROVE Ran(c, pair)'
      <4>1. pc \in After(c)
        BY <2>1, <3>1, <3>6 DEF After, Checks, ToolChecks
      <4>2. Ran(c, pair)
        BY <1>0, <3>2, <4>1 DEF Staged
      <4>3. QED
        BY <2>1, <4>2 DEF Ran, passed
    <3>7. Staged'
      BY <3>1, <3>4, <3>5, <3>6 DEF Staged
    <3>8. QED
      BY <2>1, <3>1, <3>3, <3>7, InsideProgress DEF Inner, passed
  <2>4. QED
    BY <1>3, <2>2, <2>3 DEF ApplicationMirror
<1>4. QED
  BY <1>1, <1>2, <1>3

\* The deferred calls.
LEMMA ProgressReturn ==
    ASSUME Safe, Progress, DeferredCleanup \/ Prepared \/ DeferredCompare
    PROVE  Progress'
<1>0. /\ Inputs /\ Data /\ Agreed /\ Accounted /\ Staged /\ Judged /\ Control
      /\ Kept /\ pc = "return"
  BY DEF Safe, Types, Progress, DeferredCleanup, Prepared, DeferredCompare
<1>1. CASE DeferredCleanup
  <2>1. /\ pc' = pc
        /\ UNCHANGED <<inputs, todo, pair, phase, repo, code, require, mirror,
                       errors>>
        /\ UNCHANGED passed
    BY <1>1 DEF DeferredCleanup
  <2>2. Judged'
    BY <1>0, <2>1 DEF Judged, Good, passed, Application
  <2>3. Staged'
    BY <1>0, <2>1 DEF Staged, Good, Ran, passed, Verifying, ToolChecks
  <2>4. QED
    BY <1>0, <2>1, <2>2, <2>3, InsideProgress DEF Inner, passed
<1>2. CASE Prepared
  <2>1. /\ phase = "prepare" /\ errors = {} /\ errors' = errors
        /\ phase' = "verify" /\ pc' = "modfile"
        /\ UNCHANGED <<inputs, todo, pair, code>> /\ UNCHANGED passed
    BY <1>2 DEF Prepared, Goto
  <2>2. judged \subseteq {Application(Committed)}
    BY <1>0, <2>1 DEF Judged, Good
  <2>3. Judged'
    BY <1>0, <2>1, <2>2 DEF Judged, passed, Application
  <2>4. \A check \in Checks : "modfile" \notin After(check)
    BY DEF Checks, ToolChecks, After
  <2>5. Staged'
    BY <2>1, <2>4 DEF Staged, Verifying, ToolChecks
  <2>6. QED
    BY <1>0, <2>1, <2>3, <2>5, InsideProgress DEF Inner, passed
<1>3. CASE DeferredCompare
  <2>1. /\ phase = "verify" \/ errors # {}
        /\ \/ errors' = errors \cup
                        IF MapsEqual(before, repo) THEN {} ELSE {"modified"}
           \/ errors' = errors \cup {"state"}
        /\ pc' = IF errors' = {} THEN "loop" ELSE "exit"
        /\ UNCHANGED <<inputs, todo, pair, phase, repo, code>>
        /\ UNCHANGED passed
    BY <1>3 DEF DeferredCompare
  <2>2. CASE errors' # {}
    <3>1. ~Good'
      BY <2>2 DEF Good
    <3>2. Agreed' /\ Accounted' /\ Staged'
      BY <3>1 DEF Agreed, Accounted, Staged
    <3>3. Judged'
      BY <1>0, <2>1, <3>1 DEF Judged, passed
    <3>4. QED
      BY <1>0, <2>1, <3>2, <3>3, NotDone DEF Progress
  <2>3. CASE errors' = {}
    <3>1. /\ errors = {} /\ MapsEqual(before, repo) /\ pc' = "loop" /\ Good
          /\ phase = "verify"
      BY <1>0, <2>1, <2>3 DEF Good
    <3>2. repo = Committed
      BY <1>0, <3>1, MapsEqualExact DEF Data, Kept, Inner
    <3>3. Verified(pair)
      <4>1. \A check \in Checks : "return" \in After(check)
        BY DEF Checks, ToolChecks, After
      <4>2. QED
        BY <1>0, <3>1, <4>1 DEF Staged, Verified
    <3>4. Agreed'
      BY <1>0, <2>1, <3>1 DEF Agreed, Required, inputs
    <3>5. Asked' = Asked /\ \A versions : Verified(versions)' <=> Verified(versions)
      BY <2>1 DEF Asked, inputs, Verified, Ran, passed
    <3>6. Accounted'
      BY <1>0, <2>1, <3>1, <3>3, <3>5 DEF Accounted, Inner
    <3>7. judged \subseteq {Application(Committed)}
      BY <1>0, <3>1, <3>2 DEF Judged
    <3>8. Judged'
      BY <1>0, <2>1, <3>1, <3>7 DEF Judged, passed, Application
    <3>9. \A check \in Checks : "loop" \notin After(check)
      BY DEF Checks, ToolChecks, After
    <3>10. Staged'
      BY <3>1, <3>9 DEF Staged, Verifying, ToolChecks
    <3>11. QED
      BY <1>0, <2>1, <3>4, <3>6, <3>8, <3>10, NotDone DEF Progress
  <2>4. QED
    BY <2>2, <2>3
<1>4. QED
  BY <1>1, <1>2, <1>3

\* Nothing changes when the program has ended.
LEMMA ProgressStays == ASSUME Progress, UNCHANGED vars PROVE Progress'
<1>1. /\ UNCHANGED <<line, contract, goMod, graph, pc, todo, pair, phase, repo>>
      /\ UNCHANGED <<require, mirror, errors, ran, judged, code>>
  BY DEF vars, inputs, files, passed
<1>2. Good' <=> Good
  BY <1>1 DEF Good
<1>3. Asked' = Asked /\ Required' = Required
  BY <1>1 DEF Asked, Required
<1>4. \A check, versions : Ran(check, versions)' <=> Ran(check, versions)
  BY <1>1 DEF Ran
<1>5. Agreed'
  BY <1>1, <1>2, <1>3 DEF Progress, Agreed
<1>6. Accounted'
  BY <1>1, <1>2, <1>3, <1>4 DEF Progress, Accounted, Verified
<1>7. Staged'
  <2>1. Selected(require)' = Selected(require)
    BY <1>1 DEF Selected
  <2>2. Application(repo)' = Application(repo)
    BY <1>1 DEF Application
  <2>3. QED
    BY <1>1, <1>2, <1>4, <2>1, <2>2 DEF Progress, Staged
<1>8. Judged'
  <2>1. Application(repo)' = Application(repo)
    BY <1>1 DEF Application
  <2>2. QED
    BY <1>1, <1>2, <2>1 DEF Progress, Judged
<1>9. PairsVerified' /\ MirrorIsCommitted'
  BY <1>1, <1>3 DEF Progress, PairsVerified, MirrorIsCommitted
<1>10. QED
  BY <1>5, <1>6, <1>7, <1>8, <1>9 DEF Progress

LEMMA InitProgress == Init => Progress
<1> SUFFICES ASSUME Init PROVE Progress
  OBVIOUS
<1>1. pc = "execute" /\ ran = {} /\ judged = {} /\ code = 9 /\ phase = "prepare"
  BY DEF Init
<1>2. Agreed /\ Accounted /\ Staged
  BY <1>1 DEF Agreed, Accounted, Staged, Inner
<1>3. Judged /\ PairsVerified /\ MirrorIsCommitted
  BY <1>1 DEF Judged, PairsVerified, MirrorIsCommitted
<1>4. QED
  BY <1>2, <1>3 DEF Progress

\* As long as no step fails, the runner has verified every pair that -line
\* names except those still ahead, each check of the current pair ran with the
\* pair's own versions, and the mirror is the application as it is now.
THEOREM Verification == Spec => []Progress
<1>1. Safe /\ Progress /\ [Next]_vars => Progress'
  <2> SUFFICES ASSUME Safe, Progress, [Next]_vars PROVE Progress'
    OBVIOUS
  <2>1. CASE \/ Execute \/ ReadContract \/ ReadModuleMetadata
             \/ SelectBoundaries \/ RunBoundary \/ LoopDone \/ Exit
    BY <2>1, ProgressOutside
  <2>2. CASE \/ \E m \in Modules :
                   ResolveExactModule(m) \/ VerifySelectedModule(m)
             \/ CreateModfile \/ EditModfile \/ DownloadGraph
             \/ VerifyToolModules \/ ProductPackages
    BY <2>2, ProgressPrepare
  <2>3. CASE \/ \E check \in Checks : RunGoCheck(check) \/ RunSpiceTool(check)
             \/ ApplicationMirror
    BY <2>3, ProgressChecks
  <2>4. CASE DeferredCleanup \/ Prepared \/ DeferredCompare
    BY <2>4, ProgressReturn
  <2>5. CASE UNCHANGED vars
    BY <2>5, ProgressStays
  <2>6. QED
    BY <2>1, <2>2, <2>3, <2>4, <2>5 DEF Next, Exited
<1>2. QED
  BY <1>1, InitProgress, Safety, PTL DEF Spec

\* A run that exits with 0 has vetted, tested, verified, generated and built
\* the application with exactly the versions of every pair it was asked for,
\* and, unless only the current pair was asked for, with the versions go.mod
\* requires: an alias or a version that minimal version selection raises fails.
THEOREM PairsAreVerified == Spec => []PairsVerified
<1>1. Progress => PairsVerified
  BY DEF Progress
<1>2. QED
  BY <1>1, Verification, PTL

\* A run that exits with 0 judged the committed application in its mirror: a
\* mirror copied from a repository that a go command had changed is caught by
\* the comparison deferred in runBoundary, which returns before the next pair.
THEOREM MirrorWasCommitted == Spec => []MirrorIsCommitted
<1>1. Progress => MirrorIsCommitted
  BY DEF Progress
<1>2. QED
  BY <1>1, Verification, PTL
=============================================================================
