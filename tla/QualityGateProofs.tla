-------------------------- MODULE QualityGateProofs --------------------------
(***************************************************************************)
(* Theorems about QualityGate, for any number of files, any batch size,    *)
(* any defects and any complaints of the formatters.                       *)
(***************************************************************************)
EXTENDS QualityGate, SequenceTheorems, TLAPS

-----------------------------------------------------------------------------
(***************************************************************************)
(* Programs: sequences of instructions.                                    *)
(***************************************************************************)

Kinds == {"run", "path", "list", "write", "identity", "make", "compare",
          "close", "threshold"}
Names == {"goimports", "gofumpt", "repository", "tidy", "tidy tools",
          "vendor", "mod vendor", "spicestyle", "vet", "golangci-lint",
          "nilaway", "gosec", "govulncheck", "test shuffled", "test race",
          "profile", "test business packages", "cover", "coverage",
          "vendored test", "vendored build", "spice verify",
          "spice generate", "spice build", "spice run", "corecompat"}
Instructions == Kinds \X Names

\* i is an instruction of s.
In(i, s) == \E k \in DOMAIN s : s[k] = i

\* Every a of s has a b after it.
Follows(s, a, b) ==
    \A k \in DOMAIN s : s[k] = a => \E l \in DOMAIN s : l > k /\ s[l] = b

\* Every file that s closes is the profile, made before or in `present`.
Closes(s, present) ==
    \A k \in DOMAIN s : s[k][1] = "close" =>
        \/ "profile" \in present
        \/ \E l \in DOMAIN s : l < k /\ s[l] = <<"make", "profile">>

\* Only the two temporary files are made, and the profile is closed later.
WellMade(s) ==
    /\ \A k \in DOMAIN s :
          s[k][1] = "make" => s[k][2] \in {"vendor", "profile"}
    /\ Follows(s, <<"make", "profile">>, <<"close", "profile">>)

\* Only the formatters write, and what goimports wrote gofumpt writes later.
WellFormatted(s) ==
    /\ \A k \in DOMAIN s : s[k][1] = "write" => s[k][2] \in Formatters
    /\ Follows(s, <<"write", "goimports">>, <<"write", "gofumpt">>)

Programs == {s \in Seq(Instructions) : WellMade(s) /\ WellFormatted(s)}

\* Programs that rewrite no file.
Reads == {s \in Programs : \A k \in DOMAIN s : s[k][1] # "write"}

\* Programs that can be a whole step.
Starts(S) == {s \in S : Closes(s, {})}

LEMMA TailFollows ==
    ASSUME NEW S, NEW s \in Seq(S), s # << >>, NEW a, NEW b, Follows(s, a, b)
    PROVE  Follows(Tail(s), a, b)
<1> SUFFICES ASSUME NEW k \in DOMAIN Tail(s), Tail(s)[k] = a
             PROVE  \E l \in DOMAIN Tail(s) : l > k /\ Tail(s)[l] = b
  BY DEF Follows
<1>1. /\ DOMAIN Tail(s) = 1 .. Len(s) - 1 /\ DOMAIN s = 1 .. Len(s)
      /\ Len(s) \in Nat
      /\ \A i \in 1 .. Len(s) - 1 : Tail(s)[i] = s[i + 1]
  OBVIOUS
<1>2. k + 1 \in DOMAIN s /\ s[k + 1] = a
  BY <1>1
<1>3. PICK l \in DOMAIN s : l > k + 1 /\ s[l] = b
  BY <1>2 DEF Follows
<1>4. l - 1 \in DOMAIN Tail(s) /\ l - 1 > k /\ Tail(s)[l - 1] = b
  BY <1>1, <1>3
<1>5. QED
  BY <1>4

LEMMA TailFacts ==
    ASSUME NEW S, NEW s \in Seq(S), s # << >>
    PROVE  /\ Tail(s) \in Seq(S) /\ Head(s) \in S
           /\ 1 \in DOMAIN s /\ Head(s) = s[1]
           /\ \A k \in DOMAIN Tail(s) : k + 1 \in DOMAIN s
                                        /\ Tail(s)[k] = s[k + 1]
           /\ \A i : In(i, s) <=> i = Head(s) \/ In(i, Tail(s))
<1>1. /\ DOMAIN Tail(s) = 1 .. Len(s) - 1 /\ DOMAIN s = 1 .. Len(s)
      /\ Len(s) \in Nat /\ Len(s) > 0
      /\ Tail(s) \in Seq(S) /\ Head(s) = s[1]
      /\ \A i \in 1 .. Len(s) - 1 : Tail(s)[i] = s[i + 1]
  OBVIOUS
<1>2. ASSUME NEW i PROVE In(i, s) <=> i = Head(s) \/ In(i, Tail(s))
  <2>1. ASSUME NEW k \in DOMAIN s, s[k] = i, k # 1
        PROVE  In(i, Tail(s))
    <3>1. k - 1 \in DOMAIN Tail(s) /\ Tail(s)[k - 1] = i
      BY <1>1, <2>1
    <3>2. QED
      BY <3>1 DEF In
  <2>2. In(i, s) => i = Head(s) \/ In(i, Tail(s))
    BY <1>1, <2>1 DEF In
  <2>3. In(i, Tail(s)) => In(i, s)
    <3>1. ASSUME NEW k \in DOMAIN Tail(s), Tail(s)[k] = i PROVE In(i, s)
      <4>1. k + 1 \in DOMAIN s /\ s[k + 1] = i
        BY <1>1, <3>1
      <4>2. QED
        BY <4>1 DEF In
    <3>2. QED
      BY <3>1 DEF In
  <2>4. i = Head(s) => In(i, s)
    BY <1>1 DEF In
  <2>5. QED
    BY <2>2, <2>3, <2>4
<1>3. 1 \in DOMAIN s /\ Head(s) \in S
  BY <1>1
<1>4. \A k \in DOMAIN Tail(s) : k + 1 \in DOMAIN s /\ Tail(s)[k] = s[k + 1]
  BY <1>1
<1>5. QED
  BY <1>1, <1>2, <1>3, <1>4

LEMMA TailProgram ==
    ASSUME NEW s \in Programs, s # << >>
    PROVE  Tail(s) \in Programs /\ (s \in Reads => Tail(s) \in Reads)
<1>1. s \in Seq(Instructions)
  BY DEF Programs
<1>2. /\ Tail(s) \in Seq(Instructions)
      /\ \A k \in DOMAIN Tail(s) : k + 1 \in DOMAIN s /\ Tail(s)[k] = s[k + 1]
  BY <1>1, TailFacts
<1>3. WellFormatted(Tail(s))
  <2>1. Follows(Tail(s), <<"write", "goimports">>, <<"write", "gofumpt">>)
    BY <1>1, TailFollows DEF Programs, WellFormatted
  <2>2. QED
    BY <1>2, <2>1 DEF Programs, WellFormatted
<1>4. Follows(Tail(s), <<"make", "profile">>, <<"close", "profile">>)
  BY <1>1, TailFollows DEF Programs, WellMade
<1>5. WellMade(Tail(s))
  BY <1>2, <1>4 DEF Programs, WellMade
<1>6. QED
  BY <1>2, <1>3, <1>5 DEF Programs, Reads

\* Short sequences, element by element.
LEMMA Singleton ==
    ASSUME NEW S, NEW a \in S
    PROVE  /\ <<a>> \in Seq(S) /\ <<a>> # << >> /\ Head(<<a>>) = a
           /\ Len(<<a>>) = 1
           /\ \A i : In(i, <<a>>) <=> i = a
BY DEF In

LEMMA Pair ==
    ASSUME NEW S, NEW a \in S, NEW b \in S
    PROVE  /\ <<a, b>> \in Seq(S) /\ <<a, b>> # << >> /\ Head(<<a, b>>) = a
           /\ Len(<<a, b>>) = 2 /\ <<a, b>>[2] = b
           /\ \A i : In(i, <<a, b>>) <=> i = a \/ i = b
BY DEF In

LEMMA Quadruple ==
    ASSUME NEW S, NEW a \in S, NEW b \in S, NEW c \in S, NEW d \in S
    PROVE  /\ <<a, b, c, d>> \in Seq(S) /\ <<a, b, c, d>> # << >>
           /\ Len(<<a, b, c, d>>) = 4
           /\ <<a, b, c, d>>[1] = a /\ <<a, b, c, d>>[2] = b
           /\ <<a, b, c, d>>[3] = c /\ <<a, b, c, d>>[4] = d
           /\ \A i : In(i, <<a, b, c, d>>)
                        <=> i = a \/ i = b \/ i = c \/ i = d
BY DEF In

LEMMA Quintuple ==
    ASSUME NEW S, NEW a \in S, NEW b \in S, NEW c \in S, NEW d \in S,
           NEW e \in S
    PROVE  /\ <<a, b, c, d, e>> \in Seq(S) /\ <<a, b, c, d, e>> # << >>
           /\ Len(<<a, b, c, d, e>>) = 5
           /\ Head(<<a, b, c, d, e>>) = a /\ <<a, b, c, d, e>>[1] = a
           /\ <<a, b, c, d, e>>[2] = b
           /\ <<a, b, c, d, e>>[3] = c /\ <<a, b, c, d, e>>[4] = d
           /\ <<a, b, c, d, e>>[5] = e
           /\ \A i : In(i, <<a, b, c, d, e>>)
                        <=> i = a \/ i = b \/ i = c \/ i = d \/ i = e
BY DEF In

\* A program without a file to make or to rewrite.
LEMMA PlainProgram ==
    ASSUME NEW s \in Seq(Instructions),
           \A i : In(i, s) => i[1] \notin {"make", "write", "close"}
    PROVE  s \in Starts(Reads)
BY DEF Reads, Programs, WellMade, WellFormatted, Follows, In, Starts, Closes

\* What an instruction is and which kind it has.
LEMMA Commands ==
    ASSUME NEW name \in Names
    PROVE  /\ run(name) \in Instructions /\ run(name)[1] = "run"
           /\ path(name) \in Instructions /\ path(name)[1] = "path"
           /\ run(name)[2] = name /\ path(name)[2] = name
BY DEF run, path, Instructions, Kinds

LEMMA Named ==
    /\ "goimports" \in Names
    /\ "gofumpt" \in Names
    /\ "tidy" \in Names
    /\ "tidy tools" \in Names
    /\ "mod vendor" \in Names
    /\ "spicestyle" \in Names
    /\ "vet" \in Names
    /\ "golangci-lint" \in Names
    /\ "nilaway" \in Names
    /\ "gosec" \in Names
    /\ "govulncheck" \in Names
    /\ "test shuffled" \in Names
    /\ "test race" \in Names
    /\ "test business packages" \in Names
    /\ "cover" \in Names
    /\ "vendored test" \in Names
    /\ "vendored build" \in Names
    /\ "spice verify" \in Names
    /\ "spice generate" \in Names
    /\ "spice build" \in Names
    /\ "spice run" \in Names
    /\ "corecompat" \in Names
BY DEF Names

\* The steps of the gate.
LEMMA StepPrograms ==
    /\ checkIdentity \in Starts(Reads) /\ formatting(FALSE) \in Starts(Reads)
    /\ checkModule \in Starts(Reads) /\ style \in Starts(Reads) /\ vet \in Starts(Reads)
    /\ lint \in Starts(Reads) /\ security \in Starts(Reads) /\ tests \in Starts(Reads)
    /\ coverage \in Starts(Reads) /\ offline \in Starts(Reads)
    /\ spiceApplication \in Starts(Reads) /\ compatibility \in Starts(Reads)
    /\ formatting(TRUE) \in Starts(Programs)
<1>1. checkIdentity \in Starts(Reads) /\ style \in Starts(Reads) /\ vet \in Starts(Reads)
      /\ compatibility \in Starts(Reads)
  <2>1. \A i \in Instructions : /\ <<i>> \in Seq(Instructions)
                                /\ \A j : In(j, <<i>>) => j = i
    BY Singleton
  <2>2. \A i \in Instructions : i[1] \notin {"make", "write", "close"} => <<i>> \in Starts(Reads)
    BY <2>1, PlainProgram
  <2>3. checkIdentity \in Starts(Reads)
    BY <2>2 DEF checkIdentity, Instructions, Kinds, Names
  <2>4. style \in Starts(Reads) /\ vet \in Starts(Reads) /\ compatibility \in Starts(Reads)
    BY <2>2, Commands, Named DEF style, vet, compatibility
  <2>5. QED
    BY <2>3, <2>4
<1>2. ASSUME NEW a \in Instructions, NEW b \in Instructions,
             a[1] \notin {"make", "write", "close"}, b[1] \notin {"make", "write", "close"}
      PROVE  <<a, b>> \in Starts(Reads)
  <2>1. /\ <<a, b>> \in Seq(Instructions)
        /\ \A j : In(j, <<a, b>>) => j = a \/ j = b
    BY Pair
  <2>2. QED
    BY <1>2, <2>1, PlainProgram
<1>3. tests \in Starts(Reads) /\ offline \in Starts(Reads)
  BY <1>2, Commands, Named DEF tests, offline
<1>4. ASSUME NEW a \in Instructions, NEW b \in Instructions,
             NEW c \in Instructions, NEW d \in Instructions,
             a[1] \notin {"make", "write", "close"}, b[1] \notin {"make", "write", "close"},
             c[1] \notin {"make", "write", "close"}, d[1] \notin {"make", "write", "close"}
      PROVE  <<a, b, c, d>> \in Starts(Reads)
  <2>1. /\ <<a, b, c, d>> \in Seq(Instructions)
        /\ \A j : In(j, <<a, b, c, d>>) => j = a \/ j = b \/ j = c \/ j = d
    BY Quadruple
  <2>2. QED
    BY <1>4, <2>1, PlainProgram
<1>5. lint \in Starts(Reads) /\ security \in Starts(Reads) /\ spiceApplication \in Starts(Reads)
  BY <1>4, Commands, Named DEF lint, security, spiceApplication
<1>6. formatting(FALSE) \in Starts(Reads)
  <2>1. <<"list", "goimports">> \in Instructions
        /\ <<"list", "gofumpt">> \in Instructions
        /\ <<"list", "goimports">>[1] = "list"
        /\ <<"list", "gofumpt">>[1] = "list"
    BY DEF Instructions, Kinds, Names
  <2>2. <<path("goimports"), path("gofumpt"), <<"list", "goimports">>,
          <<"list", "gofumpt">>>> \in Starts(Reads)
    BY <1>4, <2>1, Commands, Named
  <2>3. QED
    BY <2>2 DEF formatting
<1>7. ASSUME NEW a \in Instructions, NEW b \in Instructions,
             NEW c \in Instructions, NEW d \in Instructions,
             a[1] \notin {"make", "write", "close"}, b[1] \notin {"make", "write", "close"},
             c = <<"make", "vendor">>, d[1] \notin {"make", "write", "close"},
             NEW e \in Instructions, e[1] \notin {"make", "write", "close"}
      PROVE  <<a, b, c, d, e>> \in Starts(Reads)
  <2> DEFINE s == <<a, b, c, d, e>>
  <2>1. /\ s \in Seq(Instructions) /\ Len(s) = 5
        /\ s[1] = a /\ s[2] = b /\ s[3] = c /\ s[4] = d /\ s[5] = e
    BY Quintuple
  <2> HIDE DEF s
  <2>2. DOMAIN s = 1 .. 5
    BY <2>1
  <2>3. /\ <<"make", "vendor">>[1] = "make" /\ <<"make", "vendor">>[2] = "vendor"
        /\ <<"make", "profile">>[1] = "make"
        /\ <<"write", "goimports">>[1] = "write"
        /\ c[1] = "make" /\ c[2] = "vendor" /\ c # <<"make", "profile">>
    BY <1>7
  <2>4. \A k \in DOMAIN s : k = 3 \/ s[k][1] \notin {"make", "write", "close"}
    BY <1>7, <2>1, <2>2
  <2>5. WellMade(s) /\ WellFormatted(s)
    BY <2>1, <2>3, <2>4 DEF WellMade, WellFormatted, Follows
  <2>6. \A k \in DOMAIN s : s[k][1] # "write"
    BY <2>1, <2>3, <2>4
  <2>10. Closes(s, {})
    BY <2>1, <2>3, <2>4 DEF Closes
  <2>7. s \in Starts(Reads)
    BY <2>1, <2>5, <2>6, <2>10 DEF Reads, Programs, Starts
  <2>8. QED
    BY <2>7 DEF s
<1>8. checkModule \in Starts(Reads)
  <2>1. /\ <<"make", "vendor">> \in Instructions
        /\ <<"compare", "vendor">> \in Instructions
        /\ <<"compare", "vendor">>[1] = "compare"
    BY DEF Instructions, Kinds, Names
  <2>2. QED
    BY <1>7, <2>1, Commands, Named DEF checkModule
<1>9. ASSUME NEW a \in Instructions, NEW b \in Instructions,
             NEW c \in Instructions, NEW d \in Instructions,
             a = <<"make", "profile">>, b = <<"close", "profile">>,
             c[1] \notin {"make", "write", "close"}, d[1] \notin {"make", "write", "close"},
             NEW e \in Instructions, e[1] \notin {"make", "write", "close"}
      PROVE  <<a, b, c, d, e>> \in Starts(Reads)
  <2> DEFINE s == <<a, b, c, d, e>>
  <2>1. /\ s \in Seq(Instructions) /\ Len(s) = 5
        /\ s[1] = a /\ s[2] = b /\ s[3] = c /\ s[4] = d /\ s[5] = e
    BY Quintuple
  <2> HIDE DEF s
  <2>2. DOMAIN s = 1 .. 5
    BY <2>1
  <2>3. /\ <<"make", "profile">>[1] = "make"
        /\ <<"write", "goimports">>[1] = "write"
        /\ a[1] = "make" /\ a[2] = "profile" /\ b[1] = "close"
    BY <1>9
  <2>4. \A k \in DOMAIN s : k = 1 \/ s[k][1] \notin {"make", "write"}
    BY <1>9, <2>1, <2>2, <2>3
  <2>10. \A k \in DOMAIN s : k = 2 \/ s[k][1] # "close"
    BY <1>9, <2>1, <2>2, <2>3
  <2>11. Closes(s, {})
    BY <1>9, <2>1, <2>2, <2>10 DEF Closes
  <2>5. WellMade(s)
    BY <1>9, <2>1, <2>2, <2>3, <2>4 DEF WellMade, Follows
  <2>6. WellFormatted(s)
    BY <2>1, <2>3, <2>4 DEF WellFormatted, Follows
  <2>7. \A k \in DOMAIN s : s[k][1] # "write"
    BY <2>1, <2>3, <2>4
  <2>8. s \in Starts(Reads)
    BY <2>1, <2>5, <2>6, <2>7, <2>11 DEF Reads, Programs, Starts
  <2>9. QED
    BY <2>8 DEF s
<1>10. coverage \in Starts(Reads)
  <2>1. /\ <<"make", "profile">> \in Instructions
        /\ <<"close", "profile">> \in Instructions
        /\ <<"threshold", "coverage">> \in Instructions
        /\ <<"threshold", "coverage">>[1] = "threshold"
    BY DEF Instructions, Kinds, Names
  <2>2. QED
    BY <1>9, <2>1, Commands, Named DEF coverage
<1>12. ASSUME NEW a \in Instructions, NEW b \in Instructions,
              NEW c \in Instructions, NEW d \in Instructions,
              a[1] \notin {"make", "write", "close"}, b[1] \notin {"make", "write", "close"},
              c = <<"write", "goimports">>, d = <<"write", "gofumpt">>
       PROVE  <<a, b, c, d>> \in Starts(Programs)
  <2> DEFINE s == <<a, b, c, d>>
  <2>1. /\ s \in Seq(Instructions) /\ Len(s) = 4
        /\ s[1] = a /\ s[2] = b /\ s[3] = c /\ s[4] = d
    BY Quadruple
  <2> HIDE DEF s
  <2>2. DOMAIN s = 1 .. 4
    BY <2>1
  <2>3. /\ <<"make", "profile">>[1] = "make"
        /\ c[1] = "write" /\ d[1] = "write" /\ c # d
        /\ a # c /\ b # c
    BY <1>12
  <2>4. WellMade(s)
    BY <1>12, <2>1, <2>2, <2>3 DEF WellMade, Follows
  <2>5. WellFormatted(s)
    <3>1. c[2] \in Formatters /\ d[2] \in Formatters
      BY <1>12 DEF Formatters
    <3>2. \A k \in DOMAIN s : s[k][1] = "write" => s[k][2] \in Formatters
      BY <1>12, <2>1, <2>2, <3>1
    <3>3. Follows(s, c, d)
      BY <2>1, <2>2, <2>3 DEF Follows
    <3>4. QED
      BY <1>12, <3>2, <3>3 DEF WellFormatted
  <2>8. Closes(s, {})
    BY <1>12, <2>1, <2>2, <2>3 DEF Closes
  <2>6. s \in Starts(Programs)
    BY <2>1, <2>4, <2>5, <2>8 DEF Programs, Starts
  <2>7. QED
    BY <2>6 DEF s
<1>13. formatting(TRUE) \in Starts(Programs)
  <2>1. /\ <<"write", "goimports">> \in Instructions
        /\ <<"write", "gofumpt">> \in Instructions
    BY DEF Instructions, Kinds, Names
  <2>2. <<path("goimports"), path("gofumpt"), <<"write", "goimports">>,
          <<"write", "gofumpt">>>> \in Starts(Programs)
    BY <1>12, <2>1, Commands, Named
  <2>3. QED
    BY <2>2 DEF formatting
<1>14. QED
  BY <1>1, <1>3, <1>5, <1>6, <1>8, <1>10, <1>13

\* A mode has at least one step, and only "fmt" rewrites files.
LEMMA ModePrograms ==
    ASSUME NEW m \in Modes
    PROVE  /\ stepsForMode(m) \in Seq(Starts(Programs)) /\ stepsForMode(m) # << >>
           /\ m # "fmt" => stepsForMode(m) \in Seq(Starts(Reads))
<1>1. Starts(Reads) \subseteq Starts(Programs)
  BY DEF Reads, Starts
<1>2. \A s \in Seq(Starts(Reads)) : s \in Seq(Starts(Programs))
  BY <1>1
<1>3. CASE m = "verify"
  <2> DEFINE R == Starts(Reads)
  <2>1. stepsForMode(m) = <<checkIdentity, formatting(FALSE), checkModule,
                            style, vet, lint, security, tests, coverage,
                            offline, spiceApplication, compatibility>>
    BY <1>3 DEF stepsForMode
  <2>2. /\ checkIdentity \in R
        /\ checkModule \in R /\ style \in R /\ vet \in R
        /\ lint \in R /\ security \in R /\ tests \in R
        /\ coverage \in R /\ offline \in R
        /\ spiceApplication \in R /\ compatibility \in R
    BY StepPrograms
  <2>3. PICK listing \in R : listing = formatting(FALSE)
    BY StepPrograms
  <2> HIDE DEF R
  <2>4. <<checkIdentity, listing, checkModule, style, vet, lint, security,
          tests, coverage, offline, spiceApplication, compatibility>> \in Seq(R)
    BY <2>2
  <2>7. stepsForMode(m) = <<checkIdentity, listing, checkModule, style, vet,
                            lint, security, tests, coverage, offline,
                            spiceApplication, compatibility>>
    BY <2>1, <2>3
  <2>5. stepsForMode(m) \in Seq(R) /\ stepsForMode(m) # << >>
    BY <2>4, <2>7
  <2>6. QED
    BY <1>2, <1>3, <2>5 DEF R
<1>4. CASE m = "check"
  BY <1>2, <1>4, StepPrograms, Quintuple DEF stepsForMode
<1>5. CASE m = "fmt"
  BY <1>5, StepPrograms, Singleton DEF stepsForMode
<1>6. CASE m = "test"
  BY <1>2, <1>6, StepPrograms, Pair DEF stepsForMode
<1>7. CASE m = "lint"
  BY <1>2, <1>7, StepPrograms, Singleton DEF stepsForMode
<1>8. CASE m = "security"
  BY <1>2, <1>8, StepPrograms, Singleton DEF stepsForMode
<1>9. CASE m = "smoke"
  BY <1>2, <1>9, StepPrograms, Singleton DEF stepsForMode
<1>10. QED
  BY <1>3, <1>4, <1>5, <1>6, <1>7, <1>8, <1>9 DEF Modes

-----------------------------------------------------------------------------
(***************************************************************************)
(* The inductive invariant.                                                *)
(***************************************************************************)

\* Instruction i is in the rest of the current step or in a later one.
Left(i, s, b) ==
    In(i, b) \/ \E k \in DOMAIN s : k > 1 /\ In(i, s[k])

\* The command is in its steps and none has failed.
Going == pc = "step" /\ ~failed

Clean(t) == \A f \in 1..FileCount : <<t, f>> \notin unformatted

Types ==
    /\ mode \in Modes \cup {"other"}
    /\ defects \subseteq Checks
    /\ unformatted \subseteq Formatters \X (1..FileCount)
    /\ pc \in {"execute", "step", "exit"}
    /\ batch \in Nat /\ batch <= Len(batches(Files, BatchSize))
    /\ changed \subseteq 1..FileCount
    /\ deferred \subseteq tmp
    /\ tmp \cup warned \subseteq {"vendor", "profile"}
    /\ failed \in BOOLEAN
    /\ code \in {0, 1, Running}

\* What is left to run is the rest of a mode.
Underway ==
    /\ body \in Programs /\ steps \in Seq(Starts(Programs))
    /\ mode # "fmt" => body \in Reads /\ steps \in Seq(Starts(Reads))
    /\ pc = "step" => steps # << >> /\ mode \in Modes
    /\ pc # "exit" => code = Running
    /\ pc = "step" /\ failed => body = << >>
    /\ batch # 0 /\ Going => At({"list", "write"})
    /\ Closes(body, tmp)

\* Outside the repository something is left that fails there.
Foreign ==
    Going /\ root # "repository" =>
        \E i \in Instructions :
            /\ Left(i, steps, body)
            /\ ~Present(i)
            /\ i[1] \in {"identity", "run", "path"}

\* Every defect has its check ahead.
Sought == Going /\ mode = "verify" => \A d \in defects : Left(d, steps, body)

\* A formatter is still to list, or to rewrite, the files it complains of.
Formatting(m, how) ==
    Going /\ mode = m =>
        \A t \in Formatters : Left(<<how, t>>, steps, body) \/ Clean(t)

\* What the batches that are done have found or rewritten.
Batched ==
    Going /\ body # << >> =>
        \A t \in Formatters, f \in 1..FileCount :
            f <= batch * BatchSize /\ <<t, f>> \in unformatted =>
                /\ Head(body) = <<"list", t>> => f \in changed
                /\ Head(body) # <<"write", t>>

\* A temporary file is to be removed, was warned of, or the gate fails.
Removing ==
    pc = "step" => \A f \in tmp :
        \/ f \in deferred \/ f \in warned \/ failed
        \/ f = "profile" /\ In(<<"close", "profile">>, body)

Inv ==
    /\ Types /\ Underway /\ Foreign /\ Sought
    /\ Formatting("verify", "list") /\ Formatting("fmt", "write")
    /\ Batched /\ Removing
    /\ PassMeansClean /\ PassIsAboutRepository /\ LeftoversReported
    /\ pc = "execute" => tmp = {} /\ ~failed /\ batch = 0

-----------------------------------------------------------------------------
(***************************************************************************)
(* What is left to run.                                                    *)
(***************************************************************************)

LEMMA LeftTail ==
    ASSUME NEW s, NEW b \in Seq(Instructions), b # << >>, NEW i,
           Left(i, s, b), i # Head(b)
    PROVE  Left(i, s, Tail(b))
BY TailFacts DEF Left

LEMMA LeftNext ==
    ASSUME NEW S, NEW s \in Seq(S), Len(s) > 1, NEW i, Left(i, s, << >>)
    PROVE  Left(i, Tail(s), Head(Tail(s)))
<1>1. ~In(i, << >>)
  BY DEF In
<1>2. PICK k \in DOMAIN s : k > 1 /\ In(i, s[k])
  BY <1>1 DEF Left
<1>3. /\ DOMAIN Tail(s) = 1 .. Len(s) - 1 /\ DOMAIN s = 1 .. Len(s)
      /\ Len(s) \in Nat /\ Tail(s) \in Seq(S)
      /\ \A j \in 1 .. Len(s) - 1 : Tail(s)[j] = s[j + 1]
  OBVIOUS
<1>8. Tail(s) # << >>
  BY <1>3
<1>9. Head(Tail(s)) = Tail(s)[1]
  BY <1>3, <1>8
<1>4. k - 1 \in DOMAIN Tail(s) /\ Tail(s)[k - 1] = s[k]
  BY <1>2, <1>3
<1>5. CASE k = 2
  BY <1>2, <1>9, <1>4, <1>5 DEF Left
<1>6. CASE k # 2
  <2>1. k - 1 > 1
    BY <1>2, <1>3, <1>6
  <2>2. QED
    BY <1>2, <1>4, <2>1 DEF Left
<1>7. QED
  BY <1>5, <1>6

LEMMA LeftStart ==
    ASSUME NEW S, NEW s \in Seq(S), NEW k \in DOMAIN s, NEW i, In(i, s[k])
    PROVE  Left(i, s, Head(s))
<1>1. DOMAIN s = 1 .. Len(s) /\ Len(s) \in Nat
  OBVIOUS
<1>2. s # << >>
  BY <1>1
<1>3. Head(s) = s[1]
  BY <1>2
<1>4. k = 1 \/ k > 1
  BY <1>1
<1>5. QED
  BY <1>3, <1>4 DEF Left

\* The last step has nothing left.
LEMMA LeftNothing ==
    ASSUME NEW S, NEW s \in Seq(S), ~(Len(s) > 1), NEW i
    PROVE  ~Left(i, s, << >>)
<1>1. ~In(i, << >>)
  BY DEF In
<1>2. DOMAIN s = 1 .. Len(s) /\ Len(s) \in Nat
  OBVIOUS
<1>3. QED
  BY <1>1, <1>2 DEF Left

\* The steps of each mode, one by one.
LEMMA ModeSteps ==
    /\ stepsForMode("check")[1] = checkIdentity
    /\ 1 \in DOMAIN stepsForMode("check")
    /\ stepsForMode("fmt")[1] = formatting(TRUE)
    /\ 1 \in DOMAIN stepsForMode("fmt")
    /\ stepsForMode("lint")[1] = lint
    /\ 1 \in DOMAIN stepsForMode("lint")
    /\ stepsForMode("security")[1] = security
    /\ 1 \in DOMAIN stepsForMode("security")
    /\ stepsForMode("smoke")[1] = spiceApplication
    /\ 1 \in DOMAIN stepsForMode("smoke")
    /\ stepsForMode("test")[2] = coverage
    /\ 2 \in DOMAIN stepsForMode("test")
    /\ stepsForMode("verify")[1] = checkIdentity
    /\ 1 \in DOMAIN stepsForMode("verify")
    /\ stepsForMode("verify")[2] = formatting(FALSE)
    /\ 2 \in DOMAIN stepsForMode("verify")
BY DEF stepsForMode

\* Outside the repository every mode has something to run that fails there.
LEMMA EveryModeForeign ==
    ASSUME NEW m \in Modes, root # "repository"
    PROVE  \E i \in Instructions, k \in DOMAIN stepsForMode(m) :
              /\ In(i, stepsForMode(m)[k])
              /\ ~Present(i)
              /\ i[1] \in {"identity", "run", "path"}
<1> DEFINE Elsewhere(i) ==
      i \in {run("tidy"), run("vet"), run("golangci-lint"), run("nilaway"),
             run("gosec"), run("govulncheck"), run("test shuffled"),
             run("test race"), run("vendored build"), run("vendored test")}
<1>1. ASSUME NEW i, Elsewhere(i)
      PROVE  i[1] = "run" /\ i[2] \notin {"spice verify", "test business packages"}
  <2>1. PICK n \in {"tidy", "vet", "golangci-lint", "nilaway", "gosec",
                    "govulncheck", "test shuffled", "test race",
                    "vendored build", "vendored test"} : i = run(n)
    BY <1>1
  <2>2. n \in Names
    BY Named
  <2>3. i[1] = "run" /\ i[2] = n
    BY <2>1, <2>2, Commands
  <2>4. QED
    BY <2>3
<1>2. ASSUME NEW i \in Instructions, i[1] \in {"identity", "run", "path"},
             \/ i[1] # "run"
             \/ i[2] \in {"spice verify", "test business packages"}
      PROVE  ~Present(i)
  <2>1. ~Elsewhere(i)
    BY <1>1, <1>2
  <2>2. i[1] # "close"
    BY <1>2
  <2>3. QED
    BY <2>1, <2>2 DEF Present
<1> HIDE DEF Elsewhere
<1>3. ASSUME NEW i \in Instructions, i[1] \in {"identity", "run", "path"},
             \/ i[1] # "run"
             \/ i[2] \in {"spice verify", "test business packages"},
             NEW k \in DOMAIN stepsForMode(m), In(i, stepsForMode(m)[k])
      PROVE  \E j \in Instructions, l \in DOMAIN stepsForMode(m) :
                /\ In(j, stepsForMode(m)[l])
                /\ ~Present(j)
                /\ j[1] \in {"identity", "run", "path"}
  BY <1>2, <1>3
<1>4. CASE m = "check" \/ m = "verify"
  <2>1. <<"identity", "repository">> \in Instructions
        /\ <<"identity", "repository">>[1] = "identity"
    BY DEF Instructions, Kinds, Names
  <2>2. In(<<"identity", "repository">>, checkIdentity)
    BY <2>1, Singleton DEF checkIdentity
  <2>3. 1 \in DOMAIN stepsForMode(m) /\ stepsForMode(m)[1] = checkIdentity
    BY <1>4, ModeSteps
  <2>4. QED
    BY <1>3, <2>1, <2>2, <2>3
<1>5. CASE m = "fmt"
  <2>1. /\ <<"write", "goimports">> \in Instructions
        /\ <<"write", "gofumpt">> \in Instructions
    BY DEF Instructions, Kinds, Names
  <2>2. In(path("goimports"), formatting(TRUE))
    <3>1. path("goimports") \in Instructions /\ path("gofumpt") \in Instructions
      BY Commands, Named
    <3>2. In(path("goimports"), <<path("goimports"), path("gofumpt"),
                      <<"write", "goimports">>, <<"write", "gofumpt">>>>)
      BY <2>1, <3>1, Quadruple
    <3>3. QED
      BY <3>2 DEF formatting
  <2>3. 1 \in DOMAIN stepsForMode(m) /\ stepsForMode(m)[1] = formatting(TRUE)
    BY <1>5, ModeSteps
  <2>4. 1 \in DOMAIN stepsForMode(m) /\ In(path("goimports"), stepsForMode(m)[1])
    BY <2>2, <2>3
  <2>5. QED
    BY <1>3, <2>4, Commands, Named, ZenonT(40)
<1>6. CASE m = "lint"
  <2>1. In(path("golangci-lint"), lint)
    <3>1. /\ path("golangci-lint") \in Instructions
          /\ run("golangci-lint") \in Instructions
          /\ path("nilaway") \in Instructions /\ run("nilaway") \in Instructions
      BY Commands, Named
    <3>2. QED
      BY <3>1, Quadruple DEF lint
  <2>2. QED
    BY <1>3, <1>6, <2>1, ModeSteps, Commands, Named, ZenonT(40)
<1>7. CASE m = "security"
  <2>1. In(path("gosec"), security)
    BY Quadruple, Commands, Named, ZenonT(40) DEF security
  <2>2. QED
    BY <1>3, <1>7, <2>1, ModeSteps, Commands, Named, ZenonT(40)
<1>8. CASE m = "smoke"
  <2>1. In(run("spice verify"), spiceApplication)
    BY Quadruple, Commands, Named, ZenonT(40) DEF spiceApplication
  <2>2. QED
    BY <1>3, <1>8, <2>1, ModeSteps, Commands, Named
<1>9. CASE m = "test"
  <2>1. /\ <<"make", "profile">> \in Instructions
        /\ <<"close", "profile">> \in Instructions
        /\ <<"threshold", "coverage">> \in Instructions
    BY DEF Instructions, Kinds, Names
  <2>2. In(run("test business packages"), coverage)
    <3>1. run("test business packages") \in Instructions
          /\ run("cover") \in Instructions
      BY Commands, Named
    <3>2. QED
      BY <2>1, <3>1, Quintuple, ZenonT(40) DEF coverage
  <2>3. QED
    BY <1>3, <1>9, <2>2, ModeSteps, Commands, Named, ZenonT(40)
<1>10. QED
  BY <1>4, <1>5, <1>6, <1>7, <1>8, <1>9 DEF Modes

\* The formatters are ahead when the modes start that run them.
LEMMA EveryFormatterRuns ==
    ASSUME NEW t \in Formatters
    PROVE  /\ 2 \in DOMAIN stepsForMode("verify")
           /\ In(<<"list", t>>, stepsForMode("verify")[2])
           /\ 1 \in DOMAIN stepsForMode("fmt")
           /\ In(<<"write", t>>, stepsForMode("fmt")[1])
<1>1. /\ <<"write", "goimports">> \in Instructions
      /\ <<"write", "gofumpt">> \in Instructions
      /\ <<"list", "goimports">> \in Instructions
      /\ <<"list", "gofumpt">> \in Instructions
  BY DEF Instructions, Kinds, Names
<1>6. path("goimports") \in Instructions /\ path("gofumpt") \in Instructions
  BY Commands, Named
<1>2. In(<<"list", "goimports">>, formatting(FALSE))
      /\ In(<<"list", "gofumpt">>, formatting(FALSE))
  <2> DEFINE s == <<path("goimports"), path("gofumpt"), <<"list", "goimports">>,
                    <<"list", "gofumpt">>>>
  <2>1. In(<<"list", "goimports">>, s) /\ In(<<"list", "gofumpt">>, s)
    BY <1>1, <1>6, Quadruple
  <2>2. QED
    BY <2>1 DEF formatting
<1>3. In(<<"write", "goimports">>, formatting(TRUE))
      /\ In(<<"write", "gofumpt">>, formatting(TRUE))
  <2> DEFINE s == <<path("goimports"), path("gofumpt"), <<"write", "goimports">>,
                    <<"write", "gofumpt">>>>
  <2>1. In(<<"write", "goimports">>, s) /\ In(<<"write", "gofumpt">>, s)
    BY <1>1, <1>6, Quadruple
  <2>2. QED
    BY <2>1 DEF formatting
<1>4. t = "goimports" \/ t = "gofumpt"
  BY DEF Formatters
<1>5. QED
  BY <1>2, <1>3, <1>4, ModeSteps

\* The check that finds a defect is in a step of "verify".
LEMMA EveryCheckRuns ==
    ASSUME NEW d \in Checks
    PROVE  /\ \E k \in DOMAIN stepsForMode("verify") :
                 In(d, stepsForMode("verify")[k])
           /\ d[1] \in {"identity", "run", "compare", "threshold"}
<1> DEFINE all == stepsForMode("verify")
<1> HIDE DEF all
<1>1. /\ d \in UNION {ToSet(s) : s \in ToSet(all)}
      /\ d[1] \in {"identity", "run", "compare", "threshold"}
  BY DEF Checks, all
<1>2. PICK s \in ToSet(all) : d \in ToSet(s)
  BY <1>1
<1>3. PICK k \in DOMAIN all : s = all[k]
  BY DEF ToSet
<1>4. In(d, all[k])
  BY <1>2, <1>3 DEF ToSet, In
<1>5. QED
  BY <1>1, <1>4 DEF all

-----------------------------------------------------------------------------
(***************************************************************************)
(* Batches.                                                                *)
(***************************************************************************)

\* The batches of the files cover them all, and there are no more batches
\* than files.
LEMMA Batches ==
    /\ Len(batches(Files, BatchSize)) \in Nat
    /\ Len(batches(Files, BatchSize)) * BatchSize >= FileCount
    /\ Len(batches(Files, BatchSize)) <= FileCount
    /\ \A b \in Nat : b < Len(batches(Files, BatchSize)) =>
          ToSet(batches(Files, BatchSize)[b + 1])
             = {f \in 1..FileCount : b * BatchSize < f
                                     /\ f <= (b + 1) * BatchSize}
<1> DEFINE q == (FileCount + BatchSize - 1) \div BatchSize
           B == batches(Files, BatchSize)
<1>1. FileCount \in Nat /\ BatchSize \in Nat /\ BatchSize > 0
  BY GateAssumption
<1>2. /\ Files \in Seq(Nat) /\ Len(Files) = FileCount
      /\ \A f \in 1..FileCount : Files[f] = f
  BY <1>1 DEF Files
<1>3. q \in Nat /\ q * BatchSize >= FileCount
      /\ q * BatchSize <= FileCount + BatchSize - 1
  BY <1>1
<1>4. /\ B = [b \in 1..q |-> SubSeq(Files, (b - 1) * BatchSize + 1,
                                    least(b * BatchSize, FileCount))]
      /\ DOMAIN B = 1..q
  BY <1>2 DEF batches
<1> HIDE DEF q, B
<1>5. Len(B) = q
  BY <1>3, <1>4
<1>6. q <= FileCount
  <2>1. CASE FileCount = 0
    BY <1>1, <1>3, <2>1
  <2>2. CASE FileCount > 0
    <3>1. (FileCount - 1) * (BatchSize - 1) >= 0
      BY <1>1, <2>2
    <3>2. FileCount * BatchSize >= FileCount + BatchSize - 1
      BY <1>1, <3>1
    <3>3. q * BatchSize <= FileCount * BatchSize
      BY <1>1, <1>3, <3>2
    <3>4. QED
      BY <1>1, <1>3, <3>3
  <2>3. QED
    BY <1>1, <2>1, <2>2
<1>7. ASSUME NEW b \in Nat, b < q
      PROVE  ToSet(B[b + 1]) = {f \in 1..FileCount : b * BatchSize < f
                                               /\ f <= (b + 1) * BatchSize}
  <2> DEFINE lo == b * BatchSize
             hi == least((b + 1) * BatchSize, FileCount)
  <2>1. b + 1 \in 1..q /\ (b + 1) - 1 = b
    BY <1>3, <1>7
  <2>2. B[b + 1] = SubSeq(Files, lo + 1, hi)
    BY <1>4, <2>1
  <2>3. lo \in Nat /\ (b + 1) * BatchSize \in Nat /\ hi \in Nat
        /\ hi <= FileCount /\ hi <= (b + 1) * BatchSize
        /\ (hi = FileCount \/ hi = (b + 1) * BatchSize)
    BY <1>1 DEF least
  <2> HIDE DEF lo, hi
  <2>4. /\ DOMAIN SubSeq(Files, lo + 1, hi) = 1 .. (hi - lo)
        /\ \A k \in 1 .. (hi - lo) :
              SubSeq(Files, lo + 1, hi)[k] = Files[lo + k]
    BY <1>1, <1>2, <2>3
  <2>5. ToSet(B[b + 1]) = {f \in 1..FileCount : lo < f /\ f <= hi}
    <3>1. ASSUME NEW f \in ToSet(B[b + 1])
          PROVE  f \in 1..FileCount /\ lo < f /\ f <= hi
      <4>3. PICK j \in DOMAIN B[b + 1] : f = B[b + 1][j]
        BY DEF ToSet
      <4>1. PICK k \in 1 .. (hi - lo) : f = Files[lo + k]
        BY <2>2, <2>4, <4>3
      <4>2. QED
        BY <1>1, <1>2, <2>3, <4>1
    <3>2. ASSUME NEW f \in 1..FileCount, lo < f, f <= hi
          PROVE  f \in ToSet(B[b + 1])
      <4>1. f - lo \in 1 .. (hi - lo) /\ lo + (f - lo) = f
        BY <1>1, <2>3, <3>2
      <4>2. SubSeq(Files, lo + 1, hi)[f - lo] = f
        BY <1>2, <2>4, <4>1
      <4>3. QED
        BY <2>2, <2>4, <4>1, <4>2 DEF ToSet
    <3>3. QED
      BY <3>1, <3>2
  <2>6. QED
    BY <1>1, <2>3, <2>5 DEF lo
<1>8. QED
  BY <1>1, <1>3, <1>5, <1>6, <1>7 DEF B

-----------------------------------------------------------------------------
(***************************************************************************)
(* The steps.                                                              *)
(***************************************************************************)

LEMMA InitInv == Init => Inv
<1> SUFFICES ASSUME Init PROVE Inv
  OBVIOUS
<1> USE DEF Init
<1>1. << >> \in Reads /\ Reads \subseteq Programs
  <2>1. << >> \in Seq(Instructions) /\ \A i : ~In(i, << >>)
    BY DEF In
  <2>2. << >> \in Starts(Reads)
    BY <2>1, PlainProgram
  <2>3. QED
    BY <2>2 DEF Starts, Reads
<1>2. << >> \in Seq(Starts(Programs)) /\ << >> \in Seq(Starts(Reads))
  OBVIOUS
<1>3. Closes(<< >>, {})
  BY DEF Closes
<1>4. Underway
  BY <1>1, <1>2, <1>3 DEF Underway, Going
<1>5. Types
  <2>1. 0 \in Nat /\ 0 <= Len(batches(Files, BatchSize))
    BY Batches
  <2>2. QED
    BY <2>1, GateAssumption DEF Types, Running
<1>6. /\ Foreign /\ Sought /\ Formatting("verify", "list")
      /\ Formatting("fmt", "write") /\ Batched /\ Removing
  BY DEF Foreign, Sought, Formatting, Batched, Removing, Going
<1>7. PassMeansClean /\ PassIsAboutRepository /\ LeftoversReported
  BY DEF PassMeansClean, PassIsAboutRepository, LeftoversReported, Running
<1>8. QED
  BY <1>4, <1>5, <1>6, <1>7 DEF Inv

\* Nothing is claimed of a command that is still running.
LEMMA StillRunning ==
    ASSUME Underway', pc' # "exit"
    PROVE  (PassMeansClean /\ PassIsAboutRepository /\ LeftoversReported)'
<1>1. code' # 0
  BY DEF Underway, Running
<1>2. QED
  BY <1>1 DEF PassMeansClean, PassIsAboutRepository, LeftoversReported

\* The current instruction is done and the next one is at the head.
LEMMA AdvanceUnderway ==
    ASSUME Types, Underway, pc = "step", body # << >>, body' = Tail(body),
           UNCHANGED <<mode, pc, steps, failed, code>>, batch' = 0,
           tmp \subseteq tmp',
           Head(body) = <<"make", "profile">> => "profile" \in tmp'
    PROVE  Underway'
<1>1. body \in Programs /\ (mode # "fmt" => body \in Reads)
  BY DEF Underway
<1>2. body \in Seq(Instructions)
  BY <1>1 DEF Programs
<1>3. Tail(body) \in Programs /\ (mode # "fmt" => Tail(body) \in Reads)
  BY <1>1, TailProgram
<1>4. Closes(Tail(body), tmp')
  <2> SUFFICES ASSUME NEW k \in DOMAIN Tail(body), Tail(body)[k][1] = "close",
                      "profile" \notin tmp'
               PROVE  \E l \in DOMAIN Tail(body) :
                         l < k /\ Tail(body)[l] = <<"make", "profile">>
    BY DEF Closes
  <2>1. /\ DOMAIN Tail(body) = 1 .. Len(body) - 1
        /\ DOMAIN body = 1 .. Len(body)
        /\ Len(body) \in Nat
        /\ \A i \in 1 .. Len(body) - 1 : Tail(body)[i] = body[i + 1]
    BY <1>2
  <2>2. k + 1 \in DOMAIN body /\ body[k + 1][1] = "close" /\ k \in Nat
    BY <2>1
  <2>3. "profile" \notin tmp
    OBVIOUS
  <2>4. PICK l \in DOMAIN body : l < k + 1 /\ body[l] = <<"make", "profile">>
    BY <2>2, <2>3 DEF Underway, Closes
  <2>5. Head(body) = body[1]
    BY <1>2, TailFacts
  <2>6. l # 1
    BY <2>4, <2>5
  <2>7. l - 1 \in DOMAIN Tail(body) /\ l - 1 < k
        /\ Tail(body)[l - 1] = <<"make", "profile">>
    BY <2>1, <2>2, <2>4, <2>6
  <2>8. QED
    BY <2>7
<1>5. ~failed
  BY DEF Underway
<1>6. steps \in Seq(Starts(Programs)) /\ steps # << >> /\ mode \in Modes
      /\ code = Running
      /\ (mode # "fmt" => steps \in Seq(Starts(Reads)))
  BY DEF Underway
<1>7. (mode # "fmt" => body \in Reads /\ steps \in Seq(Starts(Reads)))'
  BY <1>3, <1>6
<1>8. QED
  BY <1>3, <1>4, <1>5, <1>6, <1>7 DEF Underway

LEMMA AdvanceInv ==
    ASSUME Inv, pc = "step", body # << >>, body' = Tail(body),
           UNCHANGED <<setting, unformatted, pc, steps, failed, code>>,
           batch' = 0, tmp \subseteq tmp',
           Types', Removing',
           Head(body) = <<"make", "profile">> => "profile" \in tmp',
           \/ Present(Head(body))
           \/ Head(body)[1] \notin {"identity", "run", "path"},
           \/ Head(body) \notin defects
           \/ Head(body)[1] \notin {"identity", "run", "compare", "threshold"},
           \A t \in Formatters :
              \/ Head(body) = <<"list", t>> /\ mode = "verify"
              \/ Head(body) = <<"write", t>> /\ mode = "fmt"
              => Clean(t)
    PROVE  Inv'
<1>1. Types /\ Underway /\ mode' = mode /\ root' = root /\ defects' = defects
  BY DEF Inv, setting
<1>2. Underway'
  BY <1>1, AdvanceUnderway
<1>3. body \in Seq(Instructions) /\ ~failed
  BY <1>1 DEF Underway, Programs
<1>4. \A i : Left(i, steps, body) /\ i # Head(body) => Left(i, steps, Tail(body))
  BY <1>3, LeftTail
<1>5. Foreign'
  <2> SUFFICES ASSUME root # "repository"
               PROVE  \E i \in Instructions :
                         /\ Left(i, steps, Tail(body))
                         /\ ~Present(i)'
                         /\ i[1] \in {"identity", "run", "path"}
    BY <1>1 DEF Foreign, Going
  <2>1. PICK i \in Instructions :
           /\ Left(i, steps, body)
           /\ ~Present(i)
           /\ i[1] \in {"identity", "run", "path"}
    BY <1>3 DEF Inv, Foreign, Going
  <2>2. i # Head(body)
    BY <2>1
  <2>3. ~Present(i)'
    BY <1>1, <2>1 DEF Present
  <2>4. QED
    BY <1>4, <2>1, <2>2, <2>3
<1>6. Sought'
  <2> SUFFICES ASSUME mode = "verify", NEW d \in defects
               PROVE  Left(d, steps, Tail(body))
    BY <1>1 DEF Sought, Going
  <2>1. Left(d, steps, body)
    BY <1>3 DEF Inv, Sought, Going
  <2>2. d[1] \in {"identity", "run", "compare", "threshold"}
    BY <1>1, EveryCheckRuns DEF Types
  <2>3. d # Head(body)
    BY <2>2
  <2>4. QED
    BY <1>4, <2>1, <2>3
<1>7. \A t \in Formatters : Clean(t)' <=> Clean(t)
  BY DEF Clean
<1>8. Formatting("verify", "list")'
  <2> SUFFICES ASSUME mode = "verify", NEW t \in Formatters, ~Clean(t)
               PROVE  Left(<<"list", t>>, steps, Tail(body))
    BY <1>1, <1>7 DEF Formatting, Going
  <2>1. Left(<<"list", t>>, steps, body)
    BY <1>3 DEF Inv, Formatting, Going
  <2>2. Head(body) # <<"list", t>>
    OBVIOUS
  <2>3. QED
    BY <1>4, <2>1, <2>2
<1>9. Formatting("fmt", "write")'
  <2> SUFFICES ASSUME mode = "fmt", NEW t \in Formatters, ~Clean(t)
               PROVE  Left(<<"write", t>>, steps, Tail(body))
    BY <1>1, <1>7 DEF Formatting, Going
  <2>1. Left(<<"write", t>>, steps, body)
    BY <1>3 DEF Inv, Formatting, Going
  <2>2. Head(body) # <<"write", t>>
    OBVIOUS
  <2>3. QED
    BY <1>4, <2>1, <2>2
<1>10. Batched'
  <2>1. \A f \in 1..FileCount : ~(f <= batch' * BatchSize)
    BY GateAssumption
  <2>2. QED
    BY <2>1 DEF Batched
<1>11. (PassMeansClean /\ PassIsAboutRepository /\ LeftoversReported)'
  BY <1>2, StillRunning
<1>12. QED
  BY <1>2, <1>5, <1>6, <1>8, <1>9, <1>10, <1>11 DEF Inv

\* What holds at the head of the current step.
LEMMA AtHead ==
    ASSUME Inv, pc = "step", body # << >>
    PROVE  /\ body \in Programs /\ body \in Seq(Instructions)
           /\ Head(body) \in Instructions /\ ~failed /\ Going
           /\ Head(body)[1] \in Kinds /\ Head(body)[2] \in Names
           /\ Head(body)[1] \notin {"list", "write"} => batch = 0
           /\ \A f \in tmp : \/ f \in deferred \/ f \in warned
                             \/ /\ f = "profile"
                                /\ In(<<"close", "profile">>, body)
           /\ \A i : In(i, body) /\ i # Head(body) => In(i, Tail(body))
           /\ mode # "fmt" => Head(body)[1] # "write"
<1>1. body \in Programs /\ ~failed /\ Going
      /\ (mode # "fmt" => body \in Reads)
  BY DEF Inv, Underway, Going
<1>2. body \in Seq(Instructions)
  BY <1>1 DEF Programs
<1>3. Head(body) \in Instructions /\ Head(body) = body[1] /\ 1 \in DOMAIN body
  BY <1>2, TailFacts
<1>4. Head(body)[1] \in Kinds /\ Head(body)[2] \in Names
  BY <1>3 DEF Instructions
<1>5. Head(body)[1] \notin {"list", "write"} => batch = 0
  BY <1>1 DEF Inv, Underway, At
<1>6. \A i : In(i, body) /\ i # Head(body) => In(i, Tail(body))
  BY <1>2, TailFacts
<1>7. \A f \in tmp : \/ f \in deferred \/ f \in warned
                     \/ f = "profile" /\ In(<<"close", "profile">>, body)
  BY <1>1 DEF Inv, Removing
<1>8. mode # "fmt" => Head(body)[1] # "write"
  BY <1>1, <1>3 DEF Reads
<1>9. QED
  BY <1>1, <1>2, <1>3, <1>4, <1>5, <1>6, <1>7, <1>8

LEMMA SubprocessInv == ASSUME Inv, Subprocess PROVE Inv'
<1>1. /\ pc = "step" /\ body # << >> /\ Head(body)[1] \in {"run", "path"}
      /\ Head(body) \notin defects /\ Present(Head(body))
      /\ body' = Tail(body)
      /\ UNCHANGED <<setting, pc, steps, expired, deferred, warned, failed, code>>
      /\ UNCHANGED <<unformatted, batch, changed, tmp>>
  BY DEF Subprocess, At, Advance
<1>2. batch = 0
  BY <1>1, AtHead
<1>3. Types'
  BY <1>1 DEF Inv, Types, setting
<1>4. Removing'
  <2>1. Head(body) # <<"close", "profile">>
    BY <1>1
  <2>2. QED
    BY <1>1, <2>1, AtHead DEF Removing
<1>5. \A t \in Formatters :
         Head(body) # <<"list", t>> /\ Head(body) # <<"write", t>>
  BY <1>1
<1>6. Head(body) # <<"make", "profile">>
  BY <1>1
<1>7. QED
  BY <1>1, <1>2, <1>3, <1>4, <1>5, <1>6, AdvanceInv

LEMMA LookInv == ASSUME Inv, Look PROVE Inv'
<1>1. /\ pc = "step" /\ body # << >>
      /\ Head(body)[1] \in {"identity", "compare", "threshold", "close"}
      /\ Head(body) \notin defects /\ Present(Head(body))
      /\ body' = Tail(body)
      /\ deferred' = IF Head(body)[1] = "close" THEN deferred \cup {"profile"}
                     ELSE deferred
      /\ UNCHANGED <<setting, unformatted, pc, steps, batch, changed, expired,
                     tmp, warned, failed, code>>
  BY DEF Look, At
<1>2. batch = 0
  BY <1>1, AtHead
<1>3. Head(body)[1] = "close" => "profile" \in tmp
  <2>1. /\ 1 \in DOMAIN body /\ Head(body) = body[1]
        /\ DOMAIN body = 1 .. Len(body)
    BY <1>1, AtHead, TailFacts
  <2>2. Closes(body, tmp)
    BY DEF Inv, Underway
  <2>3. ~\E l \in DOMAIN body : l < 1
    BY <2>1
  <2>4. QED
    BY <2>1, <2>2, <2>3 DEF Closes
<1>4. Types'
  <2>1. deferred' \subseteq tmp'
    BY <1>1, <1>3 DEF Inv, Types
  <2>2. QED
    BY <1>1, <2>1 DEF Inv, Types, setting
<1>5. Removing'
  <2>1. Head(body)[1] # "close" => Head(body) # <<"close", "profile">>
    OBVIOUS
  <2>2. QED
    BY <1>1, <2>1, AtHead DEF Removing
<1>6. \A t \in Formatters :
         Head(body) # <<"list", t>> /\ Head(body) # <<"write", t>>
  BY <1>1
<1>7. Head(body) # <<"make", "profile">>
  BY <1>1
<1>8. QED
  BY <1>1, <1>2, <1>4, <1>5, <1>6, <1>7, AdvanceInv

LEMMA MakeInv == ASSUME Inv, Make PROVE Inv'
<1>1. /\ pc = "step" /\ body # << >> /\ Head(body)[1] = "make"
      /\ tmp' = tmp \cup {Head(body)[2]}
      /\ deferred' = IF Head(body)[2] = "vendor" THEN deferred \cup {"vendor"}
                     ELSE deferred
      /\ body' = Tail(body)
      /\ UNCHANGED <<setting, unformatted, pc, steps, batch, changed, expired,
                     warned, failed, code>>
  BY DEF Make, At
<1>2. batch = 0
  BY <1>1, AtHead
<1>3. /\ 1 \in DOMAIN body /\ Head(body) = body[1] /\ body \in Programs
      /\ DOMAIN body = 1 .. Len(body) /\ body \in Seq(Instructions)
  BY <1>1, AtHead, TailFacts
<1>4. Head(body)[2] \in {"vendor", "profile"}
  BY <1>1, <1>3 DEF Programs, WellMade
<1>5. Types'
  <2>1. deferred' \subseteq tmp'
    BY <1>1 DEF Inv, Types
  <2>2. QED
    BY <1>1, <1>4, <2>1 DEF Inv, Types, setting
<1>6. Head(body) = <<Head(body)[1], Head(body)[2]>>
  BY <1>1, AtHead DEF Instructions
<1>7. Head(body)[2] = "profile" => In(<<"close", "profile">>, Tail(body))
  <2> SUFFICES ASSUME Head(body)[2] = "profile"
               PROVE  In(<<"close", "profile">>, Tail(body))
    OBVIOUS
  <2>1. body[1] = <<"make", "profile">>
    BY <1>1, <1>3, <1>6
  <2>2. PICK l \in DOMAIN body : l > 1 /\ body[l] = <<"close", "profile">>
    BY <1>3, <2>1 DEF Programs, WellMade, Follows
  <2>3. In(<<"close", "profile">>, body)
    BY <2>2 DEF In
  <2>4. Head(body) # <<"close", "profile">>
    BY <1>1
  <2>5. QED
    BY <1>1, <2>3, <2>4, AtHead
<1>8. Removing'
  <2>1. Head(body) # <<"close", "profile">>
    BY <1>1
  <2>2. QED
    BY <1>1, <1>4, <1>7, <2>1, AtHead DEF Removing
<1>9. \A t \in Formatters :
         Head(body) # <<"list", t>> /\ Head(body) # <<"write", t>>
  BY <1>1
<1>10. Head(body) = <<"make", "profile">> => "profile" \in tmp'
  BY <1>1
<1>11. QED
  BY <1>1, <1>2, <1>5, <1>8, <1>9, <1>10, AdvanceInv

\* checkFormatted and fileBatches return when every batch is done.
LEMMA FormattedInv == ASSUME Inv, Formatted PROVE Inv'
<1>1. /\ pc = "step" /\ body # << >> /\ Head(body)[1] \in {"list", "write"}
      /\ BatchesDone /\ changed = {} /\ batch' = 0
      /\ body' = Tail(body)
      /\ UNCHANGED <<setting, pc, steps, expired, deferred, warned, failed, code>>
      /\ UNCHANGED <<unformatted, changed, tmp>>
  BY DEF Formatted, At, Advance
<1>2. Types'
  <2>1. 0 \in Nat /\ 0 <= Len(batches(Files, BatchSize))
    BY Batches
  <2>2. QED
    BY <1>1, <2>1 DEF Inv, Types, setting
<1>3. Removing'
  <2>1. Head(body) # <<"close", "profile">>
    BY <1>1
  <2>2. QED
    BY <1>1, <2>1, AtHead DEF Removing
<1>4. ASSUME NEW t \in Formatters,
             Head(body) = <<"list", t>> \/ Head(body) = <<"write", t>>
      PROVE  Clean(t)
  <2> SUFFICES ASSUME NEW f \in 1..FileCount, <<t, f>> \in unformatted
               PROVE  FALSE
    BY DEF Clean
  <2>1. f <= batch * BatchSize
    BY <1>1, Batches, GateAssumption DEF BatchesDone
  <2>2. Going
    BY <1>1, AtHead
  <2>3. /\ Head(body) = <<"list", t>> => f \in changed
        /\ Head(body) # <<"write", t>>
    BY <1>1, <2>1, <2>2 DEF Inv, Batched
  <2>4. QED
    BY <1>1, <1>4, <2>3
<1>5. Head(body) # <<"make", "profile">>
  BY <1>1
<1>6. QED
  BY <1>1, <1>2, <1>3, <1>4, <1>5, AdvanceInv

\* The current instruction fails.
LEMMA FailInv == ASSUME Inv, Fail PROVE Inv'
<1>1. /\ pc = "step" /\ body # << >> /\ failed' = TRUE /\ body' = << >>
      /\ UNCHANGED <<setting, pc, steps, batch, changed, expired, tmp, deferred,
                     warned, code>>
      /\ unformatted' \subseteq unformatted
  BY DEF Fail
<1>2. Types'
  <2>1. unformatted' \subseteq Formatters \X (1..FileCount)
    BY <1>1 DEF Inv, Types
  <2>2. QED
    BY <1>1, <2>1 DEF Inv, Types, setting
<1>3. << >> \in Reads /\ Reads \subseteq Programs
  <2>1. << >> \in Seq(Instructions) /\ \A i : ~In(i, << >>)
    BY DEF In
  <2>2. << >> \in Starts(Reads)
    BY <2>1, PlainProgram
  <2>3. QED
    BY <2>2 DEF Starts, Reads
<1>4. Underway'
  <2>1. Closes(<< >>, tmp')
    BY DEF Closes
  <2>2. QED
    BY <1>1, <1>3, <2>1 DEF Inv, Underway, Going, setting
<1>5. /\ Foreign' /\ Sought' /\ Formatting("verify", "list")'
      /\ Formatting("fmt", "write")' /\ Batched' /\ Removing'
  BY <1>1 DEF Foreign, Sought, Formatting, Batched, Removing, Going
<1>6. (PassMeansClean /\ PassIsAboutRepository /\ LeftoversReported)'
  BY <1>1, <1>4, StillRunning
<1>7. QED
  BY <1>1, <1>2, <1>4, <1>5, <1>6 DEF Inv

\* A batch of files is listed.
LEMMA ListBatchInv == ASSUME Inv, ListBatch PROVE Inv'
<1>1. /\ pc = "step" /\ body # << >> /\ Head(body)[1] = "list"
      /\ ~BatchesDone
      /\ changed' = changed \cup
                       {f \in InBatch : <<Head(body)[2], f>> \in unformatted}
      /\ batch' = batch + 1
      /\ UNCHANGED <<setting, unformatted, pc, steps, body, expired, tmp,
                     deferred, warned, failed, code>>
  BY DEF ListBatch, At
<1>2. /\ batch \in Nat /\ batch < Len(batches(Files, BatchSize))
      /\ FileCount \in Nat /\ BatchSize \in Nat
  BY <1>1, Batches, GateAssumption DEF Inv, Types, BatchesDone
<1>3. InBatch = {f \in 1..FileCount : batch * BatchSize < f
                                      /\ f <= (batch + 1) * BatchSize}
  BY <1>2, Batches DEF InBatch
<1>4. Types'
  <2>1. changed' \subseteq 1..FileCount
    BY <1>1, <1>3 DEF Inv, Types
  <2>2. batch' \in Nat /\ batch' <= Len(batches(Files, BatchSize))
    BY <1>1, <1>2, Batches
  <2>3. QED
    BY <1>1, <2>1, <2>2 DEF Inv, Types, setting
<1>5. Underway'
  BY <1>1 DEF Inv, Underway, Going, At, setting
<1>6. /\ Foreign' /\ Sought' /\ Formatting("verify", "list")'
      /\ Formatting("fmt", "write")' /\ Removing'
  BY <1>1 DEF Inv, Foreign, Sought, Formatting, Removing, Going, setting,
              Present, Clean
<1>7. Batched'
  <2> SUFFICES ASSUME NEW t \in Formatters, NEW f \in 1..FileCount,
                      f <= (batch + 1) * BatchSize, <<t, f>> \in unformatted
               PROVE  /\ Head(body) = <<"list", t>> => f \in changed'
                      /\ Head(body) # <<"write", t>>
    BY <1>1 DEF Batched
  <2>1. Head(body) # <<"write", t>>
    BY <1>1
  <2>2. ASSUME Head(body) = <<"list", t>> PROVE f \in changed'
    <3>1. CASE f <= batch * BatchSize
      BY <1>1, <2>2, <3>1, AtHead DEF Inv, Batched
    <3>2. CASE ~(f <= batch * BatchSize)
      <4>1. f \in InBatch
        BY <1>2, <1>3, <3>2
      <4>2. Head(body)[2] = t
        BY <2>2
      <4>3. QED
        BY <1>1, <4>1, <4>2
    <3>3. QED
      BY <3>1, <3>2
  <2>3. QED
    BY <2>1, <2>2
<1>8. (PassMeansClean /\ PassIsAboutRepository /\ LeftoversReported)'
  BY <1>1, <1>5, StillRunning
<1>9. QED
  BY <1>1, <1>4, <1>5, <1>6, <1>7, <1>8 DEF Inv

\* A batch of files is rewritten.  What goimports may disturb is ahead of
\* gofumpt.
LEMMA WriteBatchInv == ASSUME Inv, WriteBatch PROVE Inv'
<1>1. /\ pc = "step" /\ body # << >> /\ Head(body)[1] = "write"
      /\ ~BatchesDone
      /\ batch' = batch + 1
      /\ UNCHANGED <<setting, pc, steps, body, changed, expired, tmp, deferred,
                     warned, failed, code>>
  BY DEF WriteBatch, At
<1>2. PICK disturbed \in SUBSET InBatch :
         /\ Head(body)[2] = "gofumpt" => disturbed = {}
         /\ unformatted' = (unformatted \ ({Head(body)[2]} \X InBatch))
                              \cup ({"gofumpt"} \X disturbed)
  BY DEF WriteBatch
<1>3. /\ batch \in Nat /\ batch < Len(batches(Files, BatchSize))
      /\ FileCount \in Nat /\ BatchSize \in Nat
  BY <1>1, Batches, GateAssumption DEF Inv, Types, BatchesDone
<1>4. InBatch = {f \in 1..FileCount : batch * BatchSize < f
                                      /\ f <= (batch + 1) * BatchSize}
  BY <1>3, Batches DEF InBatch
<1>5. mode = "fmt"
  BY <1>1, AtHead
<1>6. \A t, f : <<t, f>> \in unformatted' =>
                   \/ <<t, f>> \in unformatted
                   \/ t = "gofumpt" /\ f \in disturbed
  BY <1>2
<1>7. Types'
  <2>1. unformatted \subseteq Formatters \X (1..FileCount)
        /\ disturbed \subseteq 1..FileCount /\ "gofumpt" \in Formatters
    BY <1>4 DEF Inv, Types, Formatters
  <2>2. unformatted' \subseteq Formatters \X (1..FileCount)
    BY <1>2, <2>1
  <2>3. batch' \in Nat /\ batch' <= Len(batches(Files, BatchSize))
    BY <1>1, <1>3, Batches
  <2>4. QED
    BY <1>1, <2>2, <2>3 DEF Inv, Types, setting
<1>8. Underway'
  BY <1>1 DEF Inv, Underway, Going, At, setting
<1>9. Foreign' /\ Sought' /\ Removing'
  BY <1>1 DEF Inv, Foreign, Sought, Removing, Going, setting, Present
<1>10. Formatting("verify", "list")'
  BY <1>1, <1>5 DEF Formatting, setting
<1>11. ASSUME disturbed # {} PROVE In(<<"write", "gofumpt">>, body)
  <2>1. Head(body) = <<Head(body)[1], Head(body)[2]>>
    BY <1>1, AtHead DEF Instructions
  <2>2. CASE Head(body)[2] = "goimports"
    <3>1. /\ 1 \in DOMAIN body /\ body[1] = <<"write", "goimports">>
          /\ body \in Programs
      BY <1>1, <2>1, <2>2, AtHead, TailFacts
    <3>2. PICK l \in DOMAIN body : body[l] = <<"write", "gofumpt">>
      BY <3>1 DEF Programs, WellFormatted, Follows
    <3>3. QED
      BY <3>2 DEF In
  <2>3. CASE Head(body)[2] # "goimports"
    <3>1. Head(body)[2] \in Formatters
      BY <1>1, AtHead, TailFacts DEF Programs, WellFormatted
    <3>2. QED
      BY <1>2, <1>11, <2>3, <3>1 DEF Formatters
  <2>4. QED
    BY <2>2, <2>3
<1>12. Formatting("fmt", "write")'
  <2> SUFFICES ASSUME NEW t \in Formatters, ~Left(<<"write", t>>, steps, body)
               PROVE  Clean(t)'
    BY <1>1 DEF Formatting
  <2>1. Clean(t)
    BY <1>1, <1>5, AtHead DEF Inv, Formatting
  <2>2. t = "gofumpt" => disturbed = {}
    BY <1>11 DEF Left
  <2>3. QED
    BY <1>6, <2>1, <2>2 DEF Clean
<1>13. Batched'
  <2> SUFFICES ASSUME NEW t \in Formatters, NEW f \in 1..FileCount,
                      f <= (batch + 1) * BatchSize, <<t, f>> \in unformatted'
               PROVE  /\ Head(body) = <<"list", t>> => f \in changed'
                      /\ Head(body) # <<"write", t>>
    BY <1>1 DEF Batched
  <2>1. Head(body) # <<"list", t>>
    BY <1>1
  <2>2. ASSUME Head(body) = <<"write", t>> PROVE FALSE
    <3>1. Head(body)[2] = t
      BY <2>2
    <3>2. <<t, f>> \in unformatted /\ f \notin InBatch
      BY <1>2, <3>1
    <3>3. f <= batch * BatchSize
      BY <1>3, <1>4, <3>2
    <3>4. QED
      BY <1>1, <2>2, <3>2, <3>3, AtHead DEF Inv, Batched
  <2>3. QED
    BY <2>1, <2>2
<1>14. (PassMeansClean /\ PassIsAboutRepository /\ LeftoversReported)'
  BY <1>1, <1>8, StillRunning
<1>15. QED
  BY <1>1, <1>7, <1>8, <1>9, <1>10, <1>12, <1>13, <1>14 DEF Inv

\* A deferred removal succeeds, is warned of, or makes the step fail.
LEMMA DeferredInv == ASSUME Inv, Deferred PROVE Inv'
<1>1. /\ pc = "step" /\ body = << >>
      /\ UNCHANGED <<setting, unformatted, pc, steps, body, batch, changed,
                     expired, code>>
  BY DEF Deferred
<1>2. PICK f \in deferred :
         /\ deferred' = deferred \ {f}
         /\ \/ /\ tmp' = tmp \ {f}
               /\ UNCHANGED <<warned, failed>>
            \/ /\ f = "vendor"
               /\ warned' = warned \cup {f}
               /\ UNCHANGED <<tmp, failed>>
            \/ /\ f = "profile"
               /\ failed' = TRUE
               /\ UNCHANGED <<tmp, warned>>
  BY DEF Deferred
<1>3. ~In(<<"close", "profile">>, << >>)
  BY DEF In
<1>4. failed => failed'
  BY <1>2
<1>5. Types'
  <2>1. /\ deferred' \subseteq tmp'
        /\ tmp' \cup warned' \subseteq {"vendor", "profile"}
        /\ failed' \in BOOLEAN
    BY <1>2 DEF Inv, Types
  <2>2. QED
    BY <1>1, <2>1 DEF Inv, Types, setting
<1>6. Underway'
  <2>1. Closes(<< >>, tmp')
    BY DEF Closes
  <2>2. Going' => Going
    BY <1>1, <1>2, <1>4 DEF Going, Inv, Types
  <2>3. batch # 0 /\ Going' => At({"list", "write"})
    BY <2>2 DEF Inv, Underway
  <2>4. QED
    BY <1>1, <2>1, <2>3 DEF Inv, Underway, Going, At, setting
<1>7. /\ Foreign' /\ Sought' /\ Formatting("verify", "list")'
      /\ Formatting("fmt", "write")' /\ Batched'
  <2>1. Going' => Going
    BY <1>1, <1>2, <1>4 DEF Going, Inv, Types
  <2>2. Foreign'
    BY <1>1, <2>1 DEF Inv, Foreign, setting, Present
  <2>3. Sought' /\ Formatting("verify", "list")' /\ Formatting("fmt", "write")'
    BY <1>1, <2>1 DEF Inv, Sought, Formatting, setting, Clean
  <2>4. Batched'
    BY <1>1 DEF Batched
  <2>5. QED
    BY <2>2, <2>3, <2>4
<1>8. Removing'
  <2> SUFFICES ASSUME NEW g \in tmp'
               PROVE  g \in deferred' \/ g \in warned' \/ failed'
    BY DEF Removing
  <2>1. g \in tmp
    BY <1>2
  <2>2. g \in deferred \/ g \in warned \/ failed
    BY <1>1, <1>3, <2>1 DEF Inv, Removing
  <2>3. QED
    BY <1>2, <1>4, <2>2
<1>9. (PassMeansClean /\ PassIsAboutRepository /\ LeftoversReported)'
  BY <1>1, <1>6, StillRunning
<1>10. QED
  BY <1>1, <1>5, <1>6, <1>7, <1>8, <1>9 DEF Inv

\* A whole step is ahead.
LEMMA StartStep ==
    ASSUME NEW S, NEW s \in Seq(Starts(S)), s # << >>
    PROVE  Head(s) \in S /\ \A present : Closes(Head(s), present)
<1>1. Head(s) \in Starts(S)
  OBVIOUS
<1>2. QED
  BY <1>1 DEF Starts, Closes

\* runSequential goes on with the next step.
LEMMA GoOnInv ==
    ASSUME Inv, NextStep, ~failed, Len(steps) > 1
    PROVE  Inv'
<1>1. /\ pc = "step" /\ body = << >> /\ deferred = {}
      /\ steps' = Tail(steps) /\ body' = Head(Tail(steps))
      /\ UNCHANGED <<pc, code>>
      /\ UNCHANGED <<setting, unformatted, batch, changed, expired, tmp,
                     deferred, warned, failed>>
  BY DEF NextStep
<1>2. Going /\ Types /\ Underway
  BY <1>1 DEF Inv, Going
<1>3. batch = 0
  BY <1>1, <1>2 DEF Underway, At
<1>4. Types'
  BY <1>1, <1>2 DEF Types, setting
<1>5. steps \in Seq(Starts(Programs))
      /\ (mode # "fmt" => steps \in Seq(Starts(Reads)))
  BY <1>2 DEF Underway
<1>6. ASSUME NEW S, steps \in Seq(Starts(S))
      PROVE  /\ Tail(steps) \in Seq(Starts(S)) /\ Tail(steps) # << >>
             /\ Head(Tail(steps)) \in S
             /\ Closes(Head(Tail(steps)), tmp')
  <2>1. steps # << >> /\ Len(steps) \in Nat
    BY <1>6
  <2>2. Tail(steps) \in Seq(Starts(S)) /\ Len(Tail(steps)) = Len(steps) - 1
    BY <1>6, <2>1
  <2>5. Len(Tail(steps)) # 0
    BY <2>1, <2>2
  <2>3. Tail(steps) # << >>
    BY <2>5
  <2>4. QED
    BY <2>2, <2>3, StartStep
<1>7. Underway'
  <2>1. /\ Tail(steps) \in Seq(Starts(Programs)) /\ Tail(steps) # << >>
        /\ Head(Tail(steps)) \in Programs
        /\ Closes(Head(Tail(steps)), tmp')
    BY <1>5, <1>6
  <2>2. mode # "fmt" => /\ Tail(steps) \in Seq(Starts(Reads))
                        /\ Head(Tail(steps)) \in Reads
    BY <1>5, <1>6
  <2>3. mode' = mode /\ mode \in Modes /\ code' = Running /\ ~failed'
        /\ pc' = "step" /\ batch' = 0
    BY <1>1, <1>2, <1>3 DEF Underway, setting
  <2>4. QED
    BY <1>1, <2>1, <2>2, <2>3 DEF Underway
<1>8. \A i : Left(i, steps, body) => Left(i, steps', body')
  BY <1>1, <1>5, LeftNext
<1>9. Foreign'
  BY <1>1, <1>2, <1>8 DEF Inv, Foreign, setting, Present
<1>10. Sought' /\ Formatting("verify", "list")' /\ Formatting("fmt", "write")'
  BY <1>1, <1>2, <1>8 DEF Inv, Sought, Formatting, setting, Clean
<1>11. Batched'
  <2>1. \A f \in 1..FileCount : ~(f <= batch' * BatchSize)
    BY <1>1, <1>3, GateAssumption
  <2>2. QED
    BY <2>1 DEF Batched
<1>12. Removing'
  <2>1. ~In(<<"close", "profile">>, << >>)
    BY DEF In
  <2>2. QED
    BY <1>1, <2>1 DEF Inv, Removing
<1>13. (PassMeansClean /\ PassIsAboutRepository /\ LeftoversReported)'
  BY <1>1, <1>7, StillRunning
<1>14. QED
  BY <1>1, <1>4, <1>7, <1>9, <1>10, <1>11, <1>12, <1>13 DEF Inv

\* runSequential returns, and nothing is left to run when no step failed.
LEMMA ReturnInv ==
    ASSUME Inv, NextStep, ~(~failed /\ Len(steps) > 1)
    PROVE  Inv'
<1>1. /\ pc = "step" /\ body = << >> /\ deferred = {}
      /\ pc' = "exit" /\ code' = IF failed THEN 1 ELSE 0
      /\ UNCHANGED <<steps, body>>
      /\ UNCHANGED <<setting, unformatted, batch, changed, expired, tmp,
                     deferred, warned, failed>>
  BY DEF NextStep, Exit
<1>2. Types /\ Underway
  BY DEF Inv
<1>3. Types'
  BY <1>1, <1>2 DEF Types, setting
<1>4. Underway'
  BY <1>1, <1>2 DEF Underway, Going, setting
<1>5. /\ Foreign' /\ Sought' /\ Formatting("verify", "list")'
      /\ Formatting("fmt", "write")' /\ Batched' /\ Removing'
  BY <1>1 DEF Foreign, Sought, Formatting, Batched, Removing, Going
<1>6. steps \in Seq(Starts(Programs))
  BY <1>2 DEF Underway
<1>7. ~failed => Going /\ \A i : ~Left(i, steps, body)
  BY <1>1, <1>6, LeftNothing DEF Going
<1>8. PassIsAboutRepository'
  BY <1>1, <1>7 DEF Inv, Foreign, PassIsAboutRepository, setting
<1>9. PassMeansClean'
  <2>1. ~failed /\ mode = "verify" => defects = {}
    BY <1>7 DEF Inv, Sought
  <2>2. ~failed /\ mode \in {"verify", "fmt"} =>
           \A t \in Formatters : Clean(t)
    BY <1>7 DEF Inv, Formatting
  <2>3. (\A t \in Formatters : Clean(t)) => unformatted = {}
    BY <1>2 DEF Types, Clean
  <2>4. QED
    BY <1>1, <2>1, <2>2, <2>3 DEF PassMeansClean, setting
<1>10. LeftoversReported'
  <2>1. ~In(<<"close", "profile">>, << >>)
    BY DEF In
  <2>2. \A f \in tmp : f \in warned \/ failed
    BY <1>1, <2>1 DEF Inv, Removing
  <2>3. QED
    BY <1>1, <2>2 DEF LeftoversReported
<1>11. QED
  BY <1>1, <1>3, <1>4, <1>5, <1>8, <1>9, <1>10 DEF Inv

\* The steps of the mode start.
LEMMA StartInv ==
    ASSUME Inv, Execute, root # "none" /\ release /\ mode \in Modes
    PROVE  Inv'
<1> DEFINE all == stepsForMode(mode)
<1>1. /\ pc = "execute" /\ pc' = "step" /\ steps' = all /\ body' = Head(all)
      /\ UNCHANGED code
      /\ UNCHANGED <<setting, unformatted, batch, changed, expired, tmp,
                     deferred, warned, failed>>
  BY DEF Execute
<1>2. /\ Types /\ Underway /\ tmp = {} /\ ~failed /\ batch = 0
      /\ mode \in Modes
  BY <1>1 DEF Inv
<1>3. /\ all \in Seq(Starts(Programs)) /\ all # << >>
      /\ mode # "fmt" => all \in Seq(Starts(Reads))
  BY <1>2, ModePrograms
<1>4. ASSUME NEW i, NEW k \in DOMAIN all, In(i, all[k])
      PROVE  Left(i, steps', body')
  BY <1>1, <1>3, <1>4, LeftStart
<1>5. Foreign'
  <2> SUFFICES ASSUME root # "repository"
               PROVE  \E i \in Instructions :
                         /\ Left(i, steps', body')
                         /\ ~Present(i)'
                         /\ i[1] \in {"identity", "run", "path"}
    BY <1>1 DEF Foreign, setting
  <2>1. PICK i \in Instructions, k \in DOMAIN all :
           /\ In(i, all[k])
           /\ ~Present(i)
           /\ i[1] \in {"identity", "run", "path"}
    BY <1>2, EveryModeForeign
  <2>2. ~Present(i)'
    BY <1>1, <2>1 DEF Present, setting
  <2>3. QED
    BY <1>4, <2>1, <2>2
<1>6. Sought'
  <2> SUFFICES ASSUME mode = "verify", NEW d \in defects
               PROVE  Left(d, steps', body')
    BY <1>1 DEF Sought, setting
  <2>1. d \in Checks
    BY <1>2 DEF Types
  <2>2. QED
    BY <1>4, <2>1, EveryCheckRuns
<1>7. Formatting("verify", "list")'
  <2> SUFFICES ASSUME mode = "verify", NEW t \in Formatters
               PROVE  Left(<<"list", t>>, steps', body')
    BY <1>1 DEF Formatting, setting
  <2>1. QED
    BY <1>4, EveryFormatterRuns
<1>8. Formatting("fmt", "write")'
  <2> SUFFICES ASSUME mode = "fmt", NEW t \in Formatters
               PROVE  Left(<<"write", t>>, steps', body')
    BY <1>1 DEF Formatting, setting
  <2>1. QED
    BY <1>4, EveryFormatterRuns
<1> HIDE DEF all
<1>9. Types'
  BY <1>1, <1>2 DEF Types, setting
<1>10. Underway'
  <2>1. /\ Head(all) \in Programs /\ Closes(Head(all), tmp')
        /\ mode # "fmt" => Head(all) \in Reads
    BY <1>3, StartStep
  <2>2. mode' = mode /\ code' = Running /\ ~failed' /\ batch' = 0
    BY <1>1, <1>2 DEF Underway, setting
  <2>3. QED
    BY <1>1, <1>2, <1>3, <2>1, <2>2 DEF Underway
<1>11. Batched'
  <2>1. \A f \in 1..FileCount : ~(f <= batch' * BatchSize)
    BY <1>1, <1>2, GateAssumption
  <2>2. QED
    BY <2>1 DEF Batched
<1>12. Removing'
  BY <1>1, <1>2 DEF Removing
<1>13. (PassMeansClean /\ PassIsAboutRepository /\ LeftoversReported)'
  BY <1>1, <1>10, StillRunning
<1>14. QED
  BY <1>1, <1>5, <1>6, <1>7, <1>8, <1>9, <1>10, <1>11, <1>12, <1>13 DEF Inv

\* The command stops before its steps.
LEMMA RejectInv ==
    ASSUME Inv, Execute, ~(root # "none" /\ release /\ mode \in Modes)
    PROVE  Inv'
<1>1. /\ pc = "execute" /\ pc' = "exit" /\ code' = 1
      /\ UNCHANGED <<steps, body>>
      /\ UNCHANGED <<setting, unformatted, batch, changed, expired, tmp,
                     deferred, warned, failed>>
  BY DEF Execute, Exit
<1>2. Types'
  BY <1>1 DEF Inv, Types, setting
<1>3. Underway'
  BY <1>1 DEF Inv, Underway, Going, setting
<1>4. /\ Foreign' /\ Sought' /\ Formatting("verify", "list")'
      /\ Formatting("fmt", "write")' /\ Batched' /\ Removing'
  BY <1>1 DEF Foreign, Sought, Formatting, Batched, Removing, Going
<1>5. (PassMeansClean /\ PassIsAboutRepository /\ LeftoversReported)'
  BY <1>1 DEF PassMeansClean, PassIsAboutRepository, LeftoversReported
<1>6. QED
  BY <1>1, <1>2, <1>3, <1>4, <1>5 DEF Inv

\* The deadline passes, or nothing happens.
LEMMA WaitInv ==
    ASSUME Inv, Expire \/ UNCHANGED vars
    PROVE  Inv'
<1>1. UNCHANGED <<setting, unformatted, pc, steps, body, batch, changed, tmp,
                  deferred, warned, failed, code>>
  BY DEF Expire, vars
<1>2. Types' /\ Underway'
  BY <1>1 DEF Inv, Types, Underway, Going, At, setting
<1>3. Foreign'
  BY <1>1 DEF Inv, Foreign, Going, Present, setting
<1>4. /\ Sought' /\ Formatting("verify", "list")'
      /\ Formatting("fmt", "write")' /\ Batched' /\ Removing'
  BY <1>1 DEF Inv, Sought, Formatting, Batched, Removing, Going, Clean, setting
<1>5. (PassMeansClean /\ PassIsAboutRepository /\ LeftoversReported)'
  BY <1>1 DEF Inv, PassMeansClean, PassIsAboutRepository, LeftoversReported,
              setting
<1>6. QED
  BY <1>1, <1>2, <1>3, <1>4, <1>5 DEF Inv

-----------------------------------------------------------------------------
(***************************************************************************)
(* The theorems.                                                           *)
(***************************************************************************)

\* The invariant holds in every state of the gate, whatever fails and
\* wherever it is started.
THEOREM Invariant == Spec => []Inv
<1>1. Inv /\ [Next]_vars => Inv'
  <2> SUFFICES ASSUME Inv, [Next]_vars PROVE Inv'
    OBVIOUS
  <2>1. CASE Execute
    BY <2>1, StartInv, RejectInv
  <2>2. CASE Subprocess
    BY <2>2, SubprocessInv
  <2>3. CASE Look
    BY <2>3, LookInv
  <2>4. CASE Make
    BY <2>4, MakeInv
  <2>5. CASE ListBatch
    BY <2>5, ListBatchInv
  <2>6. CASE WriteBatch
    BY <2>6, WriteBatchInv
  <2>7. CASE Formatted
    BY <2>7, FormattedInv
  <2>8. CASE Fail
    BY <2>8, FailInv
  <2>9. CASE Deferred
    BY <2>9, DeferredInv
  <2>10. CASE NextStep
    BY <2>10, GoOnInv, ReturnInv
  <2>11. CASE Expire
    BY <2>11, WaitInv
  <2>12. CASE UNCHANGED vars
    BY <2>12, WaitInv
  <2>13. QED
    BY <2>1, <2>2, <2>3, <2>4, <2>5, <2>6, <2>7, <2>8, <2>9, <2>10, <2>11,
       <2>12 DEF Next, Step
<1>2. QED
  BY <1>1, InitInv, PTL DEF Spec

\* Every variable keeps its type: a formatter never runs more batches than
\* there are files, and nothing is deferred to be removed (removeTree, the
\* os.Remove of coverage) that was not made.
THEOREM TypeCorrect == Spec => []TypeOK
<1>1. Inv => TypeOK
  BY Batches, GateAssumption DEF Inv, Types, TypeOK
<1>2. QED
  BY <1>1, Invariant, PTL

\* For any number of files, any batch size, any defects and any complaints:
\* when stepsForMode's "verify" passes there are none, and when "fmt" passes
\* neither formatter would list a file.
THEOREM PassIsClean == Spec => []PassMeansClean
<1>1. Inv => PassMeansClean
  BY DEF Inv
<1>2. QED
  BY <1>1, Invariant, PTL

\* Whatever root repositoryRoot settles for, no mode passes elsewhere than in
\* the repository.
THEOREM NoPassElsewhere == Spec => []PassIsAboutRepository
<1>1. Inv => PassIsAboutRepository
  BY DEF Inv
<1>2. QED
  BY <1>1, Invariant, PTL

\* A coverage profile or a vendor copy that is left behind was warned of, or
\* the command failed.
THEOREM NothingLeftSilently == Spec => []LeftoversReported
<1>1. Inv => LeftoversReported
  BY DEF Inv
<1>2. QED
  BY <1>1, Invariant, PTL
=============================================================================
