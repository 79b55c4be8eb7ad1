------------------------- MODULE BuildPipelineProofs -------------------------
(***************************************************************************)
(* Theorems about BuildPipeline for every number of makes, every set of    *)
(* contents and all faults.                                                *)
(***************************************************************************)
EXTENDS BuildPipeline, TLAPS

-----------------------------------------------------------------------------
(* Types, and what cargo takes to be fresh. *)

LEMMA TypeStep == ASSUME TypeOK, [Next]_vars PROVE TypeOK'
<1> USE BuildAssumption DEF TypeOK, Files, Rest, Steps, Writing, Goto, files, compilers, bindings
<1>1. CASE EditSource
  BY <1>1 DEF EditSource
<1>2. CASE Clean
  BY <1>2 DEF Clean, RemoveOutput, ForgetPast
<1>3. ASSUME NEW m \in Makes, Make(m) PROVE TypeOK'
  <2>1. CASE Start(m)
    BY <2>1 DEF Start
  <2>2. CASE HashSource(m)
    BY <2>2 DEF HashSource
  <2>3. CASE CompareHash(m)
    BY <2>3 DEF CompareHash
  <2>4. CASE StartCompiler(m)
    BY <2>4 DEF StartCompiler
  <2>5. CASE FinishCompiler(m)
    BY <2>5 DEF FinishCompiler
  <2>6. CASE CompilerFails(m)
    BY <2>6 DEF CompilerFails
  <2>7. CASE StoreChecksum(m)
    BY <2>7 DEF StoreChecksum
  <2>8. CASE UseBuilt(m)
    BY <2>8 DEF UseBuilt
  <2>9. CASE ExpandFails(m)
    BY <2>9 DEF ExpandFails
  <2>10. CASE Expand(m)
    BY <2>10 DEF Expand
  <2>11. CASE FinishBuild(m)
    BY <2>11 DEF FinishBuild
  <2>12. CASE Crash(m)
    BY <2>12 DEF Crash
  <2> QED
    BY <1>3, <2>1, <2>2, <2>3, <2>4, <2>5, <2>6, <2>7, <2>8, <2>9, <2>10, <2>11, <2>12 DEF Make
<1>4. CASE UNCHANGED vars
  BY <1>4 DEF vars
<1> QED
  BY <1>1, <1>2, <1>3, <1>4 DEF Next

\* Every file holds a content or is missing, in every state.
THEOREM PipelineTypes == Spec => []TypeOK
<1>1. Init => TypeOK
  BY BuildAssumption DEF Init, TypeOK, Files, Rest, Steps, Writing
<1>2. TypeOK /\ [Next]_vars => TypeOK'
  BY TypeStep
<1> QED
  BY <1>1, <1>2, PTL DEF Spec

\* A build under way has read the file cargo will compare with.
BuildTracksJson ==
    /\ BindingsTrackJson
    /\ \A m \in Makes : pc[m] = "build" /\ ~jsonTouched => expanded[m] = json

LEMMA FreshnessStep ==
    ASSUME TypeOK, BuildTracksJson, [Next]_vars PROVE BuildTracksJson'
<1> USE BuildAssumption DEF TypeOK, BuildTracksJson, BindingsTrackJson, Stale, Files, Rest, Goto, files, bindings
<1>1. CASE EditSource
  BY <1>1 DEF EditSource
<1>2. CASE Clean
  BY <1>2 DEF Clean, RemoveOutput, ForgetPast
<1>3. ASSUME NEW m \in Makes, Make(m) PROVE BuildTracksJson'
  <2>1. CASE Start(m)
    BY <2>1 DEF Start
  <2>2. CASE HashSource(m)
    BY <2>2 DEF HashSource
  <2>3. CASE CompareHash(m)
    BY <2>3 DEF CompareHash
  <2>4. CASE StartCompiler(m)
    BY <2>4 DEF StartCompiler
  <2>5. CASE FinishCompiler(m)
    BY <2>5 DEF FinishCompiler
  <2>6. CASE CompilerFails(m)
    BY <2>6 DEF CompilerFails
  <2>7. CASE StoreChecksum(m)
    BY <2>7 DEF StoreChecksum
  <2>8. CASE UseBuilt(m)
    BY <2>8 DEF UseBuilt
  <2>9. CASE ExpandFails(m)
    BY <2>9 DEF ExpandFails
  <2>10. CASE Expand(m)
    BY <2>10 DEF Expand
  <2>11. CASE FinishBuild(m)
    BY <2>11 DEF FinishBuild
  <2>12. CASE Crash(m)
    BY <2>12 DEF Crash
  <2> QED
    BY <1>3, <2>1, <2>2, <2>3, <2>4, <2>5, <2>6, <2>7, <2>8, <2>9, <2>10, <2>11, <2>12 DEF Make
<1>4. CASE UNCHANGED vars
  BY <1>4 DEF vars
<1> QED
  BY <1>1, <1>2, <1>3, <1>4 DEF Next

\* Whatever goes wrong, bindings that cargo would reuse come from the
\* contract-info.json on disk.
THEOREM FreshBindingsTrackJson == Spec => []BindingsTrackJson
<1>1. Init => TypeOK /\ BuildTracksJson
  BY BuildAssumption
  DEF Init, TypeOK, Files, Rest, Steps, Writing, BuildTracksJson, BindingsTrackJson, Stale
<1>2. TypeOK /\ BuildTracksJson /\ [Next]_vars => (TypeOK /\ BuildTracksJson)'
  BY TypeStep, FreshnessStep
<1>3. BuildTracksJson => BindingsTrackJson
  BY DEF BuildTracksJson
<1> QED
  BY <1>1, <1>2, <1>3, PTL DEF Spec

-----------------------------------------------------------------------------
(* The checksum cache, while it is not tainted. *)

\* The part of each make's progress that the cache rests on.
Progress(m) ==
    /\ pc[m] \in {"compare", "compile", "compiling", "store"} => hash[m] = source
    /\ pc[m] = "compiling" => writing[m] = source
    /\ pc[m] \in {"store", "cargo"} => json = source \/ (json = Partial /\ Writing # {})
    /\ pc[m] = "build" => expanded[m] = source

\* A make that works alone has not stored the checksum of what it compiles.
Alone(m) ==
    /\ Working = {m}
    /\ pc[m] \in {"compile", "compiling"} => checksum # source

CacheInv ==
    ~tainted =>
      /\ checksum # NoFile => checksum \in used
      /\ ~srcNewer /\ checksum # NoFile => checksum = source
      /\ UpToDateIsCompiled
      /\ Writing # {} => json \in {source, Partial} /\ ~mixed
      /\ \A m \in Makes : Progress(m)
      /\ ~overlap => \A m \in Working : Alone(m)

LEMMA CacheStep ==
    ASSUME TypeOK, BuildTracksJson, CacheInv, [Next]_vars
    PROVE  CacheInv'
<1> USE BuildAssumption
    DEF TypeOK, Files, CacheInv, UpToDateIsCompiled, Progress, Alone, Working, Writing,
        Rest, Steps, Goto, files, compilers, bindings
<1>1. CASE EditSource
  <2>1. Writing' = Writing
    BY <1>1 DEF EditSource
  <2>2. ~tainted' => ~tainted /\ Working = {}
    BY <1>1 DEF EditSource
  <2>3. ~tainted' => \A m \in Makes : pc'[m] \in Rest
    BY <1>1, <2>2 DEF EditSource
  <2>4. ~tainted' => Working' = {}
    BY <2>3
  <2> QED
    BY <1>1, <2>1, <2>2, <2>3, <2>4 DEF EditSource
<1>2. CASE Clean
  BY <1>2 DEF Clean, RemoveOutput, ForgetPast
<1>3. ASSUME NEW m \in Makes, Make(m) PROVE CacheInv'
  <2>1. CASE Start(m)
    <3>1. Writing' = Writing
      BY <2>1 DEF Start
    <3>2. ~overlap' => \A n \in Working' : n = m
      BY <2>1 DEF Start
    <3>3. pc'[m] \in {"hash", "cargo"} /\ m \in Working'
      BY <2>1 DEF Start
    <3>4. \A n \in Makes : ~tainted' => Progress(n)'
      BY <2>1, <3>1 DEF Start
    <3>5. ~tainted' /\ ~overlap' => \A n \in Working' : Alone(n)'
      BY <3>2, <3>3
    <3> QED
      BY <2>1, <3>1, <3>4, <3>5 DEF Start
  <2>2. CASE HashSource(m)
    BY <2>2 DEF HashSource
  <2>3. CASE CompareHash(m)
    BY <2>3 DEF CompareHash
  <2>4. CASE StartCompiler(m)
    BY <2>4 DEF StartCompiler
  <2>5. CASE FinishCompiler(m)
    BY <2>5 DEF FinishCompiler
  <2>6. CASE CompilerFails(m)
    BY <2>6 DEF CompilerFails
  <2>7. CASE StoreChecksum(m)
    BY <2>7 DEF StoreChecksum
  <2>8. CASE UseBuilt(m)
    BY <2>8 DEF UseBuilt
  <2>9. CASE ExpandFails(m)
    BY <2>9 DEF ExpandFails
  <2>10. CASE Expand(m)
    BY <2>10 DEF Expand
  <2>11. CASE FinishBuild(m)
    BY <2>11 DEF FinishBuild
  <2>12. CASE Crash(m)
    BY <2>12 DEF Crash
  <2> QED
    BY <1>3, <2>1, <2>2, <2>3, <2>4, <2>5, <2>6, <2>7, <2>8, <2>9, <2>10, <2>11, <2>12 DEF Make
<1>4. CASE UNCHANGED vars
  BY <1>4 DEF vars
<1> QED
  BY <1>1, <1>2, <1>3, <1>4 DEF Next

LEMMA CacheStart == Init => TypeOK /\ BuildTracksJson /\ CacheInv
  BY BuildAssumption
  DEF Init, TypeOK, Files, Rest, Steps, Writing, BuildTracksJson, BindingsTrackJson, Stale,
      CacheInv, UpToDateIsCompiled, Progress, Working, Alone

\* Interrupted makes and compilers that rewrite one file never leave a checksum
\* behind for a source that was not compiled, and a `make clean` that runs alone
\* undoes whatever did.
THEOREM ChecksumIsEarned == Spec => []CleanRestoresTrust
<1>1. TypeOK /\ BuildTracksJson /\ CacheInv /\ [Next]_vars
      => (TypeOK /\ BuildTracksJson /\ CacheInv)'
  BY TypeStep, FreshnessStep, CacheStep
<1>2. CacheInv => CleanRestoresTrust
  BY DEF CacheInv, CleanRestoresTrust
<1> QED
  BY CacheStart, <1>1, <1>2, PTL DEF Spec

\* While the caches are not misled, a `make test` that passes has run on bindings
\* of the source as it is, and one fails for want of a compiled contract only
\* while another make's compiler is rewriting the file.
THEOREM PassingTestsRunOnTheSource == Spec => TestsRunOnTheSource
<1> DEFINE Good(m) == /\ pc[m] # "passed" /\ pc'[m] = "passed" => built' = source
                      /\ pc[m] # "failed" /\ pc'[m] = "failed" => Writing \ {m} # {}
           A == \A m \in Makes : ~tainted => Good(m)
<1>1. TypeOK /\ BuildTracksJson /\ CacheInv /\ [Next]_vars
      => (TypeOK /\ BuildTracksJson /\ CacheInv)'
  BY TypeStep, FreshnessStep, CacheStep
<1>2. ASSUME TypeOK, BuildTracksJson, CacheInv, Next PROVE A
  <2> SUFFICES ASSUME NEW m \in Makes, ~tainted PROVE Good(m)
    OBVIOUS
  <2> USE DEF TypeOK, Goto, files, compilers, bindings
  <2>1. CASE EditSource \/ Clean
    BY <2>1 DEF EditSource, Clean
  <2>2. ASSUME NEW n \in Makes, Make(n) PROVE Good(m)
    <3>1. CASE Start(n) \/ HashSource(n) \/ CompareHash(n)
      BY <1>2, <3>1 DEF Start, HashSource, CompareHash
    <3>2. CASE StartCompiler(n) \/ FinishCompiler(n) \/ CompilerFails(n) \/ StoreChecksum(n)
      BY <1>2, <3>2 DEF StartCompiler, FinishCompiler, CompilerFails, StoreChecksum
    <3>3. CASE Expand(n) \/ Crash(n)
      BY <1>2, <3>3 DEF Expand, Crash
    <3>4. CASE UseBuilt(n)
      BY BuildAssumption, <1>2, <3>4
      DEF UseBuilt, Files, BuildTracksJson, BindingsTrackJson, CacheInv, Progress
    <3>5. CASE ExpandFails(n)
      BY BuildAssumption, <1>2, <3>5 DEF ExpandFails, CacheInv, Progress, Writing
    <3>6. CASE FinishBuild(n)
      BY <1>2, <3>6 DEF FinishBuild, CacheInv, Progress
    <3> QED
      BY <2>2, <3>1, <3>2, <3>3, <3>4, <3>5, <3>6 DEF Make
  <2> QED
    BY <1>2, <2>1, <2>2 DEF Next
<1>3. TypeOK /\ BuildTracksJson /\ CacheInv /\ [Next]_vars => [A]_vars
  BY <1>2
<1>4. Spec => [][A]_vars
  BY CacheStart, <1>1, <1>3, PTL DEF Spec
<1> QED
  BY <1>4 DEF TestsRunOnTheSource
=============================================================================
