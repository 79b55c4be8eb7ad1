--------------------------- MODULE CliWriterProofs ---------------------------
(***************************************************************************)
(* Theorems about CliWriter for any number of runs, names and inputs.      *)
(***************************************************************************)
EXTENDS CliWriter, TLAPS

\* The order of main.rs: a run that writes has generated its crate from an input
\* that expands and has created the directory.
Writing == {"open_manifest", "fill_manifest", "open_lib", "fill_lib"}

InOrder(r) ==
    /\ pc[r] \in Writing \union {"mkdir"} => generated[r] \in Infos
    /\ pc[r] \in Writing => srcDir

\* The run that overlaps no other is the only active one, and the manifest it
\* has written is still there when it comes to lib.rs.
Undisturbed(r) ==
    r \in Active /\ alone[r] =>
      /\ Active = {r}
      /\ pc[r] \in {"open_lib", "fill_lib"} => manifest = name[r]

CrateInv == TypeOK /\ \A r \in Runs : InOrder(r) /\ Undisturbed(r)

LEMMA CrateStart == Init => CrateInv
  BY CliAssumption
  DEF Init, CrateInv, TypeOK, InOrder, Undisturbed, Writing, Active, Inputs, Ended, Steps

LEMMA CrateStep == ASSUME CrateInv, [Next]_vars PROVE CrateInv'
<1> USE CliAssumption
    DEF CrateInv, TypeOK, InOrder, Undisturbed, Writing, Active, Inputs, Ended, Steps,
        Goto, output
<1>1. CASE ChangeInput
  BY <1>1 DEF ChangeInput
<1>2. ASSUME NEW r \in Runs, Run(r) PROVE CrateInv'
  <2>1. CASE Begin(r)
    <3>0. alone' \in [Runs -> BOOLEAN]
      <4> HIDE DEF Active, TypeOK
      <4>1. alone' = [s \in Runs |-> IF s = r THEN Active = {}
                                     ELSE IF s \in Active THEN FALSE ELSE alone[s]]
        BY <2>1 DEF Begin
      <4>2. alone \in [Runs -> BOOLEAN]
        BY DEF TypeOK
      <4>3. \A s \in Runs : (IF s = r THEN Active = {}
                             ELSE IF s \in Active THEN FALSE ELSE alone[s]) \in BOOLEAN
        BY <4>2, Zenon
      <4> QED
        BY <4>1, <4>3, Zenon
    <3>a. /\ pc' = [pc EXCEPT ![r] = "generate"]
          /\ name' \in [Runs -> Names]
          /\ UNCHANGED <<input, srcDir, manifest, lib, generated>>
      BY <2>1 DEF Begin
    <3>1. TypeOK' /\ \A s \in Runs : InOrder(s)'
      BY <3>0, <3>a
    <3>2. Active' = Active \union {r}
      BY <2>1 DEF Begin
    <3>3. ASSUME NEW s \in Runs, s \in Active', alone'[s]
          PROVE  Active' = {s} /\ pc'[s] = "generate"
      <4>1. s = r
        BY <2>1, <3>2, <3>3 DEF Begin
      <4> QED
        BY <2>1, <3>2, <3>3, <4>1 DEF Begin
    <3>4. \A s \in Runs : Undisturbed(s)'
      BY <3>3
    <3> QED
      BY <3>1, <3>4
  <2>2. CASE Generate(r)
    BY <2>2 DEF Generate
  <2>3. CASE CreateDirs(r)
    BY <2>3 DEF CreateDirs
  <2>4. CASE OpenManifest(r)
    BY <2>4 DEF OpenManifest
  <2>5. CASE FillManifest(r)
    BY <2>5 DEF FillManifest
  <2>6. CASE OpenLib(r)
    BY <2>6 DEF OpenLib
  <2>7. CASE FillLib(r)
    BY <2>7 DEF FillLib
  <2>8. CASE IoError(r)
    BY <2>8 DEF IoError
  <2>9. CASE Kill(r)
    BY <2>9 DEF Kill
  <2> QED
    BY <1>2, <2>1, <2>2, <2>3, <2>4, <2>5, <2>6, <2>7, <2>8, <2>9 DEF Run
<1>3. CASE UNCHANGED vars
  BY <1>3 DEF vars
<1> QED
  BY <1>1, <1>2, <1>3 DEF Next

\* The files hold what main.rs can write, in every state.
THEOREM CrateTypes == Spec => []TypeOK
<1>1. CrateInv /\ [Next]_vars => CrateInv'
  BY CrateStep
<1>2. CrateInv => TypeOK
  BY DEF CrateInv
<1> QED
  BY CrateStart, <1>1, <1>2, PTL DEF Spec

\* A run that ends well and overlaps no other leaves a whole crate of its own.
THEOREM SuccessLeavesWholeCrate == Spec => FinishedCrateIsWhole
<1> DEFINE Whole(r) == (pc[r] # "ok" /\ pc'[r] = "ok" /\ alone[r]) =>
                         /\ manifest' = name[r]
                         /\ lib' = <<name[r], generated[r]>>
           A == \A r \in Runs : Whole(r)
<1>1. CrateInv /\ [Next]_vars => CrateInv'
  BY CrateStep
<1>2. ASSUME CrateInv, Next PROVE A
  <2> SUFFICES ASSUME NEW r \in Runs PROVE Whole(r)
    OBVIOUS
  <2> USE DEF CrateInv, TypeOK, Goto, output
  <2>1. CASE ChangeInput
    BY <1>2, <2>1 DEF ChangeInput
  <2>2. ASSUME NEW s \in Runs, Run(s) PROVE Whole(r)
    <3>1. CASE Begin(s) \/ Generate(s) \/ CreateDirs(s)
      BY <1>2, <3>1 DEF Begin, Generate, CreateDirs
    <3>2. CASE OpenManifest(s) \/ FillManifest(s) \/ OpenLib(s)
      BY <1>2, <3>2 DEF OpenManifest, FillManifest, OpenLib
    <3>3. CASE IoError(s) \/ Kill(s)
      BY <1>2, <3>3 DEF IoError, Kill
    <3>4. CASE FillLib(s)
      BY <1>2, <3>4 DEF FillLib, Undisturbed, Active, Ended
    <3> QED
      BY <2>2, <3>1, <3>2, <3>3, <3>4 DEF Run
  <2> QED
    BY <1>2, <2>1, <2>2 DEF Next
<1>3. CrateInv /\ [Next]_vars => [A]_vars
  BY <1>2
<1>4. Spec => [][A]_vars
  BY CrateStart, <1>1, <1>3, PTL DEF Spec
<1> QED
  BY <1>4 DEF FinishedCrateIsWhole
=============================================================================
