------------------------------ MODULE CliWriter ------------------------------
(***************************************************************************)
(* The command line tool: it generates the whole crate in memory, creates  *)
(* <output>/src and writes Cargo.toml and src/lib.rs in place.  Any step   *)
(* may fail, a run may be killed between two steps, and two runs may have  *)
(* the same output directory.                                              *)
(*                                                                         *)
(* std::fs::write truncates the file and then fills it, so every write is  *)
(* two steps; when another run writes the same file in between, the        *)
(* shorter text may overlay the longer one (Mixed).  Cargo.toml            *)
(* depends on the contract's name only, lib.rs on the name and on          *)
(* contract-info.json.                                                     *)
(***************************************************************************)
CONSTANTS Runs,         \* runs of the tool
          Names,        \* the --name argument
          Infos,        \* contents of contract-info.json that parse
          Unreadable,   \* contract-info.json is missing, does not parse or does not expand
          NoFile, Partial, Mixed  \* a file that is missing, half written, overlaid

ASSUME CliAssumption ==
    /\ Unreadable \notin Infos
    /\ NoFile # Partial
    /\ {NoFile, Partial, Mixed} \intersect (Names \union (Names \X Infos)) = {}

VARIABLES input,        \* contract-info.json
          srcDir,       \* <output>/src exists
          manifest,     \* Cargo.toml: the name it was written for
          lib,          \* src/lib.rs: the name and input it was written for
          pc,           \* where each run is
          name,         \* its --name argument
          generated,    \* the input its crate was generated from
          alone         \* no other run has been active since it began

vars == <<input, srcDir, manifest, lib, pc, name, generated, alone>>
output == <<srcDir, manifest, lib>>

Ended == {"new", "ok", "error", "killed"}
Steps == {"generate", "mkdir", "open_manifest", "fill_manifest", "open_lib", "fill_lib"}
Inputs == Infos \union {Unreadable}
Active == {r \in Runs : pc[r] \notin Ended}

Init == /\ input \in Inputs
        /\ srcDir = FALSE
        /\ manifest = NoFile
        /\ lib = NoFile
        /\ pc = [r \in Runs |-> "new"]
        /\ name \in [Runs -> Names]
        /\ generated = [r \in Runs |-> Unreadable]
        /\ alone = [r \in Runs |-> TRUE]

Goto(r, step) == pc' = [pc EXCEPT ![r] = step]

\* The compiler, or the user, replaces contract-info.json.
ChangeInput == /\ \E i \in Inputs \ {input} : input' = i
               /\ UNCHANGED <<output, pc, name, generated, alone>>

\* The tool is started, with any name.
Begin(r) ==
    /\ pc[r] \in Ended
    /\ Goto(r, "generate")
    /\ \E n \in Names : name' = [name EXCEPT ![r] = n]
    /\ alone' = [s \in Runs |-> IF s = r THEN Active = {}
                                ELSE IF s \in Active THEN FALSE ELSE alone[s]]
    /\ UNCHANGED <<input, output, generated>>

\* generate_from_file: read, parse, expand; an error ends the run here.
Generate(r) ==
    /\ pc[r] = "generate"
    /\ generated' = [generated EXCEPT ![r] = input]
    /\ Goto(r, IF input = Unreadable THEN "error" ELSE "mkdir")
    /\ UNCHANGED <<input, output, name, alone>>

CreateDirs(r) ==
    /\ pc[r] = "mkdir"
    /\ srcDir' = TRUE
    /\ Goto(r, "open_manifest")
    /\ UNCHANGED <<input, manifest, lib, name, generated, alone>>

\* Mutant of OpenManifest: a Cargo.toml that is there is kept.
KeepManifest(r) ==
    /\ pc[r] = "open_manifest"
    /\ IF manifest = NoFile
       THEN manifest' = Partial /\ Goto(r, "fill_manifest")
       ELSE UNCHANGED manifest /\ Goto(r, "open_lib")
    /\ UNCHANGED <<input, srcDir, lib, name, generated, alone>>

OpenManifest(r) ==
    /\ pc[r] = "open_manifest"
    /\ manifest' = Partial
    /\ Goto(r, "fill_manifest")
    /\ UNCHANGED <<input, srcDir, lib, name, generated, alone>>

FillManifest(r) ==
    /\ pc[r] = "fill_manifest"
    /\ \/ manifest' = name[r]
       \/ ~alone[r] /\ manifest' = Mixed
    /\ Goto(r, "open_lib")
    /\ UNCHANGED <<input, srcDir, lib, name, generated, alone>>

OpenLib(r) ==
    /\ pc[r] = "open_lib"
    /\ lib' = Partial
    /\ Goto(r, "fill_lib")
    /\ UNCHANGED <<input, srcDir, manifest, name, generated, alone>>

\* Mutant of FillLib: lib.rs expanded from contract-info.json read again.
FillLibFromInput(r) ==
    /\ pc[r] = "fill_lib"
    /\ lib' = <<name[r], input>>
    /\ Goto(r, "ok")
    /\ UNCHANGED <<input, srcDir, manifest, name, generated, alone>>

FillLib(r) ==
    /\ pc[r] = "fill_lib"
    /\ \/ lib' = <<name[r], generated[r]>>
       \/ ~alone[r] /\ lib' = Mixed
    /\ Goto(r, "ok")
    /\ UNCHANGED <<input, srcDir, manifest, name, generated, alone>>

\* Creating the directory, opening a file or filling it fails: `?` ends the run
\* and what has been written stays.
IoError(r) ==
    /\ pc[r] \in Steps \ {"generate"}
    /\ Goto(r, "error")
    /\ UNCHANGED <<input, output, name, generated, alone>>

Kill(r) ==
    /\ r \in Active
    /\ Goto(r, "killed")
    /\ UNCHANGED <<input, output, name, generated, alone>>

Run(r) == \/ Begin(r)
          \/ Generate(r)
          \/ CreateDirs(r)
          \/ OpenManifest(r)
          \/ FillManifest(r)
          \/ OpenLib(r)
          \/ FillLib(r)
          \/ IoError(r)
          \/ Kill(r)

Next == ChangeInput \/ \E r \in Runs : Run(r)

Spec == Init /\ [][Next]_vars

-----------------------------------------------------------------------------
(* Properties *)

\* Types, and what the order of main.rs gives them: nothing is written outside
\* a created directory, and lib.rs always holds code that was generated.
TypeOK ==
    /\ input \in Inputs
    /\ srcDir \in BOOLEAN
    /\ manifest \in Names \union {NoFile, Partial, Mixed}
    /\ lib \in (Names \X Infos) \union {NoFile, Partial, Mixed}
    /\ pc \in [Runs -> Ended \union Steps]
    /\ name \in [Runs -> Names]
    /\ generated \in [Runs -> Inputs]
    /\ alone \in [Runs -> BOOLEAN]
    /\ ~srcDir => manifest = NoFile /\ lib = NoFile

\* A run that ends well without another one in its way leaves a whole crate of
\* its own, both files for its name and its input, whatever half-written or mixed
\* crate failed, killed or overlapping runs had left and however often the input
\* changed meanwhile.
FinishedCrateIsWhole ==
    [][\A r \in Runs : (pc[r] # "ok" /\ pc'[r] = "ok" /\ alone[r]) =>
           /\ manifest' = name[r]
           /\ lib' = <<name[r], generated[r]>>]_vars
=============================================================================
