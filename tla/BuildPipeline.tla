---------------------------- MODULE BuildPipeline ----------------------------
(***************************************************************************)
(* From a Compact source to the bindings the tests run on: the `compile`   *)
(* recipe of the Makefile (one contract), which skips the compiler when a  *)
(* stored checksum still matches, and the `contract!` macro, which expands *)
(* contract-info.json while cargo builds and registers the file so that    *)
(* cargo builds again when it changes.  Several `make test` may run at     *)
(* once, and the developer edits the source and runs `make clean`.         *)
(*                                                                         *)
(* A file is its content; a file that does not exist has content NoFile.   *)
(* The compiler writes contract-info.json in place, over some time: until  *)
(* it has finished, other makes find the file Partial.                     *)
(*                                                                         *)
(* Time stamps are kept only as the comparisons make and cargo draw from   *)
(* them: srcNewer and jsonTouched.                                         *)
(***************************************************************************)
CONSTANTS Contents,     \* what the Compact source may hold
          NoFile,       \* the content of a missing file
          Partial,      \* the content of a file that is not valid JSON: half
                        \* written, or by two compilers at once
          Makes,        \* concurrent `make test` runs
          Faults        \* what may go wrong, a subset of FaultKinds

FaultKinds == {"compiler_fails", "crash", "edit_race", "clean_race", "revert"}

ASSUME BuildAssumption == /\ NoFile \notin Contents
                          /\ Partial \notin Contents \union {NoFile}
                          /\ Faults \subseteq FaultKinds

VARIABLES source,       \* content of <name>.compact
          used,         \* the contents the source has had (see tainted)
          srcNewer,     \* the source was modified after .checksum was
          dir,          \* the output directory exists
          json,         \* the source content contract-info.json was compiled from
          checksum,     \* the content whose hash .checksum holds
          jsonTouched,  \* contract-info.json changed since cargo last started a build
          built,        \* the json content the built bindings come from
          pc,           \* where each make is
          hash,         \* current_hash of its recipe
          writing,      \* what its compiler is writing to contract-info.json,
                        \* NoFile if it writes nothing or the file was removed
          mixed,        \* different contents are being written to that file
          expanded,     \* what its macro expansion read
          overlap,      \* history: not all makes at work started alone
          tainted       \* history: the caches have been misled since the last
                        \* `make clean` that ran alone

vars == <<source, used, srcNewer, dir, json, checksum, jsonTouched, built, pc, hash, writing,
          mixed, expanded, overlap, tainted>>
files == <<source, used, srcNewer, dir, json, checksum, tainted>>
compilers == <<writing, mixed>>
bindings == <<jsonTouched, built, expanded>>

Rest == {"idle", "passed", "failed"}
Steps == {"hash", "compare", "compile", "compiling", "store", "cargo", "build"}
Working == {m \in Makes : pc[m] \notin Rest}
Writing == {m \in Makes : writing[m] # NoFile}

Init == /\ source \in Contents
        /\ used = {source}
        /\ srcNewer = TRUE
        /\ dir = FALSE
        /\ json = NoFile
        /\ checksum = NoFile
        /\ jsonTouched = TRUE
        /\ built = NoFile
        /\ pc = [m \in Makes |-> "idle"]
        /\ hash = [m \in Makes |-> NoFile]
        /\ writing = [m \in Makes |-> NoFile]
        /\ mixed = FALSE
        /\ expanded = [m \in Makes |-> NoFile]
        /\ overlap = FALSE
        /\ tainted = FALSE

Goto(m, step) == pc' = [pc EXCEPT ![m] = step]

-----------------------------------------------------------------------------
(* The developer. *)

\* An edit of the source: between two makes, or under one ("edit_race"); to
\* something new, or back to what it was ("revert").  Only the first of each
\* leaves the caches with what they were made for.
EditSource ==
    \E c \in Contents \ {source} :
        /\ Working = {} \/ "edit_race" \in Faults
        /\ c \notin used \/ "revert" \in Faults
        /\ source' = c
        /\ used' = used \union {c}
        /\ srcNewer' = TRUE
        /\ tainted' = (tainted \/ Working # {} \/ c \in used)
        /\ UNCHANGED <<dir, json, checksum, compilers, bindings, pc, hash, overlap>>

\* A clean that no make overlaps: nothing on disk remembers an earlier content.
ForgetPast ==
    IF Working = {} THEN tainted' = FALSE /\ used' = {source}
                    ELSE tainted' = TRUE /\ UNCHANGED used

\* A compiler whose file is removed goes on writing to no file.
RemoveOutput ==
    /\ dir' = FALSE
    /\ json' = NoFile
    /\ jsonTouched' = TRUE
    /\ writing' = [m \in Makes |-> NoFile]

\* Mutant of Clean: the compiler's output goes, the checksum stays.
CleanOutputOnly ==
    /\ Working = {} \/ "clean_race" \in Faults
    /\ RemoveOutput
    /\ ForgetPast
    /\ UNCHANGED <<source, srcNewer, checksum, mixed, built, expanded, pc, hash, overlap>>

\* `make clean` removes every output; make does not keep it from running under
\* another make ("clean_race").
Clean ==
    /\ Working = {} \/ "clean_race" \in Faults
    /\ RemoveOutput
    /\ checksum' = NoFile
    /\ ForgetPast
    /\ UNCHANGED <<source, srcNewer, mixed, built, expanded, pc, hash, overlap>>

-----------------------------------------------------------------------------
(* The recipe of $(COMPILED_DIR)/%/.checksum, one step per shell command. *)

\* Mutant of CompareHash: the checksum is stored before the compiler runs.
StoreBeforeCompile(m) ==
    /\ pc[m] = "compare"
    /\ IF hash[m] = checksum
       THEN Goto(m, "cargo") /\ UNCHANGED <<checksum, srcNewer>>
       ELSE Goto(m, "compile") /\ checksum' = hash[m] /\ srcNewer' = FALSE
    /\ UNCHANGED <<source, used, dir, json, compilers, bindings, hash, overlap, tainted>>

\* make runs the recipe only for a missing or older target.
Start(m) ==
    /\ pc[m] \in Rest
    /\ IF checksum = NoFile \/ srcNewer
       THEN Goto(m, "hash") /\ dir' = TRUE
       ELSE Goto(m, "cargo") /\ dir' = dir
    /\ overlap' = (Working # {})
    /\ UNCHANGED <<source, used, srcNewer, json, checksum, compilers, bindings, hash, tainted>>

HashSource(m) ==
    /\ pc[m] = "hash"
    /\ hash' = [hash EXCEPT ![m] = source]
    /\ Goto(m, "compare")
    /\ UNCHANGED <<files, compilers, bindings, overlap>>

\* On equal hashes the recipe writes nothing, so .checksum stays older.
CompareHash(m) ==
    /\ pc[m] = "compare"
    /\ Goto(m, IF hash[m] = checksum THEN "cargo" ELSE "compile")
    /\ UNCHANGED <<files, compilers, bindings, hash, overlap>>

\* The compiler reads the source as it is now, makes the directory it needs and
\* opens contract-info.json, which empties the file.
StartCompiler(m) ==
    /\ pc[m] = "compile"
    /\ dir' = TRUE
    /\ json' = Partial
    /\ jsonTouched' = TRUE
    /\ writing' = [writing EXCEPT ![m] = source]
    /\ mixed' = (Writing # {} /\ (mixed \/ \E n \in Writing : writing[n] # source))
    /\ Goto(m, "compiling")
    /\ UNCHANGED <<source, used, srcNewer, checksum, built, expanded, hash, overlap, tainted>>

\* Its last write completes the file, unless another compiler has emptied the
\* file since and is not done, or has left something else in it.
FinishCompiler(m) ==
    /\ pc[m] = "compiling"
    /\ IF writing[m] = NoFile
       THEN UNCHANGED <<json, jsonTouched>>
       ELSE /\ \/ json' = writing[m]
               \/ (Writing # {m} \/ mixed) /\ json' = Partial
            /\ jsonTouched' = TRUE
    /\ writing' = [writing EXCEPT ![m] = NoFile]
    /\ Goto(m, "store")
    /\ UNCHANGED <<source, used, srcNewer, dir, checksum, mixed, built, expanded, hash,
                   overlap, tainted>>

\* It exits with an error and leaves what was there, or half a file: the recipe,
\* a list of commands joined by `;`, goes on.
CompilerFails(m) ==
    /\ "compiler_fails" \in Faults
    /\ pc[m] \in {"compile", "compiling"}
    /\ writing' = [writing EXCEPT ![m] = NoFile]
    /\ tainted' = TRUE
    /\ Goto(m, "store")
    /\ UNCHANGED <<source, used, srcNewer, dir, json, checksum, mixed, bindings, hash, overlap>>

\* The redirection writes .checksum unless the directory has gone; the recipe
\* ends with an `echo` and so succeeds either way.
StoreChecksum(m) ==
    /\ pc[m] = "store"
    /\ IF dir THEN checksum' = hash[m] /\ srcNewer' = FALSE
              ELSE UNCHANGED <<checksum, srcNewer>>
    /\ Goto(m, "cargo")
    /\ UNCHANGED <<source, used, dir, json, compilers, bindings, hash, overlap, tainted>>

-----------------------------------------------------------------------------
(* cargo test, and the macro it runs.  One build at a time. *)

\* Mutant of Stale: expansions without include_bytes! track nothing.
StaleUntracked == built = NoFile

\* cargo rebuilds what has no finished build or whose tracked files changed.
Stale == jsonTouched \/ built = NoFile

UseBuilt(m) ==
    /\ pc[m] = "cargo"
    /\ ~Stale
    /\ \A n \in Makes : pc[n] # "build"
    /\ Goto(m, "passed")
    /\ UNCHANGED <<files, compilers, bindings, hash, overlap>>

\* The macro cannot read or parse the file: a compile error, which caches
\* nothing.
ExpandFails(m) ==
    /\ pc[m] = "cargo"
    /\ Stale
    /\ json \in {NoFile, Partial}
    /\ \A n \in Makes : pc[n] # "build"
    /\ Goto(m, "failed")
    /\ UNCHANGED <<files, compilers, bindings, hash, overlap>>

\* Changes from here on are newer than the build.
Expand(m) ==
    /\ pc[m] = "cargo"
    /\ Stale
    /\ json \notin {NoFile, Partial}
    /\ \A n \in Makes : pc[n] # "build"
    /\ expanded' = [expanded EXCEPT ![m] = json]
    /\ built' = NoFile
    /\ jsonTouched' = FALSE
    /\ Goto(m, "build")
    /\ UNCHANGED <<files, compilers, hash, overlap>>

FinishBuild(m) ==
    /\ pc[m] = "build"
    /\ built' = expanded[m]
    /\ Goto(m, "passed")
    /\ UNCHANGED <<files, compilers, jsonTouched, expanded, hash, overlap>>

\* A make is interrupted, and its compiler with it.  While another make is at
\* work, or has been since, the half-written file may be one the stored checksum
\* vouches for; a make that has run alone has not stored a checksum yet.
Crash(m) ==
    /\ "crash" \in Faults
    /\ pc[m] \notin Rest
    /\ writing' = [writing EXCEPT ![m] = NoFile]
    /\ tainted' = (tainted \/ (pc[m] = "compiling" /\ overlap))
    /\ Goto(m, "idle")
    /\ UNCHANGED <<source, used, srcNewer, dir, json, checksum, mixed, bindings, hash, overlap>>

Make(m) == \/ Start(m)
           \/ HashSource(m)
           \/ CompareHash(m)
           \/ StartCompiler(m)
           \/ FinishCompiler(m)
           \/ CompilerFails(m)
           \/ StoreChecksum(m)
           \/ UseBuilt(m)
           \/ ExpandFails(m)
           \/ Expand(m)
           \/ FinishBuild(m)
           \/ Crash(m)

Next == EditSource \/ Clean \/ \E m \in Makes : Make(m)

Spec == Init /\ [][Next]_vars

-----------------------------------------------------------------------------
(* Properties *)

Files == Contents \union {NoFile}

\* Every file holds a content or is missing, and whatever a make works on comes
\* from the source: the shape of the pipeline's state (Makefile, macro).
TypeOK ==
    /\ source \in Contents
    /\ used \subseteq Contents /\ source \in used
    /\ {srcNewer, dir, jsonTouched, mixed, overlap, tainted} \subseteq BOOLEAN
    /\ json \in Files \union {Partial} /\ checksum \in Files /\ built \in Files
    /\ pc \in [Makes -> Rest \union Steps]
    /\ hash \in [Makes -> Files]
    /\ writing \in [Makes -> Files]
    /\ expanded \in [Makes -> Files]
    /\ \A m \in Writing : pc[m] = "compiling"
    /\ ~dir => json = NoFile /\ checksum = NoFile /\ Writing = {}

\* A stored checksum that equals the hash of the source means that the source
\* has been compiled, or is being compiled once more: otherwise the recipe's
\* comparison skips a compilation that never took place or left half a file, in
\* this run and in every later one.
UpToDateIsCompiled == checksum = source => json = source \/ Writing # {}

\* The checksum vouches for the source as long as the compiler did not fail, no
\* edit went under a make or back to an old content, no `make clean` ran under
\* another make, and of several makes at work none was killed in its compiler.
\* Else concurrent and interrupted makes do no harm: not two compilers that
\* write one file, nor a lone make killed with the file half written.  And after
\* any of that, one `make clean` that runs alone is enough to trust it again.
CleanRestoresTrust == ~tainted => UpToDateIsCompiled

\* Bindings cargo takes to be fresh come from the contract-info.json that is on
\* disk: what the macro's include_bytes! is there for, also when the file is
\* rewritten while cargo builds from the old one, and whatever else went wrong.
BindingsTrackJson == ~Stale => built = json

\* `make test` passes only with bindings generated from the source as it is, and
\* fails for want of a compiled contract only while another make's compiler is
\* rewriting the contract-info.json they share: nothing cached along the way, by
\* make, by the recipe or by cargo, is stale or missing, unless the caches were
\* misled after the last `make clean` that ran alone.
TestsRunOnTheSource ==
    [][\A m \in Makes : ~tainted =>
         /\ pc[m] # "passed" /\ pc'[m] = "passed" => built' = source
         /\ pc[m] # "failed" /\ pc'[m] = "failed" => Writing \ {m} # {}]_vars
=============================================================================
