# Verification of midnight-rust-bindgen

TLA+ specifications of this repository, the TLC configurations that check them
and TLAPS proofs about them. Paths below are relative to the repository; `SPEC`
is `docs/SPEC.md`.

## The system

midnight-rust-bindgen turns the `contract-info.json` of a Compact contract into
Rust: constants, data types, an eager ledger wrapper over a downloaded state and
a lazy one that asks a node for one field at a time. The bindings come from the
`contract!` macro, while cargo builds, or from a command line tool that writes a
crate. A Makefile compiles the example contracts the tests run on.

| component | state it keeps | operations | interacts with | modelled by |
|---|---|---|---|---|
| lazy wrapper `{Name}Query<P>` (`expand/ledger.rs` 212-456, `runtime/lazy.rs`) | none between calls; a future per call | one async accessor per cell, counter, map, set, list field | awaits the `StateQueryProvider`, hence a node whose state moves | `LazyQuery`, `LazyReplies`, `LedgerReads` |
| eager wrapper `{Name}` (`expand/ledger.rs` 9-210) | the `ContractState` it was loaded from | `new`, `from_hex`, one accessor per field | `nav.rs`, `accessors.rs` | `ContractSchema`, `StateTree`, `FieldLayout` |
| navigation and accessors (`runtime/nav.rs`, `accessors.rs`) | borrowed state | `cell_value`, `get_field[_path]`, `get`, `contains`, `iter`, `from_state` | the state tree of midnight-ledger | `StateTree`, `FieldLayout` |
| field constants (`expand/constants.rs`, `types.rs` 38-65) | indices compiled into the bindings | `emit_field_constants`, `field_index` | both wrappers, the layout of the state | `FieldLayout` |
| type emitter (`expand/data_types.rs`) | the set of names already emitted | `emit_data_types`, `collect_types`, the impls emitted | the whole of `ContractInfo` | `TypeCollector`, `Decoding` |
| type mapping, `Bytes<N>` (`expand/types.rs`, `runtime/conversions.rs`) | none | `type_to_tokens`, `uint_tokens`, `alignment_expr`, decoding | the emitted definitions | `Decoding` |
| naming, circuits, expansion (`expand/helpers.rs`, `circuits.rs`, `mod.rs`) | the items emitted so far | the stages of `EmitCtxt::expand` | rustc | `Expansion` |
| compilation and macro (`Makefile`, `bindgen-macro`) | sources, outputs, checksums, cargo's fingerprints | `make compile/test/clean`, expansion | compiler, cargo, file system | `BuildPipeline` |
| command line tool (`compact-codegen/src/main.rs`) | the output directory | generate, create, write two files | file system | `CliWriter` |
| schema (`compact-codegen/src/types.rs`, `schema.rs`) | none | serde | everything | as constants |

What is hard here. A lazy read spans an await during which blocks are committed,
and every reply carries two optional fields that tell an absence from a failure.
The eager and the lazy wrapper are two sets of templates that must agree. The
emitter's traversal shares one mutable set over a recursion in which a name is
taken before, and defined after, the types below it. The build has three caches
in a row (make's time stamps, a stored checksum, cargo's fingerprints), steps
that may fail unnoticed, and concurrent users. The tool overwrites a crate in
place. Field indices are compiled into a program and meet states of a contract that
may have grown since. Identifiers are made from Compact names in two ways, and
different names can become one. `PROJECT.json` lists each hazard at its line.

What makes each part correct:

- lazy reads: an answer is true of a state the contract had during the call;
  failures stay failures; eager and lazy agree; an answered call ends;
- field indices: an accessor answers for its own field wherever the index is still
  right, and does not pass another field's value off as its own where it is not;
- type emitter: one definition per name, no name without one, each name defined
  as the type that is meant; what is decoded is what was stored;
- naming: an expansion is right or fails; it is never silently wrong;
- build: nothing counts as compiled that was not; tests never pass on stale
  bindings; bindings are rebuilt when the JSON changes; `make clean` undoes any harm;
- tool: a successful run leaves one run's crate, whatever was there before.

## Modules

**StateTree** holds the data: `StateValue` as records tagged with their Rust
variant, aligned values as naturals, a Rust type as the set of aligned values its
`TryFrom<&ValueSlice>` accepts, and the eager accessors as operators; an iterator
is the function of all it yields. **LazyReplies** has one result of the node's RPC
and what the lazy accessors make of it.
**ContractSchema** has the contract as CONSTANTS (fields, storage kinds, types,
reads, possible ledgers) and `EagerRead`, the answer of the eager wrapper. Its
assumptions say that the contract on chain is the one the bindings were generated
from: each field has the variant of its kind; the values inside may fail to convert.

**LazyQuery** is the lazy wrapper. A caller's read goes `idle -> waiting ->
answered -> done`:

| action | code |
|---|---|
| `SendQuery`, `FailToBuildPath` | first poll: build the path and call the provider; a list index above `u8::MAX` panics (`lazy.rs` 88-96) |
| `ProviderAnswers` | external: the node evaluates the query on the ledger of this instant, or the provider fails, returns an empty list, a per-path error, or a string no state serializes to |
| `Resume` | everything after the `.await`: `map_err`, `results[0]`, absence test, `decode_state_value`, `cell_value`, `try_from` |
| `TakeResult` | the caller gets the `Result` |
| `CommitBlock` | external: the contract's state changes |

`since[c]` and the whole `chain` are history, kept to state what a read may report.

**LedgerReads** is the abstract specification: a typed read is fixed at one
instant between its call and its return, either to what `EagerRead` says of the
ledger of that instant or to a failure that says nothing of the ledger. LazyQuery
refines it (`Atomic`): a read is fixed when the provider answers, to what `Resume`
will make of the reply.

**TypeCollector** is `emit_data_types`. The recursion is unfolded into an agenda,
one entry per call to `collect_types` or pending `tokens.push`; `emitted` is
`EmitCtxt::emitted_types` and `defs` the pushed definitions. A type is a node, a
use of an equal structure the same node. Names are values, and two nodes may
share one.

**Decoding** adds what the emitted definitions do. A leaf is mapped to a Rust type
(`UintTokens` is `uint_tokens`), a composite decodes by splitting its atoms by the
widths that `Aligned` declares, an enum by matching a byte on its discriminants,
`i as u8`. A struct or enum is looked up by name among the definitions TypeCollector
left, so a wrong or missing one shows. `Codec` makes of the impls of its elements
those of a type, and `Codecs` applies it once for each level of nesting; an alias has
those of the type it abbreviates. A vector whose elements are of the Rust type `u8` is a
`[u8; N]`, one atom without a decoder (`conversions.rs` 10-12): a struct that has one does
not compile (`Accepted`), and the property says nothing of a field, an argument or a result
that is one. The reference
is what a compiled contract stores: constants say which values a type has and what
atoms the chain holds for each, and `ValuesAssumption` how those of a composite follow
from those of its elements. An atom is a number and the Rust integer types are bounds
(`Largest`), so that their edges can be put next to each other.

**FieldLayout** relates a field's index to the state. `Root` is the state of a
version of the contract: an array of fields up to `MaxFlat` of them (15 in the
compiler), an array of arrays beyond; `Path` is the index the compiler reports.

| action | code |
|---|---|
| `AppendField`, `CommitBlock` | external: the contract is deployed with one field more; a block changes its values |
| `BuildBindings` | the program is built and started: `emit_field_constants` and the accessors on the `contract-info.json` of the day |
| `Load` | `from_hex`: a state fetched now or earlier, of any version deployed so far |
| `StartRead`, `EagerStep`, `Finish` | an eager accessor: `navigate_to_field`, the loop of `get_field_path`, the typed end |
| `Query`, `NodeStep`, `Finish` | a lazy accessor: `build_query_path`, the node following it (external), the typed end |

A program started on newer bindings drops its handle; accessors borrow from the
handle, so a new load ends a read. Faults of the RPC are LazyQuery's subject.

**Expansion** is `EmitCtxt::expand`: one action per stage, each of which panics on a
name or adds its items, every item with its scope, its identifier, whether it is
raw, and what it was made from, which no other item of its scope was. A name is a sequence of words and separators, so
that case conversions and separators are exact and spelling is not needed.
`WriteTokens` (the tool) and `ExpandMacro` follow, then rustc: it rejects
unescaped keywords and duplicates, and may reject for other reasons.

**BuildPipeline** is the recipe of one `.checksum` file, one action per shell
command and two for the compiler, `make clean`, and `cargo test` with the macro's
expansion. Files are the
content they hold or were made from; time stamps are the comparisons drawn from
them: `srcNewer` (make) and `jsonTouched` (cargo, against the start of the last
build). cargo itself is external: it builds one at a time, drops a fingerprint
before it rebuilds and compares tracked files with the start of the build.
The compiler is external too and taken to write `contract-info.json` in place
(`Makefile:70` gives it the output directory, which all makes share): `StartCompiler`
reads the source and empties the file, which is `Partial` until `FinishCompiler`, and
`writing[m]` is what is on its way into it. Where two compilers write at once the file
may stay `Partial` when one of them ends, and when the last one ends if they
wrote different contents (`mixed`). A `make clean` removes the file from under the
compilers. What else the compiler writes is read by no one here.

`Faults` selects what may go wrong: `compiler_fails` (before it writes or half way),
`crash` (make interrupted, with its compiler), `edit_race` and `clean_race` (an edit,
a `make clean`, while a make is running), `revert` (an edit back to an earlier content).
The history variable `tainted` remembers that one of these that misleads the caches
happened since the last `make clean` that no make overlapped. Crashes are not among
them, with one exception: a make killed in its compiler when other makes are
or were at work beside it (`overlap`). Then the checksum another make has stored vouches
for half a file, and no later make repairs it; a make that is alone has not stored
one yet, so the next make compiles again. The exception is needed, TLC finds
`CleanRestoresTrust` violated without it.

A build may fail because the macro finds the file `Partial` while another make's
compiler is writing it. Nothing in the Makefile prevents that, and
`TestsRunOnTheSource` excludes failures only when no other make is compiling:
one after the end of a make's own compiler, or from what is left on disk.

**CliWriter** is `main`: generate in memory, create the directories, write
`Cargo.toml`, write `src/lib.rs`, each write being a truncation and a fill. Runs
overlap, fail at any step, are killed, and the input changes under them. What two
overlapping fills of one file leave may be `Mixed`.

`MC*` modules give the constants; `*Proofs` modules hold the theorems, and
**Induction** the facts on induction and on concatenated sequences they share. Operators
introduced as "Wrong on purpose" or "Mutant of" are the broken variants of the
code that each property is tested against; no specification uses them.

## Runs

| run | question | bounds |
|---|---|---|
| `lazy_reads` | Are answers true of a state in the call's window, and do both wrappers agree? | 2 callers, a field of each kind, 8 reads, 3 ledgers, 3 blocks, all faults |
| `lazy_refines` | Are lazy reads atomic, and do they end? | the same with 2 blocks; RPC errors on every kind but sets |
| `set_absence` | Can a caller rely on "not a member"? Violated | set reads, a key present throughout |
| `list_index` | Does an out-of-bounds list read return `None`? Violated | list reads around the limit |
| `type_collector` | Is each name defined once, every mentioned one defined, and every stored value decoded to itself? | all contracts with up to 2 ledger types of 10, 1 circuit type of 8 and 1 witness type of 2, with 8 more types inside them |
| `same_name` | Does each mentioned type have its own definition? Violated | the same types, fewer contracts |
| `build_faults` | Whatever fails, races or is interrupted: does cargo notice every change of the JSON, does a lone `make clean` restore trust, and do tests pass on stale bindings, or fail without another make compiling, only between the two? | 2 makes, 3 contents, all faults |
| `compiler_failure` | Does a stored checksum mean compiled? Violated | the same, a failing compiler |
| `cli_writer` | Does a successful run leave a whole crate of its own? | 2 runs, 2 names, 2 inputs |
| `field_layout` | Do accessors read their own field, and flat bindings fail loudly on another layout? | 4 fields, 2 of them fit a root array, 2 blocks, every storage kind |
| `expansion` | Is any accepted expansion silently wrong? Is a keyword left unescaped? | 3 ways to expand, 5 contract names, up to 2 fields, 1 type and 2 calls; or 1 type and 1 call with up to 2 members each |
| `names` | Does every Compact name get through the generator? Violated | 1 field, up to 1 call |

Why the bounds are enough. Lazy reads never look at each other, so two callers
show every interference there is (none); three blocks give a read a ledger
before, during and after it. The three ledgers have entries that appear,
disappear, are overwritten, fail to convert or have the wrong variant; reads ask
for keys that are always, sometimes and never there. `MaxIndexKey` stands for 255,
lowered to 1 so that lists reach across it. The types of `type_collector` are
those of the election fixture: two structs of one name, one inside the other's
elements, an enum behind a vector, a struct reaching the rest on several ways, and
beside them aliases and a vector of bytes. The
build needs two makes for one to act between two steps of the other, its compiler's
included, and three contents for one stored, one compiled and one new. For decoding, `u8` holds 0..3, the other integer types end at 5, 7, 9 and 12, and
there is a uint on each side of a bound, one given as a string, one beyond 128 bits
and an enum with one variant more than a `u8` counts; a struct or tuple is tried
with each element in turn at every one of its samples. Four fields give every version of a
contract on both sides of the change of layout, and both ways of cutting the
second one; the first field is of every storage kind, and so is one other at a
time. The names of `expansion` differ by case or separator only, equal a constructor,
a generated suffix or the contract's name, or are keywords of both sorts; a
clash takes no more than two names. All counts are free in the theorems.

Deadlock is checked except in the `type_collector`, `same_name`, `expansion` and
`names` runs, where the traversal or the expansion ends.

Fairness (`FairSpec` of LazyQuery, used by `CallsSettle` only): the provider
settles every request and the executor polls a future that is ready. The
generated code has neither timeout nor retry, so the first is an assumption about
the provider; it is what `async fn query_contract_state` is for. Nothing makes
callers or blocks go on.

## What the violated runs show

- `set_absence`: the set accessor ignores the per-path error of a reply
  (`ledger.rs:394`) and answers `false`. Map and list accessors return `QueryFailed`.
- `list_index`: `index_to_query_key` (`lazy.rs:89`) was made for field indices
  and panics above 255; `SPEC:482` promises `None`.
- `same_name`: types are told apart by name only (`data_types.rs:56`).
- `compiler_failure`: the recipe ignores the compiler's exit status
  (`Makefile:70-71`); the failed source counts as up to date from then on.
- `names`: `FIELD_` constants are formatted without `sanitize_ident`
  (`constants.rs:12`), so a field with `$` in its name panics; so does one called
  `self`, which has no raw form (`helpers.rs:27`). `SPEC:542` promises both.

## Proofs

All theorems hold for every value of the constants that satisfies the named
assumptions of the modules.

**LazyQueryProofs.** `TypeCorrect`; `LazyReadsAreCommittedState`; `WrappersAgree`;
`LazyReadsAreAtomic`. The invariant is `IInv`: types, and for each caller
`Progress`, which says of a read that is answered or done that its reply is one
the provider could have given for some ledger of the call's window, and that its
result is what `Outcome` makes of it. Neither property is inductive without it: a
result alone does not tell where it came from. It rests on the lemmas
`ExactAgreement` (from the node's exact reply, `Outcome` is the eager answer, kind
by kind) and `Agreement` (from any reply, it is that or a failure, or a negative
set answer). The refinement assumes that set queries are not answered with
per-path errors, the case the run `set_absence` refutes.

**TypeCollectorProofs.** `CollectorTypes`; `NamesAreDefinedOnce`, from an
invariant that a name on its way to being pushed (an agenda entry) is recorded, not
yet defined, and on its way only once; `NoDanglingNames`, from an invariant that
every recorded name is defined or about to be, and that whatever the output will
mention is defined, recorded, or still ahead in the agenda.

**BuildPipelineProofs.** `PipelineTypes` and `FreshBindingsTrackJson`, the latter
from `BuildTracksJson`: a build under way whose file was not
touched since has read the file on disk. `ChecksumIsEarned` and
`PassingTestsRunOnTheSource`, for any number of
makes and contents and any faults, from `CacheInv`: unless `tainted`, make's target
is of the source when it is not older, each make past the hash, the compiler or
the expansion has worked on the source as it is now, and every compiler is writing it.
That a make past its compiler may find the file half written, but only while another
compiler is running, is part of it (`Progress`), and so is what makes a lone
make's death harmless: the checksum is not yet that of the source (`Alone`).

**CliWriterProofs.** `CrateTypes`; `SuccessLeavesWholeCrate`, from `CrateInv`: a run
that writes has generated from an input that expands, and while no other run is
active the manifest it wrote is still there.

**FieldLayoutProofs.** `LayoutTypes`, `AccessorsReadTheirField` and
`FlatBindingsAreSafe`, for contracts of any size, any kinds of fields and any
way the compiler cuts a state into arrays. The invariant `IInv` says how far a walk
has come: what it has reached and what is left of its path are those of the
field's place in the state it started from. The last theorem rests on lemmas that
say where one index of a flat contract leads in a state of another version, level by level.

**ExpansionProofs.** `NamesResolve` and `KeywordsEscaped`, for any contract, any words
and any keywords. The invariant `IInv` ties the items to the stage: all those of
the stages behind are there, and none that no stage makes. Every promised name then
has its item, and an accepted expansion has no second item of that name in its
scope, so what the name finds is what the item was made from. Only the lazy wrapper
is found through the glob, which needs that no item of the module is called
`{Name}Query`: a call's items are not, by their suffixes (`Call`, `Return`, `Calls`),
the wrapper is one word shorter, and a type is not by the exclusion in the
property. For the keywords, an identifier that is formatted
is either longer than a word, or contains a word of the templates, or is capitalised:
`KeywordAssumption` says that keywords are single words other than those
(`new`, `FIELD_`, ...), none of them capitalised but `Self`.

**DecodingProofs.** `RoundTrip`: what is stored is what is decoded, for types of any
shape and depth, any bounds of the integer types and any number of variants. A codec is
`Sound` if it decodes nothing, as that of a `[u8; N]`, or gives every value of its type exactly the atoms it has and makes of
them that value and no other. Leaves are sound because `UintTokens` picks a type
that holds the maxval, enums because `Accepted` leaves no discriminant twice,
and an alias because the type it abbreviates is, and a composite because its elements are: a prefix of the concatenated atoms ends where
the widths of the elements before it add up to, so that each element gets back its own
slice. An induction on the level of nesting (`NestingAssumption`: types are finite
trees) concludes; it follows names through the definitions they have, which is where each
type's having its own definition is needed. `DistinctNamesMirror` shows that this
premise, which `same_name` refutes in general, holds for every contract whose structs
and enums have different names. It rests on the invariant that only structs and enums
are ever defined.

**Induction.** Induction on the naturals, stated of sets rather than of predicates: a set that
has 0 and, with a number, the next has all of them, because a least number outside
of it cannot exist.

Only model-checked: `CallsSettle`, since the provers at hand have no liveness
under fairness, and that the violated properties are violated.

## Not modelled

- serde parsing of `contract-info.json` and token formatting: pure conversions of
  libraries. An index that is neither a number nor an array is a compile error, so
  there are no bindings to say anything of.
- The getters of what an accessor holds (`size`, `len`, `height`, `root`), the
  constants that copy a circuit's name and flags, `into_option`, `Debug`, `Display` and
  the conversions of `Bytes<N>` back to atoms. Whether a key made from a Rust value has
  the alignment of the key on chain depends on what the compiler and midnight-ledger
  store, which this repository does not show: keys are taken as they are on chain.
- `Unknown` and `Contract` types: both become `Vec<u8>`, and nothing describes what
  is stored for them.
- Whether a `[u8; N]` could be decoded from a slice in another version of
  midnight-ledger: `conversions.rs` and `SPEC:236` say it cannot, so a Compact
  `Vector<N, Uint<8>>` in a struct gives bindings that do not compile.
- What bindings of one layout read from another, beyond `FlatBindingsFailLoudly`. A
  list, an untyped field or a lazy map may read an array of other fields, and bindings with
  paths may land inside a list or a tree. `SPEC:595` says that generated code should
  be versioned alongside the contract; nothing more is promised.
- The attributes of the macro's input. Its documentation shows `#[crate = path]`
  (`bindgen-macro/src/lib.rs:11`), its parser takes `#[crate(path)]`.
- A Compact type called `{Name}Query` hides the lazy wrapper, which is re-exported
  with a glob (`expand/mod.rs:70`). `AcceptedNamesResolve` excludes it by name.
- The nix build of the compiler, the other make targets, re-exports, the tests.
