# Psy compiler: TLA+ models and proofs

The Psy compiler turns programs in a small Rust-like language into arithmetic
circuits. This directory holds TLA+ modules of its parts, the TLC
configurations that check them on small instances, and TLAPS proofs of what
matters most. Line numbers in the modules refer to the sources at the commit
they are kept beside; `PROJECT.json` maps every definition to its lines.

## 1. The system

| component | state it keeps | operations | interacts with |
|---|---|---|---|
| **symbolic interpreter** (`psy-interpreter/src/lib.rs`, frames in `psy-sema/src/symbol_table.rs`) | recursion guard `active_functions`, frames and block scopes, the machine's condition stack, the constraints built so far, the materialization budget | interpret an entry point: statements, branches, loops, calls, intrinsics | reads the checked program; drives the machine (`psy_vm`); called back by the type checker to evaluate constants; `compile_fn` turns the result into a circuit |
| **language server** (`psy-lsp-server/src/simple.rs`) | `ctx` of the last good check, `crate_path_graph_cache`, `last_diagnostics`, `root_path` | `initialize`, `did_open`, `did_save`, hover, goto, references, formatting | one asynchronous handler per message; checks the files on disk; publishes over a bounded channel |
| **checked values** (`psy-sema/src/value.rs`) | a heap of shared cells (`Arc<RwLock<..>>`) | clone, `select`, `get_path`, `set_path` | the interpreter's variables |
| **type checker** (`psy-sema/src/lib.rs`, `infer.rs`, `resolver.rs`, `rewriter.rs`, `implementer.rs`, `predecl.rs`) | symbol table, scope stack, equations of inference, impls and instances registered so far | three passes over the definitions; visit bodies; unify, substitute, look up members, instantiate | evaluates constants with the interpreter, which takes what it accepts for granted |
| **storage preprocessor and ABI** (`psy-interpreter/src/preprocess.rs`, `psy-std/storage.psy`, `psy-abi`) | layout of the contract's storage | generate sizes, references and accessors; extract the ABI | must agree on every offset and on the height of the state tree |
| **parser** (`psy-parser`) | token cursor with checkpoints and a split token | parse a file to its tree; load the files of its modules | the crate graph comes from the package resolver; the formatter prints its trees |
| **formatter** (`psy-fmt`) | the text so far | print the tree of a file | `dargo fmt` and the language server replace a document by its output |
| file resolver (`psy-common/src/file_resolver.rs`) | paths and ids of the files read | read a file once | parser, language server |
| **crate graph** (`psy-common/src/graph.rs`) | nodes and edges in insertion order; during a walk its visited set or colours | add nodes and edges; `dfs`, `bfs`, `ts`, `check_cycle` | built by the package resolver; walked by parser, file resolver and type checker, with visitors that may fail |
| **crate pipeline** (`psy-package/src/lib.rs`, `source.rs`, `psy-dargo-cli/src/cli/mod.rs`, and what parser and type checker do with the graph) | manifests being resolved, packages resolved, entry paths still to connect | resolve the root and its dependencies from disk or memory; connect them; parse, number, order and check the crates | every stage relies on what the one before it established |
| **git cache** (`psy-package/src/git.rs`) | cloned repositories on disk | look for a clone, clone, try the next url | all processes of a user share it |
| **playground chain** (`psy-wasm/src/lib.rs`) | in-memory chain, result of the last compilation, both behind mutexes | compile, deploy, call, create account, reset | the machine executes circuits on a copy of the state |
| lexer, syntax tree, command line, precompiles, standard library, machine | none that matters here | | see section 7 |

### What is hard

*Symbolic execution.* The interpreter executes **every** branch. What a branch
does is made conditional afterwards: assignments and values of if-expressions
become selections, assertions and storage writes are gated. Whether a loop goes
on, and whether a failing assertion stops compilation, is decided at compile
time, on a mark that says "this value is a constant". One stale condition, one
mark too many, one selection in the wrong order, and the circuit computes
something else than the program says, for some witness no test uses. This is
the most important behaviour of the system, and the first one modelled.

*Errors.* The interpreter is reused after an error (`test` runs one function
after another, the type checker evaluates constants), so an error must leave
the guard, the frames and the machine as they were.

*Concurrency.* The language server runs several handlers at once. They are
suspended where they publish, with part of their updates done.

*Staleness.* The language server decides on the context of the last good check,
on a graph cached for ever and on one remembered bundle; the playground deploys
a cached compilation; the package resolver trusts any directory that exists.

*Agreement of parts that were written apart.* The interpreter ends in `unreachable!`
where it meets a value that the type checker should have kept away. Six generators, a library and the
ABI each add up the offsets of storage; the formatter must print what the parser
reads back; values are shared or copied according to their kind, and assignments
rely on it.

`PROJECT.json`, "hazards", lists them line by line.

### What makes each component correct

- *interpreter*: for each witness the circuit does what a run that takes only
  its own branches would; compile-time decisions rest on true constants; an
  error leaves nothing behind.
- *language server*: what is shown, remembered and answered from agrees with
  the last check once the server is quiet; a slow client costs bounded memory
  and starves no handler.
- *values*: an assignment changes what it names, for the witnesses that take the
  branch, and no other variable, except where sharing is meant.
- *type checker*: what it accepts the interpreter can run; an instance is made only
  of types that have the traits it asks for; what is defined may be used anywhere.
- *storage and ABI*: storage behaves as one value of the contract's type: a write
  replaces the part it names; the ABI's offsets are the program's, the tree is
  high enough.
- *parser and formatter*: operators bind by the table of the language; a formatted
  program is the same program, with all its comments.
- *crate graph*: a walk meets every node once; topological order puts
  dependencies first or reports a cycle that is there; a breadth-first walk
  leaves out only what hangs on a cycle; all of them end.
- *crate pipeline*: only cyclic manifests are refused as cyclic; a graph that
  was resolved never makes the parser panic; every package is compiled, after
  those it depends on; compilation ends.
- *git cache*: a dependency is complete or an error.
- *playground*: a failed call changes no state; storage is what the log says;
  contracts and transactions are numbered without gaps.

## 2. Modules

| module | what it is |
|---|---|
| `PsySyntax` | names, scalar values and expressions, common to the two modules below; the constants and their assumptions |
| `SourceSemantics` | the abstract specification: what a program means, each witness a run of its own |
| `SymExec` | the symbolic interpreter, one action per construct it interprets; its properties; the refinement mapping |
| `SymExecProofs` | inductive invariant and theorems about `SymExec` |
| `MCSymExec` | small expression sets; the abstract stack as an auxiliary variable |
| `SymExecRefinementProofs` | proof that `SymExec` implements `SourceSemantics` |
| `LspServer` | the diagnostics of the language server, its handlers, the channel and the client |
| `MCLspServer` | values for the functions among its constants; whether the client was patient |
| `LspServerProofs` | inductive invariants and theorems about `LspServer` and its patient client |
| `CrateGraph` | the graph and its three walks, one edge or one call of the visitor at a time |
| `CrateGraphProofs` | inductive invariant and theorems about `CrateGraph` |
| `CratePipeline` | from a manifest to checked crates; extends `CrateGraph` and takes its walks as steps |
| `MCCratePipeline` | symmetry of the packages |
| `GitCache` | processes that share the directories of git dependencies |
| `PackagesProofs` | inductive invariants and theorems about `GitCache` and `CratePipeline`: the cache; resolving the manifests; connecting, parsing and checking what was resolved |
| `MCPackages` | pipeline, walks and git cache as parts of one specification |
| `StorageTypes` | the types of storage and their values |
| `StorageTree` | the abstract specification of storage: one value, of which writes replace parts |
| `StorageLayout` | the generated accessors over a row of slots, and the ABI; the refinement mapping |
| `Recursion` | recursion and induction over ranks: what the proofs about recursive functions rest on |
| `StorageLayoutProofs` | inductive invariant and theorems about `StorageLayout`, which implements `StorageTree` |
| `MCStorageLayout` | small contracts |
| `ValueHeap` | cells, clones, `select`, `get_path`, `set_path`, and the statements over them |
| `MCValueHeap` | two arrays of pairs and a pair |
| `WasmChain` | the playground's chain |
| `WasmChainProofs` | invariants and theorems about `WasmChain` |
| `RecursiveParser` | the grammar: from tokens to the tree |
| `Formatter` | from the tree to tokens |
| `MCSyntax` | small programs, built production by production |
| `TypeInference` | types, equations, unification, substitution, which type implements which trait |
| `TypeInstances` | members of types; instances of functions and impls |
| `TypeChecker` | every construct, and the passes over the definitions |
| `Evaluator` | the interpreter by the kinds of its values, on checked trees |
| `MCTyping` | small programs from tokens to their result |
| `MCToolchain` | all parts outside the interpreter and the language server, one at a time |

A definition whose comment begins with *Mistake* is not part of a
specification: it is a variant of the definition after it, with a plausible
error, and a property that TLC refutes once it takes that definition's place
(`PROJECT.json`, "mutants") is shown to depend on the code being as it is.

### `SymExec`

A behaviour is the interpretation of *some* program: each action interprets one
construct, chosen freely among those that are in scope, so TLC explores all
programs up to a depth instead of a list of examples.

- `ctl` is the interpreter's own recursion, the frames of the symbol table and
  the machine's stack of if-blocks in one: a sequence of *levels*. A level has
  the variables of its scope (`vars`), the condition it is interpreted under
  (`cond`), for an `if` the condition around it (`outer`) and the disjunction
  of the predicates so far (`taken`), and what will be done with its value
  (`use`).
- A symbolic value is a function from witnesses to values, with the mark
  `const`. `Op` folds constants; `CSet(cond, old, new)` is the machine's
  conditional assignment.
- `active` is `active_functions`, `mem` the symbolic value of one storage slot,
  `unsat` the witnesses that violate a gated assertion.
- `If`, `ElseIf`, `Else`, `EndIf` are the steps of `interpret_if_expr`
  (lib.rs:2031-2067), `CallFn` and `Return` those of `interpret_call` and
  `interpret_function` (1840-1852, 733-777), `WhileBody`, `ForNext`, ... the
  rounds of the unrolled loops (780-834), `Assert` and `AssertRefused` both
  outcomes of the assertions (856-901), `Fail` what an error does on its way
  out, `NextEntry` the next method or test of `interpret` and `test`
  (413-447, 529-590).
- A closure (`Lambda`) pushes a scope on the caller's frame, a function starts
  a frame of its own (`enter_function`, symbol_table.rs:456): `InFrame`.

The machine (crate `psy_vm`) is a dependency outside the repository. What the
interpreter relies on is modelled from its use and marked external: constants
fold; a condition stack implements if / else if / else; `cset`, storage writes
and assertions are subject to the current condition.

### `SourceSemantics` and the refinement

`SourceSemantics` says what the program means and knows nothing of conditions,
selections and constants: in `st[i]` each run `i` is inside a construct, waits
for a branch, or skips it. `SymExec` implements it under the mapping `Meaning`:
run `i` is inside a branch when the branch's condition is true for `i`, waits
when `outer` holds and `taken` does not; the variables and the value of an
if-expression are those of the runs that are there. The property
`ImplementsSource` therefore says: for every witness the compiled circuit does
what the program means, and compilation refuses a program only where the source
semantics allows it to (an assertion that *every* run reaches and fails, a real
recursion, a loop whose runs differ). TLC checks it on small instances; it is also
proved (section 5).

### `LspServer`

The handlers run on a runtime that switches between them only at an await, and
the only awaits are those of `publish_diagnostics` and `log_message`, so a handler is one atomic
step up to the await and one (`Resume`) after it.

- `disk`, `manifest`: the files the editor saves; a check is a function of
  them. It stops at the first error, which names a file (`located`), the root
  (`root`, StoragePreprocess) or none (`unlocated`): `ReportOf`, `Verdicts`.
- `known` is the set of files of `ctx` (set by a good check only),
  `graphCached` the crate graph cache, `last` is `last_diagnostics`.
- `handler[h]` is what slot `h` does when its await returns (the value it will
  give `last`, or `Keep`), `parked` the handlers the full channel suspended,
  `outbox` the channel, `shown` what the client shows.
- `DidOpen`, `DidSave`, `DidSaveUnknown`, `Initialize` are the handlers;
  `Report` is `init_and_publish_diagnostics` with both orders of await and
  memory; `Publish`, `Resume`, `Deliver` model the channel of tower-lsp (a
  futures mpsc: the message enters first, then its sender is suspended while
  the channel is over its capacity) and are marked external.
- In the branch of a failed collection, whose two awaits follow each other,
  the log message is merged into the first publication: nothing is read
  between them, and this branch is taken with remembered diagnostics never
  (`FailureHasNothingToClear`).

### `CrateGraph`

- `graph` is `Graph::edges`: its `keys` in the order of the `IndexMap`, the
  `targets` of each in the order of the `IndexSet`. `add_edge` to the node
  itself adds the node and drops the edge (`WithEdge`, 32-37).
- A recursive function becomes frames: `stack` holds for each invocation of
  `dfs_inner` or `ts_inner` its node and the targets it has not looked at
  (`rest`); for `bfs_inner` one frame is the node taken from `queue`. `roots`
  is what is left of the loop of the outer function.
- `mark` is the colour map of `ts`, or the visited set of `dfs` and `bfs`
  (black); it lives as long as the walk.
- `TsRoot`, `TsEdge`, `TsVisit`, `DfsRoot`, ..., `BfsNext` are the rounds of
  the loops. A visitor may fail in `ts` and `bfs` (`TsVisit(FALSE)`), which
  ends the walk and drops its frames; the visitor of `dfs` cannot.
- `calls` records the calls of the visitor; only properties and
  `CratePipeline` read it.
- `bfs` starts from `starting_nodes`, the keys that are nobody's target
  (51-61, 85-92): `OnlyCyclesAreSkipped` says what that leaves out.

### `CratePipeline`

A package stands for its manifest, its entry path and its crate. What a
manifest says is chosen when it is first read (`Enter`), so that all graphs of
packages up to the bounds are compiled, reachable part first.

- `phase = "resolve"`: `frames` is the recursion of `resolve_to_package`
  (disk) or `resolve_package` (memory). On disk a package is resolved once for
  each path to it; in memory `resolved` remembers it (`Memoized`). `Reading`
  is the list against which cycles are detected. `Unreadable` is any error of
  a manifest, a path or git.
- `"connect"`: `ConnectTree` is `resolve_crate_path_graph` with its queue,
  `ConnectAll` the loop over the packages of a source workspace.
- `"parse"`: `ParseStep` is a step of `bfs` with the parser as its visitor.
  `Number` is `finish_inner`: the crate ids, the graph of ids, the standard
  library as a dependency of every other crate (`WithStd`). It indexes a map
  with every key of the graph: a panic if `bfs` has left one out (`ParseFails`).
- `"order"` is `check_cycle`, `"check"` is `visit_program`, both walks of `ts`.
- `WalkFails`, `ParseFails`, `Checked` end the compilation with a `verdict`;
  `Again` is the next one, which starts from nothing but the disk.

`CratePipeline` extends `CrateGraph` and conjoins its actions (`TsEdge`,
`BfsTake`, ...) with the phase, so that the walks proved about below are the
ones the pipeline takes.

### `GitCache`

`dir` is what each directory under `$HOME/dargo` holds, `at` and `tries` what each
process is doing and which urls it has left. `Check` takes any directory that
exists for a clone (git.rs:9-11), `Spawn` starts git, which may fail to start,
`CloneDone` and `CloneFails` look at its exit status, `Fails` goes on to the next
url of the library or gives up. `Kill` stops a process in the middle of a clone.
git itself is external: it refuses an existing directory and removes a new one
when it fails, but not when it is killed.

### `StorageTypes`, `StorageTree`, `StorageLayout`

A contract is a tree of structs, arrays, maps and felts. `StorageLayout`
translates the generators of preprocess.rs (`size`, `read`, `write`, `new`, `get`,
`set`, `eq`, `get_f`, `set_f_at`, ...), with the part of `storage.psy` they call,
to operators that compute slots, each summing the offsets as its generator does.
The slots hold distinct marks, because the code moves felts and never looks at
them. Its actions write the whole state, a field, an element, or a part through
references; `WritesReplaceOnePart` is the refinement of `StorageTree`, in which
storage is one value and a write replaces one part of it. `AbiLocatesFields` and
`TreeIsTallEnough` compare with psy-abi/src/extractor.rs.

What the generators do follows the nesting of types, and is written as recursive
functions over the types of the program. The constant `Nesting` gives each of
these a depth, and `TypesAssumption` says that a type is made of types of less
depth, which the compiler ensures (a struct within itself has no size). Proofs
and TLC use the same definitions. Some functions take a type to a function of
storage and offset, so that each recursion is over types only.

An array is read as one range of felts that are transmuted to its elements.
`FromFelts` and `SizeOf` are `decode_felts` (psy-sema/src/value.rs:131) and
`size_of` (context.rs:180), and `Readable` says where these do not end in a panic: `size_of` is
`todo!()` for arrays, so that an array whose elements have arrays in them
cannot be read whole, and chunks of no felts are refused. Properties about
reading speak of readable types.

### `ValueHeap`

`heap` is the sequence of cells behind `Arc<RwLock<..>>`, `scope` the variables.
`Clone` copies scalars and tuples and shares arrays and structs (value.rs:63);
`Select` is the conditional merge, `SetPath` the write through a path of fields
and indices, of which an index may depend on the witness. The statements
(`Declare`, `AssignTo`) are those of psy-interpreter/src/lib.rs and
take place under the condition of a branch. `ChangesWhatIsNamed`: an assignment
changes what it names for the witnesses in the branch, and other variables only
where they are names of the same array.

### `WasmChain`

One action for each exported function of psy-wasm/src/lib.rs that changes
`LAST_COMPILE` or `CHAIN`. The executor of psy_vm is external: it succeeds with
some writes, fails, returns an error or panics, and a panic poisons the lock.
`log` records each transaction with its code and writes, so that
`LogExplainsStorage` can replay it.

### `RecursiveParser`, `Formatter`, `MCSyntax`

`RecursiveParser` has one operator for each parse function of psy-parser's
recursive descent: from the tokens that are left to a tree and the tokens after
it; `Stuck` is the error every caller hands on. Splitting `>>` (`ExpectTypeGt`),
reading ahead to tell a generic list from a comparison, the restrictions on
struct literals in predicates, and which comments are attached, skipped or
refused are as in the code. `Formatter` has one operator for each `visit_*` of
psy-fmt and prints tokens; since angle brackets printed side by side are lexed as
a shift operator, they are printed apart and joined afterwards (`Lexed`).

`MCSyntax` makes programs: a form with holes, a hole replaced by a production at
each step, and the simplest text in the holes that are left. As a check of the
two modules against the code, 90 of the repository's own `.psy` files were lexed
and run through them: all parse, and all round-trip.

### `TypeInference`, `TypeInstances`, `TypeChecker`

A checker is a record: the equations of the current context (`bind`), functions,
structs, traits and impls registered so far, the scopes of names and variables,
the answer to the last question, and the fault that stopped it: `refused` for a
reported error, `panic` for an unwrap or an `expect` that fails. Operators take a
checker and give one, in the order of the code's calls; `Then` is `?`.

- `TypeInference` is infer.rs and the half of implementer.rs that answers whether a
  type has a trait. A type is itself and not an id: the symbol table interns types.
  `SubstituteType` makes the instances of structs that substitution makes;
  `satisfies_constraints` checks each argument in its own scope of equations, as in the code.
- `TypeInstances` is `find_member` (inherent impls, trait impls that match
  exactly, generic ones with the workaround for nested arrays, bounds), and
  rewriter.rs: the checked body of a generic function is copied and its types are
  replaced; nothing in it is checked again.
- `TypeChecker` has an operator for each `visit_*` of lib.rs and for the rules of
  paths (resolver.rs), and the passes of `visit_program`: `Predecl` registers the
  names, `Header` the signatures and impls, `Body` checks. `Attempt` is a visit
  whose error is swallowed, which leaves its tree on the path.

### `Evaluator`

psy-interpreter/src/lib.rs once more, on whole programs, with other data: a value
is its kind and its parts, so that every conversion (`as_bool`, `get_path`,
`set_path`, `to_felts`), every operator and every intrinsic takes or refuses what the code
does, and what they compute is left out. All branches and arms are taken, as the
interpreter takes them; a loop goes round once. What is left of a run is which of the
code's asserts, unwraps, `unreachable!`s and errors it meets.

### `MCTyping`

Programs are sequences of tokens; they are read by `RecursiveParser`, checked by
`CheckProgram` and run by `RunMain`. A sketch has holes for values of one type (or for
a statement); `Fill` puts a construct in one of them, some of a wrong type, and `Check` asks for the
verdict. Two further families have no holes: a generic function with its bound, body,
argument and result chosen freely over a library of traits and generic structs; an
intrinsic of the standard library with its arguments, or one of another type.

As a check of the modules against the code, 144 programs of the repository's tests
that use nothing left out were read, checked and run: the verdicts are those of the
tests, and what is accepted runs without fault, but for one program that depends on
the first of the defects listed under section 4, *Type checker*.

### `MCToolchain`

The parts meet nowhere in the code but through their results, so that the initial
state chooses which one runs (`part`) and the states of the parts add up instead
of multiplying. `Ended` lets those parts stutter that may really stop (a program
that ends, a page that calls no further, a text that is complete, a program that is checked); pipeline,
walks and git cache may not get stuck.

## 3. Runs

| run | expects | what it shows |
|---|---|---|
| `SymExecValues` | pass | nested branches, as statements and as values: `MCImplementsSource` |
| `SymExecLoops` | pass | `for` and `while` inside branches, branches and assertions inside loops, bodies that store in the loop's variable: `ConstantsAreConstant`, `MCImplementsSource` |
| `SymExecCalls` | pass | functions, closures, recursion, storage writes, calls and errors in the predicate of an `else if`, entry points after errors: `TypeOK`, `GuardIsCallStack`, `ConditionsNest`, `MCImplementsSource` |
| `SymExecRefusal` | violation | finding 1 |
| `Toolchain` | pass | *walks*: every walk of every graph, in every order of insertion: `TypeOK`, `CallsOnce`, `TargetsFirst`, `CycleIsReal`, `WalkIsComplete`, `OnlyCyclesAreSkipped`, `WalksEnd`. *pipeline*: packages on disk and in memory, whatever their manifests say: `CyclicIsReal`, `ResolvedSuitsParser`, `EveryPackageInMemoryIsANode`, `DependenciesFirst`, `CompilationEnds`. *git*: two processes, killed or not: `HandedOutIsComplete`. *layout*: some 1700 contracts: `WritesReplaceOnePart`, `ReadsAgree`, `AbiLocatesFields`, `TreeIsTallEnough`. *heap*: programs of three statements: `ChangesWhatIsNamed`. *chain*: calls that fail, err and panic, and resets: `ChainTypeOK`, `LogExplainsStorage`, `LogIsOfTheseContracts`, `ContractsAreAccountedFor`. *syntax*: some 25000 programs: `FormattingKeepsTheProgram`, `OperatorsBindByPrecedence`. *typing*: some 2500 programs, read, checked and run: `AcceptedProgramsRun`, `BoundsAreMet`, `DefinitionsComeInAnyOrder` |
| `PipelineDisk` | violation | finding 5 |
| `LspHandlers` | pass | overlapping handlers: `Backpressure`, `NoLostWakeup`, `FailureHasNothingToClear`, `GoodReportIsCurrent`, `HandlersFinish`; an editor that waits for the server: `PatientMemoryIsLatestReport` |
| `LspBlamedSave` | violation | finding 2 |
| `LspRace` | violation | finding 3 |
| `LspStale` | violation | finding 4 |
| `StorageBulk` | violation | finding 6 |
| `ValueSharing` | violation | finding 7 |

`MCImplementsSource` is `ImplementsSource` read from an auxiliary variable that
equals `Meaning` in every state (`MCInit`, `MCNext`): TLC evaluates it far
faster than the substitution. It excuses the steps from a call in the predicate of an
`else if` to the end of that entry point (`strayed`), because there the code
departs from the source semantics: finding 1. The state invariants of
`SymExecCalls` hold there as well. `patient` of `MCLspServer` remembers whether
the client has ever sent a message before the server was quiet; with an
impatient one finding 3 breaks the memory.

### Bounds

- *Witnesses and data.* Two witnesses, one bit of data (three values in
  `SymExecLoops`, where a range has to have two rounds). A symbolic value
  matters through which witnesses agree on it; two witnesses give both cases,
  and all conditions true for none, one, the other and both.
- *Depth.* `MaxDepth` constructs open at once: 3 for a branch in a branch in an
  entry point and for a call from a call, 4 in `SymExecLoops` for the body of a
  loop in a branch and the other way round. The
  length of a program is not bounded: the state does not remember the program.
- *Expressions.* `Exprs` has a literal, the argument and what the run is about
  (the slot, a caller's variable); `Constructs` selects the kinds of
  construct, so that each run affords the depth its question needs:
  declarations multiply the states and are left out of `SymExecLoops`, whose
  loops declare a variable of their own.
- *Crate graph.* Three nodes: a node reached along two paths, a cycle with what
  leads to it or behind it, two starting nodes, a cycle beside an acyclic part.
  The theorems of section 5 cover any number.
- *Pipeline.* Three packages with any dependencies: a package that two depend
  on, the triangle of finding 5, cycles of every length up to three.
- *Language server.* Two files (the entry and a module one of its texts
  declares), up to five texts (good, declaring the module, wrong with and
  without a file, wrong on the root; `LspHandlers` leaves out the last, which
  differs from the third only in the document it names), two slots, a channel of one: the smallest
  at which a module can be added after the last good check and two handlers can
  be in each other's way. `MaxInbox` bounds the messages waiting for a slot
  (backpressure of the editor's pipe). `Overlap = FALSE` restricts the client to
  one message at a time, which shows that findings 2 and 4 need no race.

- *Git cache.* Two processes, a dependency and the library with its two urls: a
  clone that another process begins, finds or finishes, and one url after the other.
- *Storage.* Up to two fields in the state, each a felt, an array, a map, a
  struct or an array of structs of up to two fields, with and without `#[ref]`, and
  five deeper ones (references in references, arrays in elements): every pair of
  neighbours whose sizes an offset could confuse. `MaxSlot` cuts off the largest
  pairs. One write, after all slots hold marks of their own: writes are not
  aware of each other. `MinHeight` is 0 instead of 4, which would hide trees that are too small.
- *Values.* Two arrays of two pairs and a pair, three statements: share, write
  through one name, look through the other. Two witnesses, one of which takes the branch.
- *Chain.* One account, two contracts of different code, two transactions, user
  ids that exist and not: a call before and after a reset, a call of the second contract.
- *Syntax.* Three productions deep (`MaxExpansions`): every construct directly in
  every construct, in every construct. Three operators in a chain (`MaxOperators`)
  show every order of two levels and a repetition.

- *Typing.* Two constructs in one program (`MaxFillings`): one directly in the
  other, or next to it, which is where two rules meet; with three the properties hold as well
  (46 408 states, too many for a run of minutes). Four bounds, eleven bodies, seven arguments
  and two results of a generic function: each trait, both and none; impls for
  scalars, arrays and generic structs, nested twice.

The deadlock check is off only in `StorageBulk` and `ValueSharing`, whose
specifications have no step after the last write or statement.

### Fairness

`SymExec` has safety properties only. `CrateGraph` and `CratePipeline` assume
weak fairness of a walk's `Step` and of `Compile`: they are synchronous
functions, and a call once begun is executed. Whether a visitor fails is left
open, and nothing makes a caller begin a walk or a compilation. `ToolchainSpec`
has the same two assumptions, each for its part.
`LspServer` assumes weak fairness of `Deliver` (the task that writes to stdout
drains the channel), of `Handle(h)` (a free slot takes up a waiting message) and
of `Resume(h)` (the executor polls a handler that was woken); nothing makes the editor send or save. That a parked
handler is woken at all is not assumed: it follows from `Deliver` waking in
the order of suspension, and `HandlersFinish` checks it.

## 4. Findings

1. **An assertion in the predicate of an `else if`** is judged under the
   condition of the branch before it (lib.rs:2044: the predicate is interpreted
   before `start_else_if_block`). With `if true {..} else if f() {..}`, where
   `f` fails an assertion, compilation stops although no run evaluates `f()`.
   Violates `RefusalIsCertain`; the comment at 2164-2170 asks for a positive proof that
   the code executes. Constraints of such a predicate are gated by the wrong
   branch as well.
2. **Saving the blamed file may be skipped.** `did_save` skips files the last
   good check did not read (simple.rs:345-351), so a module added since, in
   which the server itself has just reported an error, is not checked when the
   repaired file is saved. Violates `SkippedWasNeverResolved` (test at 1050).
3. **A late memory.** The memory is set after the await (165-166): a suspended
   handler writes an old error after a later check cleared it, and `did_open`
   publishes it again. Violates `SuccessForgets` (test at 1027-1030).
4. **A forgotten document.** Only the last URI is remembered (131-142): when
   the error moves to another file, the first keeps its diagnostics. Violates
   `SuccessClearsClient` (test at 1021).
5. **Dependencies of dependencies get lost.** `resolve_crate_path_graph`
   passes over a package whose entry path is a node already
   (psy-dargo-cli/src/cli/mod.rs:134), but the edges to a package make it a node
   before it is taken from the queue. So no package below the root is expanded: what a dependency
   depends on itself is neither parsed nor checked or, where the root names it
   too, not ordered before it. Violates `EveryPackageIsANode`; the test at mod.rs:290-293 expects
   the dependency of a dependency among the nodes, and passes only because the
   root names it as well. Packages from memory are connected
   by another loop, for which `EveryPackageInMemoryIsANode` checks the same.

6. **A nested struct read whole reads another's slots.** `SRef::get` and
   `SRef::set`, generated for a struct that is used through references
   (preprocess.rs:1176), reach an array field at its offset within the struct,
   whatever the offset of the reference. For a struct that does not begin at slot 0 this reads
   and overwrites other fields. Violates `BulkGetReadsItsOwnSlots`.
7. **An immutable array changes.** Cloning a value shares arrays (value.rs:63):
   after `let a = [..]; let mut b = a; b[0] = x;` the array `a` has changed,
   although it is not `mut`. Violates `ImmutableKeepsItsValue`.

What the formatter does not keep is left out of the productions of `MCSyntax`;
no document of the repository claims otherwise, and these are observations: the
tuple `(x,)` loses its comma; `pub type` its `pub`; `impl` and trait methods
their attributes and trait methods their generics; `<[G<T>; n]>::f`, `<(A, B)>::f`
and `<fn(A)>::f` are printed in a form that does not parse, `<a::B>::f` and
`a::b::<T>` (as a value) in one that is read as something else; `extern fn f();`
gains a body, an assertion without a message an empty one; a type named
`unknown` disappears; comments before expression statements and match arms, and
after operands, are dropped; the comments of a module's file are printed in its
parent, before `mod m;`, where the parser refuses them unless the module comes first; `use std::..` at the top
of a file is dropped; missing arguments of intrinsics are printed as 0; a
module is taken for an inline one if *any* inline module of the program has its name.

*Type checker.* Reading and modelling it gave the following. No document claims
otherwise, so they are observations; the programs of `MCTyping` keep away from them, and
`AcceptedProgramsRun` says what holds there.

- A generic function that is called in a body checked before its own gives an instance
  without a body, and running it is an `UndefinedFunction` (rewriter.rs:244); a
  signature that uses a generic struct defined later is refused.
- The body of a generic function may bind its variable by unifying it with a type
  (`fn g<T>(x: T) -> Felt { x }` is accepted), and instances are not checked again: the
  interpreter reaches `unreachable!` (its lib.rs:1007).
- Compound assignments accept operands the interpreter has no case for (1166), and so do
  assignments to what is no place, such as `(-a) = a;` (1924).
- Tuples of different lengths panic in `unify` (infer.rs), struct literals with a wrong
  field name in `visit_value`.
- `implemented_traits` pairs every impl of a type with the arguments of every impl
  of the trait; a cyclic bound sends implementer.rs:644-761 into an endless recursion; a generic
  impl whose method calls the same method of its field cannot be used nested, except for arrays,
  which find_member treats apart (403-440).
- Methods of a trait impl are matched by name only; a missing one without a default is
  filled in without a body. Privacy of methods is not enforced in calls.
- A nested impl is not given a pass over its bodies, and nested definitions and
  lambdas are not rewritten in instances. A swallowed error leaves its tree on the path,
  which makes a later `return` an error.
- A generic `assert_eq` on a value of a variable type binds the variable for the rest of its block;
  intrinsics of unknown type unify with everything.
- Variables without `mut` that are no scalars are refused by the interpreter only.

Further observations: the ABI aligns maps to four slots and counts four per
entry, while the generated code does not align; after a panic in a call `reset_chain` cannot recover the lock;
`read_contract_state` shows at most 256 slots; a cache directory named after the tag `latest` is never updated.

## 5. Proofs

`SymExecProofs` proves, for every set of witnesses, field, program and nesting
bound:

| theorem | property |
|---|---|
| `TypeCorrect` | `TypeOK` |
| `GuardCorrect` | `GuardIsCallStack` |
| `NestingCorrect` | `ConditionsNest` |
| `ConstantsCorrect` | `ConstantsAreConstant` |

from the assumptions named in `PsySyntax` and `SymExec` (at least one witness;
`P >= 2`; the entry point is not a function that can be called; markers differ
from values), and no other.

None of the four is inductive. `GuardIsCallStack` needs that no function is on
the stack twice: otherwise `Return` would remove from the guard a function that
is still being interpreted. `ConditionsNest` needs that a level's `outer`
is below the condition of the level under it, because `ElseIf` computes the new condition from
`outer`, not from the level below; and `TypeOK` needs that `Return` and `EndIf`
leave a level for `Consume` to act on. The invariant `IInv` says, next to
`TypeOK`, of the whole stack (`StackOK`): it starts with the entry point; a
level's condition implies its `outer`, which implies the conditions of all
levels under it; calls are pairwise different and are exactly `active`; a
pending assignment has its variable among the levels under it; an open `for`
is within its range; every value that is marked as a constant is uniform. It is kept by the operations on the stack from
which the actions are built (append a level, drop the top, replace the top,
`Consume`), each a lemma of its own; then one step per action cites them.

`SymExecRefinementProofs` proves, from the same assumptions, that the
interpreter implements the source semantics:

| theorem | property |
|---|---|
| `ImplementsSourceCorrect` | `MCImplementsSource` (of `MCSpec`) |

The initial states map to initial states, and every action of `SymExec` maps to
the action of `SourceSemantics` of the same construct, or to a stutter. The
argument follows the stack. `RunStack(ctl)` is what the stack means, level by
level, and equals `Meaning`. A level means, for each run, how far the run is in
the construct and what the construct's variables and result are to it; lemmas
say what that is when a level is opened, when a branch ends and the next one
begins, and when its value goes to the level below. Expressions, visibility of
variables and the recursion guard are read alike on both stacks. Then there is
one lemma for each action.

`IInv` is not enough for this. That a level's `outer` implies the
condition of the level under it leaves room for runs that are inside the
construct around an `if`, yet neither in a branch of it nor waiting for one: to
the source they would be in the construct, to the code nowhere. `MapOK` closes it: the `outer` of a construct
*is* the condition of the level below, a loop has nothing but blocks in it, and
the predicate of a `while` names variables declared around the loop, which its
next round still sees. The first of these is false in the code in one place: a
function that is called in the predicate of an `else if` is interpreted under
the condition of the branch before, not of the one to come (section 4). That is
what `strayed` records in `MCSymExec`: it is set when such a call is on top of the stack, and stays set to the
end of the entry point, and the steps in between are not claimed. The invariant of the proof,
`RInv`, is `IInv`, `meaning = RunStack(ctl)`, and `MapOK(ctl)` unless strayed. That a
new entry point starts with `strayed` unset is part of it, so what one entry
point did wrong does not excuse the next.

`CrateGraphProofs` proves, for every set of nodes and every set of walks:

| theorem | property |
|---|---|
| `TypeCorrect` | `TypeOK` |
| `CallsOnceCorrect` | `CallsOnce` |
| `TargetsFirstCorrect` | `TargetsFirst` |
| `CycleIsRealCorrect` | `CycleIsReal` |
| `WalkIsCompleteCorrect` | `WalkIsComplete` |
| `OnlyCyclesAreSkippedCorrect` | `OnlyCyclesAreSkipped` |

None of them follows from the step that could break it: each is about a whole
walk. The inductive invariant `Inv` says what a walk has established half-way:

- the outer loop has marked every key it passed (`RootsOK`);
- frames are at keys and have some of their targets left (`FramesOK`), and what
  is called or queued is a key, called once (`CallsOK`);
- the grey nodes of `ts` are exactly its frames, a path in the graph
  (`GreyPath`): therefore a grey target closes a cycle that exists;
- what a frame of `ts` has passed is black, but for the target it is inside
  (`Explored`): therefore a node is called after all its targets;
- what `bfs` has marked is queued or called, not both, and what it has called
  has its targets marked, but for those the frame still has to take (`BfsOK`).

When the walk is exhausted, these facts are the properties. The lemmas on
sequences and insertion come first and are cited by name; then one lemma per
action.

`WasmChainProofs` proves, for every set of accounts, codes, methods, slots and
values, and every bound:

| theorem | property |
|---|---|
| `TypeCorrect` | `ChainTypeOK` |
| `LogCorrect` | `LogIsOfTheseContracts` |
| `AccountedCorrect` | `ContractsAreAccountedFor` |
| `StorageCorrect` | `LogExplainsStorage` |

`ChainTypeOK` holds the numbering: contract and account `i` are in place `i`,
and the next number is the length plus one; it is inductive, and from it a contract
that is found by its id is found at that place (`FoundAtItsPlace`). `LogOK` and
`Accounted` strengthen the next two: the log names contracts by numbers, so that
a reset, which starts numbering again, must empty it along with them.
`LogExplainsStorage` is inductive given the types: a successful
call applies exactly the writes it appends to the log, every other step leaves
both or empties both.

`LspServerProofs` proves, for any files and texts, any number of handler slots
and any capacity of the channel:

| theorem | property |
|---|---|
| `NoLostWakeupCorrect` | `NoLostWakeup` |
| `BackpressureCorrect` | `Backpressure` |
| `FailureHasNothingToClearCorrect` | `FailureHasNothingToClear` |
| `GoodReportIsCurrentCorrect` | `GoodReportIsCurrent` |
| `PatientMemoryCorrect` | `PatientMemoryIsLatestReport` (of `MCSpec`) |

from the assumptions named in `LspServer`: the files, texts and markers are
distinct and there are finitely many handler slots. `LspTypeOK` gives the
types. Then:

- a handler is suspended at most once (`WaitOnce`), and as many handlers are
  suspended as the channel holds messages over its capacity; distinct handlers
  are at most as many as there are slots, which bounds the channel;
- `GoodIsCurrent` ties a good report to the disk for as long as no save of a
  file of the context waits in the inbox (`Settled`): other saves cannot change what the
  check saw, and that is what makes skipping them right;
- `Patient` says that at most one message or handler of a patient client is
  under way (`OneAtATime`), and foretells from it what will be remembered and
  shown when it is done (`WillRemember`, `WillShow`): the property speaks of a
  moment that the steps before it have to prepare.

`PackagesProofs` has three parts. The first proves, for any processes, directories and requests,
`HandedOutCorrect`: `GitSpec => HandedOutIsComplete`. The invariant is that
every directory that is being filled has a process that fills it or that was
killed (`Accounted`); two processes that found the same directory missing
cannot both be filling it, since git refuses the second.

The second proves, for any number of packages and any manifests:

| theorem | property |
|---|---|
| `CyclicIsRealCorrect` | `CyclicIsReal` |
| `EverythingIsResolvedCorrect` | `EverythingIsResolved`, stated there |

The frames of the resolver are a path along the manifests (`Path`), so that a
package met again closes a circle. In memory a manifest that was read is
resolved or has a frame, and what a resolved package depends on is resolved
(`Closed`); when the last frame is gone, nothing is missing. It is assumed that
the marker of an unread manifest is not a list of packages.

The third proves what follows from there, under the same
assumptions:

| theorem | property |
|---|---|
| `ResolvedSuitsParserCorrect` | `ResolvedSuitsParser` |
| `EveryPackageInMemoryIsANodeCorrect` | `EveryPackageInMemoryIsANode` |
| `DependenciesFirstCorrect` | `DependenciesFirst` |

The invariant `OrderInv` joins the one of the resolver and the one of the walks
(`Inv` of `CrateGraphProofs`, whose lemmas about single steps of `ts` and `bfs`
are used as they are) with

- `Grounded(D)`: the packages of `D` depend only on each other, and can be
  numbered such that each has a greater number than those it depends on. This is what
  the resolver's search for cycles is worth to the later stages, and the stack
  has to build it up: what a frame has passed is grounded, apart from the
  package of the next frame, and avoids the packages above which it stands
  (`PassedIn`); when a frame is left, its package is added to
  what it has passed. In memory the packages that are resolved are
  grounded too, and none of them has a frame (`Descent`). On disk nothing is
  remembered, so that only the frames know;
- `GraphOver(D)`: the graph has packages of a grounded `D`, edges along
  their manifests, and the library without any;
- `Whole`: in memory, every package that was read is a node with all its
  dependencies or still to be connected. On disk this is false (finding 5),
  and the last two theorems do not speak of the disk.

A set of packages that is not empty and is grounded has one that depends on
none of the others and one on which none of the others depends
(`GroundedEnds`). So the keys that `bfs` left out, each the target of
one left out, are none; and a cycle that `ts` reports cannot exist. That `ts` calls the
targets of a node first gives the order, once `WithStd` and `Numbered` are
known to keep the edges (`CratesFacts`).

What `WithEdges` and `Numbered` compute is induction over data. They are recursive
functions over an interval, and the induction is carried out on a set of
numbers: a set that is not all of `Nat` leaves out a smallest one
(`Smallest`, `Induction`), since `<` is well founded. `GroundedEnds` uses the
same to find the package with the smallest number.

`StorageLayoutProofs` proves, for any set of contracts, their types nested to
any depth, with any number of fields, elements and slots, and any number of writes:

| theorem | property |
|---|---|
| `StorageIsATree` | `WritesReplaceOnePart`: `StorageLayout` implements `StorageTree` |
| `ReadsAreTheState` | `ReadsAgree` |
| `AbiIsRight` | `AbiLocatesFields` |
| `TreesAreTallEnough` | `TreeIsTallEnough` |

from the assumptions named in `StorageLayout`: types are well formed and nested
(`TypesAssumption`), contracts are structs that fit into the slots
(`ContractsAssumption`). The first two are stated for `~Away`, programs that
do not get or set a whole struct through a reference that does not begin at slot 0:
there the code is wrong (finding 6, run `StorageBulk`), and everything
else a program can write is covered. The argument:

- *The functions are what their definitions say.* A recursive function is a
  CHOOSE, equal to its body only if a function with that property exists. `Recursion` proves
  once that one does when the body looks only at arguments of lower rank
  (`RecursionDefines`), by building it rank by rank, and it proves induction over ranks. Each
  function over types has an INSTANCE of it, with `Nesting` for the rank, and
  one lemma `...Is` that gives its equation. The body is a parameter of the module, not of a
  theorem, which is what the provers can instantiate.
- *Values are where their felts are.* The parts of a value lie side by side and
  cover it (`PlacesInOrder`), so that the same content is the same felts, and conversely
  (`SameFeltsSameContent`, `SameContentSameFelts`); the second is what `eq`
  needs. `ReadIsContent` and `RecordIsContent` say that reading gives the content;
  for arrays, which are transmuted, that size and count of felts agree.
- *References are where their paths lead* (`ReachedRefers`), by induction over the
  number of fields and indices: a reference's slots hold the part of the
  state at its path, in bounds.
- *A write changes its part.* The places a value's felts are put are each of its
  slots once, in order (`PlacesInOrder`, `RecordPlacesInOrder`); the
  part at the path becomes the value, and of every part above it only what is below
  the path changes (`ReplacingChangesOnePart`).
- *The ABI.* Without maps, its sizes are the generators' (`AbiSizeIsSize`), hence its
  sums. With maps its slots are at least as many (`AbiCountsEverySlot`), and
  `CeilLog2Is` shows the height to be enough for them.

The invariant `LayoutInv` gives the types of the variables, that the contract is
one of the contracts, and that the latest write is there: the part at
`last[1]` is `last[2]` (`LastIsThere`). A step of `StorageTree` changes `last`, or it
is a stutter. A write that says the same as the latest one (a value
of no felts has only one value to write) leaves `last` as it is, and that storage too stays as it
is follows only from `LastIsThere`.

Only checked with TLC:

- `ChangesWhatIsNamed` of `ValueHeap`, whose operations hand a heap through
  a recursion over values, and the grammar (`RecursiveParser`, `Formatter`),
  the type checker and the evaluator: they are written with `RECURSIVE` operators, about
  which the provers know nothing. `StorageLayout` shows the form in which they could
  be proved about: functions over a set with ranks;
- liveness (`HandlersFinish`, `WalksEnd`, `CompilationEnds`), which is beyond the provers.

## 6. Plan

In this order, the most important behaviour first:

1. *done* `SymExec` against `SourceSemantics`, type and safety theorems.
2. *done* `LspServer`.
3. *done* `CrateGraph`, with the theorems of section 5.
4. *done* `CratePipeline` over it.
5. *done* `ValueHeap`, `GitCache`, `StorageLayout` against `StorageTree`.
6. *done* `WasmChain`, with the theorems of section 5.
7. *done* `RecursiveParser` and `Formatter`.
8. *done* `TypeChecker` and `Evaluator`.
9. `interpret_match` as a construct of `SymExec` and `SourceSemantics`.
10. *done* Proofs about `LspServer`, `GitCache` and the resolver of `CratePipeline`.
11. *done* Proof that `SymExec` implements `SourceSemantics` (initial states and steps).
12. *done* Proofs about the rest of `CratePipeline`.
13. *done* Proofs about `StorageLayout`: the layout as recursive functions over the
    nesting of types, by the recursion and induction of `Recursion`.
14. Proofs about `ValueHeap`, in the same form.

## 7. What is not modelled, and why

- *Data of the interpreter*: what arithmetic, hashing and the intrinsics compute,
  overflow and division checks, the materialization budget. Which kinds of values
  they take and give is in `Evaluator`, sharing in `ValueHeap`, values of
  scalars in `SymExec`: the three abstractions of the interpreter's data are not one module.
- *Type checker*: modules and `use`; associated types; paths and projections in the types of
  parameters; lengths of arrays and constants given by an expression that is
  evaluated; generic traits used before they are defined; names defined twice;
  the bodies of default methods are copied in a random order by the code, in a fixed one here; endless
  instantiation.
- *Endless unrolling*: a `while` in a branch that is constant false need not
  end (lib.rs:782). The model allows it; nothing claims that compilation ends.
- *What a package contains*: the modules of a crate and the errors in them are
  the free choice of a visitor's success; names, paths and git revisions are
  the free choice of a manifest's dependencies.
- *Requests of the language server* (hover, goto, references, formatting)
  change no state of it.
- *Parser and formatter*: locations, error messages and the limit of 128 on the
  nesting of expressions; the names of fields are taken to be distinct (the code keeps them in a map); the
  files of external modules are empty; how the machine's library prints literals.
- *Storage*: the entries of maps, generic structs, events.
- *Lexer, syntax tree, command line, precompiles, standard library*:
  pure functions of text, data types, I/O, or programs in Psy itself.
- *The machine, tower-lsp, the editor and git* are outside the repository and
  modelled only as far as the code uses them.
