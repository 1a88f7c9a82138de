# Models and proofs for llrm

llrm compiles QuickBASIC, C, Nib and BC object files to 16- and 32-bit x86 objects. Most of
it is translation from one tree or graph to another and is tested as such. This directory
holds TLA+ models of the parts whose state lives across many calls: in the compiler the change
log of a MIR function, the analysis caches over functions and modules and the greedy register
allocator with its interference queries; in the BASIC run time the music queue, the event traps
and the memory that strings and the heap trade. TLC checks small instances; TLAPS proves what
they promise for all instances, short of liveness.

```
 compiler                                         BASIC run time (runtime/qb)
 ChangeLog      marks, clones, forks              Music        what PLAY promises
    | a mark is a point in one history (proved)      ^ implements (checked; safety proved)
 Analyses       results of one function           Play         ring, counts, clock's tick
    | a proxy stands for the module's facts          | how many notes wait
 ModuleFacts    results of one module             Traps        ON ... GOSUB, keys, dispatchers
 LiveRegMatrix  unions and cached queries
    | who is in the way of a range                StringSpace  strings and the local heap
 Greedy         queue, eviction, recoloring
```

- [Inventory](#inventory): the system and what can go wrong in it
- The compiler: [ChangeLog](#changelog), [Analyses](#analyses), [ModuleFacts](#modulefacts),
  [Greedy](#greedy), [LiveRegMatrix](#liveregmatrix)
- The run time: [Play and Music](#play-and-music), [Traps](#traps), [StringSpace](#stringspace)
- [Runs](#runs), [Findings](#findings), [Proofs](#proofs), [Not modelled](#not-modelled),
  [Plan](#plan)

`tlc -config MCChangeLog.cfg MCChangeLog` checks a run; `tlapm ChangeLogProofs.tla` checks a
module's proofs. `PROJECT.json` maps each definition to the lines it models and lists the
hazards.

## Inventory

A module is compiled in one thread, one function at a time.

```
 llrm-qb, llrm-nib  -> HIR --\
 llrm-c (Open Watcom) --------> MIR -> passes over analyses -> isel -> LIR
 llrm-omf (BC objects) ------/                                   |
                  coalescer -> greedy allocator -> peephole -> object writers
```

| Part | State it keeps | Operations | What is hard | What makes it correct |
|---|---|---|---|---|
| MIR function log (`llrm-mir/module.rs`) | lineage, changes logged, changes taken, the kept log | edit, `mark`, `changes_since`, `take_changes`, `clone`, `fork`, `adopt` | two forks of one body edited apart; a drained log; a copy put back | an answer is exactly what changed since the mark; equal marks are equal bodies; a change is handed out once, none is lost |
| Function analyses (`llrm-mir/passes.rs`) | results held and kept, marks, what was vouched for, soft results, the outer proxy | `get`, `get_exact`, `invalidate`, `vouch`, `seed`, `replace`, `refresh_soft`, `declared` | an answer kept past edits; asking in the middle of a pass; passes that do not report | a result says nothing false of the body, and is what a fresh derivation gives unless something was kept as sound |
| Module analyses, pass manager (same file, `manager.rs`, `pipeline.rs`, `walk.rs`) | results held and dropped, the globals told edited, the log of edits since the summaries, the last proxy | `computed`, `outer`, `invalidate`, `changed`, `carried`, a pass over every function, a module pass | results held over a pass; a pass that preserves in one body and not the next; a result given out again without being worked out | what is held or given out is what working it out afresh gives; with nothing edited the proxy is the same object |
| Program analyses (`program.rs`) | module analyses carried over modules | carry, invalidate, link | facts of another module that change and change back | as above, across modules |
| MIR edits (`edit.rs`, `uselist.rs`, arenas) | use lists, block lists | insert, erase, replace uses | lists and operands that must agree | `verify.rs` holds after each pass |
| Dominator tree and its updater | the tree, pending edge updates | queue, flush | updates queued and cancelled out of order | equals the tree built afresh |
| Optimizer (`llrm-analysis`, `llrm-transforms`) | worklists inside a pass | some two hundred passes | fixpoints, worklist order | the interpreter sees the same program |
| Register coalescer | joined intervals, a worklist of copies | join, retry | copies made stale by a join | no two live values share a register |
| Greedy allocator (`llrm-codegen/greedy`) | queue, assignments per unit, stages, cascades, broken hints | assign, evict, split, spill, recolor | evictions that chase one another; nested recolorings taken back | no clash, none lost, it ends |
| Live interval unions (`liveintervalunion.rs`, `matrix.rs`) | the entries of each unit, a cached query per unit under two tags | assign, unassign, check, collect | a query resumed after something changed; segments coalesced and taken out again | an answer is what is in the way now |
| Rest of codegen | frames, code being edited | select, schedule, parallel copies, jump relaxation, peephole | permutations in parallel copies; jumps that grow | machine code computes what MIR does |
| Front ends, HIR, BC raiser | symbol tables, scopes | lex, parse, check, lower | language semantics | golden and differential tests |
| Drivers, object writers | files | read, write | `llrm-omf` "writes nothing unless every object succeeds" | all outputs or none |
| Nib language server | open documents and their versions | open, change, query | an answer to an older version | an answer is of the version asked |
| BASIC music (`play.c`) | a ring of notes, two counts, the speaker | PLAY, SOUND, END, the clock's tick | the tick between any two stores; waits only the tick ends | notes in order and once; silence when the program ends |
| BASIC event traps (`events.c`, `inkey.c`, the compiler's checks) | traps, the stack of dispatchers and handlers | ON ... GOSUB, ON, OFF, STOP, the check, INKEY$, INPUT | handlers inside dispatchers inside handlers; keys typed at any step; midnight | a handler runs once at a time; an event is neither lost nor early |
| BASIC string space and heap (`nhstutil.c`, `nheap.c`, `array.c`) | entries, the boundary, the hint, owners | allocate, release, compact, REDIM PRESERVE, CLOSE, FRE | owners that move; room found only after compaction; running out in the middle of a statement | a string is the one it was given last |
| Rest of the BASIC run time (C) | `ON ERROR` state, file buffers, FIELD lists, the screen | resume, read, write, draw | errors inside handlers; FIELD variables over a moved buffer | as the dialect specifies |
| `llrm-alloc` | size classes and free lists per thread | allocate, free, grow | a block freed to another class | live blocks are disjoint |

The log, the caches and the allocator have state that outlives one call, many callers, and an
order no test fixes, and they decide whether everything downstream is right: a stale analysis or
a clash of registers is a silent miscompilation. The run time is where things happen at once: the
clock's interrupt, the keyboard, handlers called between any two statements.

In a compilation the only concurrency is `NEXT_LINEAGE`, a counter all threads draw lineage
numbers from, each draw one `fetch_add`. In the run time the clock's tick is an interrupt on DOS and
a thread on a host, and keys come at any time; Play and Traps interleave them with the program at each store or test
they can fall between. Nothing modelled is persisted or sent over a network, so there are no
crashes to recover from and no lost messages.

## ChangeLog

The lineage and log of `Function` in `module.rs`.

| Model | Code |
|---|---|
| `fns[s].uid`, `branch`, `ancestors`, `logged` | `Lineage` |
| `fns[s].changes`, `taken` | `ChangeLog`, `Function::taken` |
| `nextLineage` | `NEXT_LINEAGE` |
| `Edit` | `Function::log`, which every edit to a body ends in |
| `TakeMark` | `Function::mark`, kept by whoever asked |
| `TakeChanges` | `take_changes`, drain included |
| `Clone`, `Fork`, `Adopt` | the functions of those names (a fork draws two numbers: it clones first) |
| `PutBack`, `Discard` | a copy assigned to the module's place; a copy dropped |
| `Resolves`, `ChangesSince` | `changes_since` |

`hist`, `points` and `handed` are not in the program: they record every change a body has had,
the body each mark was taken of, and what `take_changes` has given out. The properties compare
the program's answers with them.

A change is a number. `Home` is the function the module holds; only it is asked for
`take_changes`, as the pass manager does after each run of a pass (HIR lowering empties its log
through it as well, before there are copies). `Adopt` takes a fork of the function as it stands,
which is how the passes use it. `Function::adopt` itself asserts only that the two share a
`uid`, and only in debug builds; a fork adopted after its original was edited would join two
logs that do not follow one another. Lineage numbers do not wrap.

Properties:

- `ChangesSinceIsWhatChanged`: the body at the mark followed by the answer is the body now.
- `EqualMarksAreOneBody`: what `entry.mark == function.mark()` is taken to mean.
- `AdoptKeepsMarks`: adopting a fork leaves every mark of the original that resolved resolving.
- `HandedOutOnce`: `take_changes` never gives a change twice, through clones and forks.
- `UntakenIsKept`: what has not been handed out is still in the log, while the module holds the
  function it began with. A clone starts its log empty and copies `taken`, so changes made
  before the clone and not handed out then are never handed out once the clone is put back; the
  property is stated of the first history because of that.

Next steps run out when the bounds on edits, numbers and marks do, so `CHECK_DEADLOCK` is off.

## Analyses

`Analyses` of `passes.rs`, one function's cache.

| Model | Code |
|---|---|
| `analyses.cache`, `kept`, `soft`, `tainted`, `vouched`, `outer` | the fields of `Analyses` |
| `function.log`, `function.from` | the function's changes and how far its log is drained |
| `Answered` | `found` of one analysis, over what was found of the one it builds on: `AsHeld`, `AsKept` (as sound, or unaffected), `Derived` (`Updated` by `update`, or `Run`) |
| `Asked`, `Got` | `found` of an analysis and of all it asks in turn, and the cache after |
| `Get`, `GetExact` | `get`, `get_exact` |
| `Retired`, `Invalidate`, `Vouch`, `RefreshSoft` | `retire`, `invalidate` and `invalidate_if_edited`, `vouch`, `refresh_soft` |
| `OuterChanged` | `declared`, and `ModuleAnalyses::manager` with another proxy |
| `AskThroughModule` | `ModuleAnalyses::function` with `forget_unreported` |
| `Changed` | `ModuleAnalyses::changed` |
| `Replace`, `Seed` | `replace`, `seed` |
| `Edit`, `ReplaceFunction`, `TakeChanges` | what passes do to the body and the manager to its log |

What an analysis computes is abstracted to what it reads. A result is, for each part of the
body (`Facets`) an analysis reads, itself or through the one it builds on, the last change of
that part it saw. A result is then the fresh one exactly when it saw the last change that
matters. `pending` is not in the program: it is what was edited since a pass last told the
cache, and says when a pass may call a result untouched.

What the model takes from the analyses' own contract, and does not check of each:

- `update` gives what `run` gives where the old result was true before the changes, and keeps
  what the changes do not touch; `unaffected` answers true only if no change since touches what
  the analysis reads (`passes.rs:617`). Both may also decline; `willing` is which do not.
- A sound edit leaves a result kept as sound a true answer, though a weaker one. `Covers`
  compares results up to that. One that names values (`NamesValues`) has to be brought to those that
  took their place (`remapped`), which it may decline: `willing` says so of these too.
- A pass preserves only what its edits left true. `Invalidate` and `Vouch` have that as guard.
- No analysis that is kept as exact (`INCREMENTAL`, `SKIPS`) is kept as sound or derived from one
  that is (`SoundAssumption`). The one sound analysis outside the tests, `ThroughMemory`, is asked by `FloatFacts`
  alone, which is kept by neither.
- What analyses build on is well founded (`KindsAssumption`); the program would not return
  otherwise.

A mark is a position in the history, which `ChangesSinceCorrect` and `MarksAreIdentities`
below justify. `program` says what one behaviour asks for and edits; it is chosen at the start
and does not change, so that one run goes through several such programs. A body put in place is a change of everything with the log emptied.
The instrumentation (counts, evictions, read bits) is left out.

Properties:

- `HeldIsTrue`: a result that was left alone by the pending edits says nothing false of the
  body, and is the fresh one unless something was kept as sound.
- `TrueAtItsMark`: a result held or kept was true at the mark it carries.
- `AskedIsTrue`: the same of whatever is asked through `ModuleAnalyses::function`, though module
  passes edit without reporting.
- `ExactIsFresh`: `get_exact` answers what a fresh derivation would, of an analysis kept as
  sound that is built on none other kept so.
- `ReplayGivesRun`: a result replayed from what was kept is what `run` gives. This is the
  assertion under `LLRM_CHECK_REPLAY`.

## ModuleFacts

`ModuleAnalyses` of `passes.rs` under `PassManager::over`, with the summaries of `manager.rs` and
the interprocedural step (`pipeline.rs`, `walk.rs`) that runs function passes inside a module
pass.

| Model | Code |
|---|---|
| `module.body`, `module.decl` | what each function does; what each global declares |
| `analyses.results`, `dropped` | the results held, and those given up and kept aside |
| `analyses.edited`, `open` | the globals told edited; that anything may have changed |
| `analyses.made` | what the last run of Summaries noted: what it read, the bodies logged since, `resets`, whether the log is still the same |
| `analyses.outer` | the objects the last proxy holds |
| `WithDeclarations`, `WithFound`, `WithSummaries`, `WithOuter` | `computed` of each, `outer` |
| `FunctionPass`, `FunctionRun`, `FunctionPassEnds` | `over` a function pass, one function at a time |
| `ModulePass`, `Ask`, `Edit`, `Splice`, `StateAttributes`, `Rerun`, `ModulePassEnds` | a module pass and what the walk and `rerun` do in one |
| `Compute`, `Freeze`, `Carry` | stages of the pipeline: `compute`, `recompute`, `freeze`, the next module's run |

Three analyses stand for the rest, one of each way of being brought up to date: Declarations is
checked against the globals told edited, Found is always worked out, Summaries reads both and
is brought up to date from the log. An object is a number, the first that is free: a result has
another number when it is another object, which is what the proxy compares. A pass says it
preserved only what its edit is nothing to (`Honest`), or nothing.

Properties:

- `ResultsAreTrue`: between passes what is held is what working it out afresh gives, but for
  what is held on purpose (`freeze`, the stateless analyses).
- `AnswersAreFresh`: what would be given out again or brought up to date now is what working it
  out afresh gives: the assertion under `LLRM_CHECK_MODULES`.
- `ProxyIsKept`: where nothing was edited since the last proxy, the next is the same, whatever was
  dropped in between; else every function's analyses that read it are given up.

## Greedy

The allocator of `greedy.rs` with `split: None`, over the matrix of `matrix.rs`.

| Model | Code |
|---|---|
| `alloc.phys` | `VirtRegMap`, and through `UnitsOf` the unions of `LiveRegMatrix` |
| `alloc.stage`, `cascade`, `nextCascade`, `broken` | `ExtraInfo`, `set_of_broken_hints` |
| `alloc.made` | the ranges that exist: a spilled one goes, its tiny ranges come |
| `queue` | the priority queue: how often each range is in it (`NoneLost` says once), at the priority it was last queued at |
| `failed` | ranges `allocate_phys_regs` reports as refused |
| a session `s` | `alloc` with what one `select_or_split` passes down: `fixed` (`FixedRegisters`), `undo` (the recoloring stack), `new` (the new registers, counted) |
| `Allocate` | one turn of the loop: `dequeue` (`First`), `select_or_split`, assign, `enqueue` what is new (`Staged`, `Enqueued`) |
| `Order`, `HintRegs` | `AllocationOrder`, hints first |
| `TryAssign`, `Take`, `EvictionCandidate`, `CanEvict`, `Evicted` | `try_assign`, `try_find_eviction_candidate`, `can_evict_interference_based_on_cost`, `evict_interference` |
| `Settled`, `Waiting`, `Spilled` | `select_or_split_impl` up to the last chance: wait to be split, then be spilled |
| `LastChance`, `Attempt`, `Displaced`, `Recolored`, `RolledBack` | `try_last_chance_recoloring` and what it calls |
| `SelectOrSplit(levels)` | `select_or_split_impl`, where recoloring may go `levels` deep |
| `RecolorHint`, `HintRecolored` | `try_hints_recoloring`, `try_hint_recoloring` |

A whole turn of the loop is one action, as nothing else runs in it; recursion through
recoloring is inside it, as in the code. That recursion is written from below: the answers to every
call with no level left, then those of each level from the ones a level deeper. A loop of the code
is `Loop`, what it comes to after so many turns. Both are functions, which can be proved about;
operators that call themselves could not. A range is the set of points it is live at. Programs
come from `Seeds`: lives, classes, weights, hints, copies and pins are all combinations of small
sets, so the initial states are every such program. The cutoffs are fields of the program: the
code's constants (10, 8 and depth 5), or lower ones that four values meet.

Left out: region splitting and the inline spiller (which change ranges while they exist), the
cost of the first use of a callee-saved register (taken as 0), and the query cache (the unions
are asked). The spiller is `SimpleSpiller`, a tiny range per instruction. A pinned value is in
the queue with a register it has to be in, a fixed one blocks its register instead, as under
`LLRM_PINS_AS_VREGS` and without it.

Properties:

- `NoClash`: no two live ranges share a byte of a register, none is in a register destroyed
  under it.
- `NoneLost`: a range has a register, or is queued once, or was refused, never two of them. What
  is queued holds no register and exists, as `enqueue` asserts.
- `DoneIsKept`: a spill product with a register is never left without one.
- `FailureRestores`: a range that is refused leaves the others where they were.
- `HintsAreNotWorsened`: repairing a missed hint does not raise the cost of broken copies.
- `Terminates`: the queue and the broken hints run out.

Fairness: `allocate_phys_regs` and `try_hints_recoloring` are plain loops, so the program
takes its next turn whenever there is one. That is weak fairness of `Next`. It is written
`[]<>Finished \/ []<><<Next>>_vars`, with ENABLED replaced by what it is
(`Next` is enabled exactly when not `Finished`), since TLC would work out a whole turn to see
whether there is one. An allocation ends, so `CHECK_DEADLOCK` is off.
ChangeLog, Analyses, ModuleFacts, LiveRegMatrix and StringSpace state no fairness: a caller may
stop at any time, and they promise nothing of the future.

## LiveRegMatrix

What Greedy takes for granted: `LiveIntervalUnion` and its `Query` (`liveintervalunion.rs`), over
the map of `intervalmap.rs`, and `LiveRegMatrix` (`matrix.rs`).

| Model | Code |
|---|---|
| `matrix[u]` | the entries of a unit's union, as a set: `FirstOf`, `Find` and `NextOf` are the places an iterator has; a register's touching segments are one entry |
| `queries[u]` | `Query`: the range it is of, where it stopped, what it found |
| `queries[u].tag`, `user_tag` | whether its tags are still the union's and the matrix's |
| `reg_mask` | `reg_mask_tag` and what was found under it |
| `turns` | the ranges the allocator is finding a place for |
| `Loop(n, start, Turn)` | a `while` that n turns end: a turn after the last changes nothing |
| `Unified`, `Extracted` | `unify`, `extract`, whose turn is `ExtractedOne` |
| `QueryInit`, `Walk`, `Collect`, `Query` | `init`, `collect_interfering_vregs`, `interfering_vregs`; a turn of the walk is `Stepped` |
| `Check`, `QueryVRegs` | `check_interference`, `query_vregs` |
| `Take`, `Assign`, `Move`, `Evict`, `Shrink` | the allocator's turn: dequeue (which moves the user tag), assign, hint recoloring, eviction and the start of a recoloring, a range the spiller cuts back |

A tag is a counter in the code, compared for equality; the model keeps the answer of the
comparison, so 2^32 changes between two uses of one query are left out. `All` is `usize::MAX`,
the limit under which everything is collected: any number above that of the registers. `clear`,
`clear_all_segments_referencing` and `get_one_vreg` are left out: the allocator does not call
them, or they change nothing.

Properties:

- `UnionsHoldWhatIsAssigned`: a union holds the ranges of the registers assigned to its unit as
  they are now, coalesced, in order, and nothing else.
- `ChecksAreTrue`: a check says what is in the way now (a call, a fixed range, another register),
  whatever happened since the queries it goes on from were begun.
- `CollectedAreInTheWay`: what is collected is in the way, each once, and all of it unless there
  are as many as were asked for.

## Play and Music

`play.c`: the program puts notes in a ring, the clock's tick takes them out and works the
speaker.

| Model | Code |
|---|---|
| `queue`, `head`, `tail`, `sound_left`, `quiet_left` | the statics of those names |
| `tone` | the last `dev_tone` |
| `ticking`, `held` | between `dev_tick_start` and `dev_tick_stop`, `dev_tick_hold` and `dev_tick_release` |
| `pc` | where the program is in `play_note`, `B_SOND` or `music_stop` |
| `tpc`, `next` | where the tick is in `music_tick`, and the note it begins |
| `WaitForQueue`, `WaitForSound`, `WaitForRoom`, `Store`, `Publish` | the waits and stores that queue a note |
| `Hold`, `End`, `DropNotes` ... `Release`, `TickOff`, `Join` | SOUND of no duration, and the program's end |
| `Restore` | `LL$RESTORE_VECTORS` on the way out, where `dev_tick_stop` leaves the clock as it is (`dos/m16`) |
| `TestSound` ... `Advance` | the tick, a load, test or store at a time; `loaded` is what it has read and not yet stored less one |

Each store and each test that another process can fall between is a step. With `Threaded`
FALSE the tick is DOS's interrupt: the program takes no step until it has returned. With TRUE
it is the thread of `dev/host/tick.c`. Reading the command string and turning lengths into
ticks are left out.

Music says what PLAY promises without ring, counts or tick: notes begin in the order they were
queued, each once, none while another lasts, none dropped unless the program asks. Play
implements it (`PlaysInOrder`) under a mapping in which a note waits until the tick has started
its tone, though it is still in the ring then, and is gone from the ring one store later.

Properties: `ToneIsCounted` (a tone that is on has a count that ends it), `QuietAfterEnd`,
`ForegroundWaits` (a note in the foreground joins an empty ring in silence), `StatementsEnd` (every
wait ends), `PlaysInOrder`.

Fairness: `WF(Tick)`, as the clock ticks 18.2 times a second for as long as it is on and a tick
is a few stores; `SF(Continue)`, as an interrupt returns to the program, which then takes a step
before the next tick some time, though any one of its steps is disabled again and again by
ticks. Nothing says that a program begins another statement.

## Traps

`events.c` with what the compiler puts around statements (`event_traps` in `semantic.rs`), and
the two readers of the keyboard (`inkey.c`).

| Model | Code |
|---|---|
| `traps[t]` | `Trap`: handler, state, due, running; number, next and last of TIMER and PLAY |
| `stack` | the module, and above it dispatchers and handlers, each with where it is |
| `clock`, `waiting`, `typed` | `dev_clock`, `music_waiting`, the keyboard's buffer |
| `Check` | `B$EVAN` before a statement: `take_keys`, `look`, and the call of the dispatcher |
| `Ask`, `Dispatched`, `Return` | `B$EVPD` for each handler in turn; the dispatcher's end; RETURN with `B$EVDN` |
| `On`, `Switch` | `B$EVAR`; `B$EVSW` |
| `Inkey` ... `ReadKey` | `B$INKY`: hook, test, and the look again |
| `Input` ... `ReadKey` | `cn_wait_key` in the loop of `read_line`: key by key until one ends the line |
| `Tick`, `NoteBegins`, `Type` | the machine, between any two steps |

`since` and `wait` are not in the program: the time since the timer began to count and what it
counts to, which `TimerKeepsTime` compares. `named` is the traps a program's statements name.
Left out: devices this machine has none of (PEN, STRIG, COM), ON ERROR inside a handler, and two
traps of one handler (see [Findings](#findings)).

Properties:

- `RunningIsCalled`: a trap is running exactly while its handler has been called and has not
  returned, once, however many dispatchers are inside one another.
- `InkeyReadsNoTrap`: INKEY$ reads no trapped key, even one typed as the hook looked.
- `TrappedKeyIsNotRead`: nor does INPUT (violated, below).
- `TimerKeepsTime`: the timer's event is not due early, midnight or not, where its time is at most
  half a day (see [Findings](#findings)).
- `EventsAreHandled`: an event whose trap is on and whose handler is free runs its handler.

Fairness: `WF(Statement \/ Continue)`, as the program goes on (a statement that waits for ever is
INPUT, which `EventsAreHandled` excepts); and `SF` of INKEY$ finding no key, as a typist does not
for ever put a trapped key between the hook and the test after it. Nothing is assumed of the
machine: the clock may stop and no key be typed.

## StringSpace

The dynamic memory of a BASIC program: string space at the bottom (`nhstutil.c`), the local heap at
the top (`nheap.c`), and what the program does with both (`stcore.c`, `array.c`, `file.c`, `fre.c`).

| Model | Code |
|---|---|
| `memory.space`, `heap` | the entries of string space and of the heap, by their addresses; a string's header is its owner |
| `memory.low`, `hint` | the boundary (`str_end`, `heap_low`); `str_free` |
| `memory.sd` | the descriptors by their addresses: those of the variables and the temporaries, and those in the data of an array, which are where the heap has it |
| `memory.live`, `ad` | the temporaries in use; the array's descriptor |
| `Run`, `Joined`, `FirstFit` | free neighbours, joined; the loop of `scan` and of `first_fit` |
| `Scan`, `Fit`, `StrCompact`, `StrTake`, `StrAlloc`, `Released` | `scan`, `fit`, `str_compact`, `str_take`, `str_alloc`, `str_release` |
| `Made`, `Carved`, `LhTake`, `LhGive`, `LhAlloc`, `LhCompact`, `Moved` | `first_fit` with `zero`, `carve`, `lh_take_from_strings`, `lh_give_free_to_strings`, `lh_alloc`, `lh_compact`, `moved` |
| `Adopt`, `Assign`, `Join`, `Consume`, `Delete` | `B$SASS` of a temporary and of any other, `B$SCAT`, `str_tmp_free`, `B$STDL` |
| `Dim`, `Erase`, `Preserve`, `Open`, `Close`, `Fre` | `array_dim`, `B$ERAS`, `preserve`, `B$OPEN`, `close_fdb`, FRE |

`text` is not in the program: what it gave each string last, with which `StringsAreKept`
compares. `raised` holds, after Out of string space, what was asked for and held.
Memory is counted in words of one character; a descriptor, a header and a file's data are a word
each. What a loop does to entries one by one is said of all of them at once where their order does
not show: packing gives each entry in use the address after the words of those below it. An entry
keeps the size it was taken with, which the code works out from its owner's
length each time: that the two agree is part of `StringsAreKept`. After an error the program's
handler runs, with the temporaries freed. Stale headers inside joined entries are not modelled
(an address where no entry begins is the end of string space).

Properties:

- `StringsAreKept`: every string is the one it was given last, its entry's header is the
  descriptor that leads to it, and no other entry is in use (`CHECK_OWNER`, and no leak).
- `RoomIsFound`: Out of string space is raised only when what is held and asked for is more than
  string space with the heap's free room at the boundary.
- `TypeOK`: the entries tile the region and the hint is at one of them.


## Runs

| Run | Checks | Bounds and why they are enough |
|---|---|---|
| `changelog` | all of ChangeLog | The module's function and two copies: two sibling forks, a fork of a fork, a clone of a fork. Three edits on a log of 2, so that it drains; five numbers, two forks and a function of its own or a fork and two clones. One mark is kept, taken anywhere: no property relates two marks. Copies are symmetric. |
| `analyses` | all of Analyses but `ReplayGivesRun` | Four programs. `Accesses` over `Dominators`, both incremental, three edits: one before a result, one after it, one after it is kept. `ThroughMemory`, kept as sound, over `Writes`, skipped: two edits, sound or not, of what either reads. `ExposedFrames`, of the body and the module's facts: three edits and three versions of the facts set in any order, so that one comes back. `Reads`, the analysis of `pass_tests.rs` that is kept as sound and names values: three edits. |
| `analyses_unreported` | `ReplayGivesRun`, violated | `Writes` over `CallFootprints`; one edit suffices. |
| `module_facts` | all of ModuleFacts | Two functions and a variable, two edits: one of the second function can follow what the first function's run preserved, and an edit can undo one before. The view leaves out the names of versions and the numbers of objects, of which only equality is asked, what was told edited while anything may have changed, and the last proxy where the next may differ. |
| `greedy` | all of Greedy | Every program of four families. Three values over two points, classes of words, bytes and AX alone, light, heavy and unspillable: bytes and words overlap, so evictions free two ranges at once, and there are fewer lanes than ranges. Four values for AX and BX with low cutoffs, which are met. Four values over three points joined by copies of unequal frequency, one free, pinned or fixed to AX. Three values with hints, weights and overlapping classes together, for `Terminates`. |
| `matrix` | all of LiveRegMatrix | Three ranges out of five, one empty, with segments that touch, that leave gaps and that meet, over AL, AH and AX; a call in slot 5, a fixed range of AH in slot 4. One interference or all are asked for. Ranges are symmetric; the view leaves out what a query with moved tags found, which `QueryInit` throws away. |
| `music` | all of Play with the tick an interrupt, and that it implements Music | A ring of three places, so it wraps and fills; notes that sound, rest, are followed by silence and are too short for a tick. Counts are of 16 bits. |
| `music_host` | `QuietAfterEnd`, violated | The same with the tick a thread. |
| `traps` | all of Traps but `TrappedKeyIsNotRead` | Programs that trap the timer, the music and a key, or two keys: two handlers inside one another in either order. A day of six hundredths and timers of half of it and of more, so midnight comes between; any two keys in the buffer, trapped or not; one note. |
| `traps_input` | `TrappedKeyIsNotRead`, violated | Two keys. |
| `traps_on` | `RunningIsCalled`, violated | Two keys, and ON KEY inside its own handler (`Rebinds`). |
| `strings` | all of StringSpace | Nine words: a variable, two temporaries, an array of up to two strings, a file, strings of up to two characters. That is enough for two arrays at once in REDIM PRESERVE with a string kept, for a file above an array that slides up when it is closed, and for every way of running out. Characters are symmetric. Ten words, or two variables, give the same answers and take three times as long. |

Every property has a mutant in `PROJECT.json`: a definition changed as a plausible bug would
change it, under which TLC finds that property violated. The mutated forms stand beside the
definitions they replace.

`CHECK_DEADLOCK` is off where the modelled system ends: an allocation, a program that has ended
(Play), and ChangeLog, whose steps run out with its bounds.

## Findings

Each is a run that is expected to fail, of one property the code or a comment states.

- `analyses_unreported` (`passes.rs:1745`): a result asked for in the middle of a pass, after an
  edit the cache was not told of, is replayed as true of a body it was never true of.
  `CallFootprints` is held; the pass edits a call; it asks for `Writes`, which is derived from the
  stale footprints and marked with the body as it is now; the pass invalidates, so both are
  retired, `Writes` with that mark; `Writes` is asked again, nothing has changed since its mark,
  and it is replayed. `found` notes that the derivation read something older (`from_older`), but
  nothing consults the note when the result is retired. `passes.rs:1822` asserts that this does
  not happen.
- `music_host` (`play.c:359`): on a host a tick that tested the ring before the program's end
  emptied it begins its note after the speaker was quieted, and `dev_tick_stop` leaves it
  sounding.
- `traps_input` (`inkey.c:15`): INPUT reads a trapped key that is in the buffer before it or comes
  between its hook and its test; its event is lost. INKEY$ looks again for this reason.
- `traps_on` (`events.c:206`): a handler that says ON KEY(n) GOSUB 0 for its own trap leaves the
  trap running when it returns: `B$EVDN` clears the flag by the handler's number, which is gone.
  Once the trap has a handler again, no event of it is handled. Two traps that share one handler
  have the opposite trouble, both flags falling when one call returns; the passing run and the
  theorems give each trap a handler of its own.

One more was met in proving `TimerKeepsTime`, and has no run of its own: the property of the run
`traps`, without its bound of half a day, fails there for the timer of five hundredths of a day of
six. ON TIMER takes up to 86400 seconds (`events.c:12`), as the manual says ("between 1 and 86,400",
and an event "when n seconds have elapsed", `tests/differential/conformance/qb45/qb45adv.txt:10311`),
but `look` (`events.c:148`) takes the next event for late when it is more than half a day ahead: a
timer of more than 43200 seconds is due at the first statement after TIMER ON, and again at every
statement once it has been handled.

## Proofs

TLC checks an instance, the proofs every value of the constants. Each rests on an inductive
invariant, as none of the properties is inductive alone; TLC checked each invariant on its run's
instance before it was proved.

### ChangeLogProofs

For any slots, any log length and any bounds:

| Theorem | States |
|---|---|
| `TypeCorrect` | `Spec => []TypeOK` |
| `ChangesSinceCorrect` | `Spec => []ChangesSinceIsWhatChanged` |
| `MarksAreIdentities` | `Spec => []EqualMarksAreOneBody` |
| `Invariance` | `Spec => []Inv`, which they rest on |
| `AdoptedForksKeepMarks` | `Spec => AdoptKeepsMarks` |
| `ChangesAreHandedOutOnce` | `Spec => []HandedOutOnce` |
| `UntakenKept` | `Spec => []UntakenIsKept` |

Assumed of the constants: `Home` is a slot, `LOG` is a positive number, the bounds are numbers.
The bounds only guard actions, so any behaviour of the program is one of the model for some
bounds. That is all of ChangeLog's properties.

That an answer is right depends on how the log sits in the history, on who else has the mark's
branch, and on what copies agree about. `Inv` says:

- `LogsAreSuffixes`: a function's log is the end of its history, and `logged` its length.
- `Numbered`: no number not yet drawn is in a branch, an ancestor or a mark. Without it a fork
  could get a branch that a mark already names.
- `OneOwner`: a branch belongs to one live function. Without it two functions could log
  different changes at one position of one branch.
- `AncestorsAgree`: a fork agrees, up to where it forked, with the function that has the branch
  it forked from. An edit keeps it, as it only appends past that point.
- `PointsAgree`: a marked body is a prefix of every function its mark is a point of.
- `ForkLogs`: a copy that was forked has a log that begins at the fork, so that
  `adopt` joins two logs that follow one another. A clone has no ancestors, and is not adopted.

Each action has a lemma that it keeps `Inv`. `Clone` and `Fork` share `CopyInv`; `Discard` and
`PutBack` are about which slot holds a function; `Adopt` is the long one, as it changes the
branch of the module's function to the fork's, or gives it back its own where the fork changed
nothing. `AnswersAreTrue` and `MarksTellBodies` then follow from `Inv` alone.

What is promised of handing over needs three more, each inductive given `Inv`:

- `ForksAreTrees`: whoever forked from a branch has the ancestors of the branch's owner before
  it. So the adopted fork's ancestors are the function's and the function itself, and a mark that
  was a point of the old function is one of the new.
- `HandsOutOnce`: a change is in one place of one log, and once handed out it is only in the log
  it was taken from, before `taken`; changes not yet made are nowhere. Draining and joining logs
  move positions and `taken` alike.
- `HomeKeepsUp`: a copy of the first history is a fork, so that it comes into the module by
  `adopt` alone, which keeps `taken` and where the log begins.

### AnalysesProofs

For any analyses, whatever they build on and read, any facets and any program, where a pass that
asks after its own edits asks only for what they left true or tells the cache first
(`~AsksUnreported`; the run `analyses_unreported` shows what happens otherwise):

| Theorem | States |
|---|---|
| `TypeCorrect` | `Spec => []TypeOK` |
| `HeldResultsAreTrue` | `Spec => []HeldIsTrue` |
| `MarksAreTrue` | `Spec => []TrueAtItsMark` |
| `AnswersAreTrue` | `Spec => []AskedIsTrue` |
| `ExactAnswersAreFresh` | `Spec => []ExactIsFresh` |
| `Invariance` | `Spec => []Inv`, which they rest on |

That is all the run `analyses` checks. Assumed of the constants are `KindsAssumption`,
`ProgramsAssumption`, `SoundAssumption` and `CfgAssumption`, which TLC evaluates on the runs. Two
parts of `Inv` make it inductive:

- `TrueEntries`: an entry held or kept says nothing that was not so at its mark, and is exact unless
  it is `Inexact`: something was kept as sound, and what it is derived from is soft. This is what
  `update`, `unaffected` and keeping as sound need of an old result.
- `Current`: nothing but the edits pending touched what an entry held was read from, and the outer
  facts are those it read. This is what holding a result past a pass needs: a pass that names what
  it left true, or vouches for all of it, empties `pending`.

An entry true at its mark that is current where no edit is pending is true now (`StillCovered`,
`HeldStands`). What asking leaves is then shown case by case, as `found` decides (`HeldAnswers`,
`SoundAnswers`, `UnaffectedAnswers`, `DerivedAnswers`), over what was found of the analysis below.
`found` calls itself, so two inductions on how far an analysis is from one that builds on nothing
are needed: that `Asked` is the function it is written as (`AskedIs`), and that the answer is true
of all (`AskedAnswers`). Both take the least of the ranks of what fails (`LeastOf`).

### ModuleFactsProofs

For any number of functions, any edits and any number of them:

| Theorem | States |
|---|---|
| `ModuleFactsTyped` | `Spec => []TypeOK` |
| `ModuleFactsResultsAreTrue` | `Spec => []ResultsAreTrue` |
| `ModuleFactsAnswersAreFresh` | `Spec => []AnswersAreFresh` |
| `ModuleFactsProxyIsKept` | `Spec => ProxyIsKept` |
| `ModuleFactsInvariant` | `Spec => []Inv`, which they rest on |

That is all the run `module_facts` checks. What is held between passes is true (`TrueOf`), but a
result can be given up and given out again much later, so `Inv` says what each thing kept is good
for, in every phase:

- `Shaped`: a result is held or given up, never both, and there is one note of the summaries.
- `OneEach`: a number names one object. Without it the proxy could hold the number of an object
  that is not the one it held.
- `AsNoted`: summaries, held or given up, are those of the two objects noted with them. Bringing
  them up to date from the log rests on it.
- `ToldOf`: a declaration given up agrees with the module but for the globals told edited, unless
  anything may have changed; what the summaries were made from, but for the bodies logged since.
  This is what checking against `edited` alone needs.
- `Matched`: where nothing is kept on purpose, summaries held are of the objects held.
- `Repeats`: where nothing was edited since the last proxy, the objects it holds are held or will be
  given out again.

### LiveRegMatrixProofs

For any registers, units, ranges, calls and fixed ranges:

| Theorem | States |
|---|---|
| `LiveRegMatrixTyped` | `Spec => []TypeOK` |
| `LiveRegMatrixUnionsHold` | `Spec => []UnionsHoldWhatIsAssigned` |
| `LiveRegMatrixChecksAreTrue` | `Spec => []ChecksAreTrue` |
| `LiveRegMatrixCollectedAreInTheWay` | `Spec => []CollectedAreInTheWay` |
| `LiveRegMatrixInvariant` | `Spec => []Inv`, which they rest on |

That is all the run `matrix` checks. Assumed is `MatrixAssumption`: a range's segments are in
order and not empty, registers are finitely many, and `All` is more than there are. `Inv` has

- `Holds`: a union's entries are in order, none over another and no two of a register touching, and
  each slot is of the register assigned there. Taking a range out finds again what joining its
  segments made of them because of that.
- `QueriesHold`: a query whose two tags are current, of a register that is `Asked`, is `Valid`.
  What it found is in the way, each once; all of it if it says so; and while it is under way,
  whoever is in the way and not found is at or after the place it stopped at, in both the range and
  the union. This is why a walk can be resumed.
- `MaskHolds`: regmasks kept under the user tag are those of the range as it is.

Why `Asked`: a range the spiller cuts back changes without its tags moving, so a query that found
nothing wrong with it would speak of the old range. Mostly it has no register then and it is not its
turn, and it is dequeued again only by `Take`, which gives up every query. A candidate that
recoloring displaced is in its turn without a register: `Shrink` takes one only of which no answer
is remembered, which nothing in the code sees to. A caller who asked
`check_interference` of a range it had just cut back would be told of what was there before: the
hazard at `liveintervalunion.rs:281`.

The loops are recursive functions of their turns. `LoopRuns` shows that such a function exists and
stays in what is good after each turn, `LoopStays` that a property of a turn's result survives the
next; both take the least turn that fails. The walk ends because each turn passes an entry or a
segment (`Ahead`).

### PlayProofs

For any notes and any size of the ring, where the tick is an interrupt (`Interrupt`): it runs from
its first step to its last before the program goes on. The program is interrupted anywhere.

| Theorem | States |
|---|---|
| `TypeCorrect` | `Spec => []TypeOK` |
| `EndIsQuiet` | `Spec => []QuietAfterEnd` |
| `TonesAreCounted` | `Spec => []ToneIsCounted` |
| `ForegroundIsAlone` | `Spec => ForegroundWaits` |
| `RingImplementsMusic` | `Spec => Ring!MusicSafe`: the safety of `PlaysInOrder` |
| `PlayInvariance` | `Spec => []Inv`, which they rest on |

`Inv` says what the program's and the tick's last tests still tell of the ring and the counts
(`WaitIsKept`, `RoomIsKept`, `SilenceIsKept`, `NoteIsBegun`): that a tick that came since has not
made the answer false. `CountIsKept` says the same of what the tick has read of a count and not yet
stored. `HoldIsKept` is the lock by which `dev_tick_hold` keeps the tick away, and
`ToneIsOwed` that a tone sounding has a count that ends it or someone about to. The refinement
maps the places of the ring from tail to head to Music's sequence. With `Threaded` `EndIsQuiet` is
false, as the run `music_host` shows, so the assumption is needed.

### TrapsProofs

For any keys, any order of the traps, any day and any bounds, where each trap has a handler of its
own and no handler rebinds its trap while it runs (`OwnHandlers`; `traps_on` shows what happens
otherwise):

| Theorem | States |
|---|---|
| `TypeCorrect` | `Spec => []TypeOK` |
| `RunningMeansCalled` | `Spec => []RunningIsCalled` |
| `InkeyIsClean` | `Spec => InkeyReadsNoTrap` |
| `Invariant` | `Spec => []Inv`, which they rest on |

The flag a trap has while its handler runs is cleared by the handler's number when it returns.
That this is the right trap rests on `StackIs` (dispatchers and handlers take turns, so what
returns to a dispatcher is the handler it called) and `Flags` (the handlers on the stack are those
of the traps that run, each once). `Registered` and `Machinery` type what those use, and `Reading`
says what INKEY$ knows of the buffer at each of its steps.

`TimerIsInTime` (`Spec => TimerKeepsTime`) needs no assumption on handlers. Its invariant `TimeIs` is
that what is left of the timer's time is how far its next event is ahead of the clock, round
midnight. `AheadIsNotPast` is the arithmetic of `look`, and where half a day comes from: the same
subtraction takes an event further ahead for one that is past.

### GreedyProofs

For any registers and the bytes they cover, any ranges, classes, weights, hints and copies, and any
three cutoffs, however deep recoloring goes:

| Theorem | States |
|---|---|
| `TypesAreRight` | `Spec => []TypeOK` |
| `RegistersAreApart` | `Spec => []NoClash` |
| `NoRangeIsLost` | `Spec => []NoneLost` |
| `SpillProductsKeepRegisters` | `Spec => DoneIsKept` |
| `FailuresAreTakenBack` | `Spec => FailureRestores` |
| `HintsAreRepaired` | `Spec => HintsAreNotWorsened` |
| `Invariant` | `Spec => []IInv`, which they rest on |

That is all the run `greedy` checks but `Terminates`. Assumed are `RegsAssumption` (every register covers a byte) and `ProgramsAssumption` (what is
allocated is a `Program`: a spill product is of one value, no value is empty). TLC evaluates both
on the run `greedy`.

`IInv` is small: the matrix is sound (`Sound`), what a value would be spilled to does not exist
while the value does (`Fresh`), cascades are below the next one (`Counted`), and a range without a
register is queued once or failed. What takes the proof is that a turn keeps it, as a turn is
`select_or_split_impl` calling itself, with the matrix in states between. So most of the
module is about one contract, `Answered(s, v, got)`: what a call from session `s` for `v` may
answer, provided it was `Asked` rightly.

- `Good`: the session it leaves is sound, and what is to be undone has either no register now or is
  fixed by a recoloring (`Backed`).
- `Leads`: what it may have done to ranges other than `v`. One that lost its register is in `new`
  once more than before (`Lost`), or its old register is in `undo`; nobody fixed was touched; no
  spill product that had a register is without; who had none has none.
- With a register for an answer, `v` can have it (`CanHave`): nobody in its way is left. With none,
  nothing is left to undo, and `v` is queued, gone or to be failed.

Assigning, evicting, waiting and spilling keep it, each by a lemma (`TryAssignIs`, `EvictedIs`,
`WaitingIs`, `SpilledIs`, joined in `SettledIs`). Recoloring keeps it if the calls one level
deeper do (`Contract`): after `Displaced`, each turn over the candidates leaves those before it
fixed with registers and those after without (`Going`, `GivenUp`). If all found one, the candidates
were displaced and not lost (`AttemptIs`). If not, `RolledBack` gives each back what `undo` says it
had, and `Restored` and `BackLeads` say that this is what the contract asks, though a call below may
have evicted, spilled or recolored others meanwhile: a candidate given back its register is not in
`new`, and no two who got theirs back clash, as they did not before. `SelectIs` is one level,
and the induction over levels gives all.

What repairing hints breaks and mends is a sum over the copies. `MovingCosts` says that moving one
range changes it by what `broken_hint_freq` compares, copy by copy (`FreqsAreEqual`); that the range
moved is not pinned is needed for it (`Loose`).

Loops and levels are functions taken by `CHOOSE`. That each exists, and that what a turn keeps its
last value has, is proved from the least turn that fails (`LeastOf`, `AllOf`).

### StringSpaceProofs

For any variables, any temporaries, any size of the region, of headers, footers and files, and any
bounds on lengths, elements and files:

| Theorem | States |
|---|---|
| `TypesAreRight` | `Spec => []TypeOK` |
| `StringsKept` | `Spec => []StringsAreKept` |
| `RoomFound` | `Spec => []RoomIsFound` |
| `Invariant` | `Spec => []IInv`, which they rest on |

That is all the run `strings` checks. Assumed is `SpaceAssumption`: names, numbers and characters
are told apart, `Temps` is a sequence, and sizes are positive. `IInv` has

- `Good(memory, {})`: the entries tile string space and the heap (`Regions`), the descriptors there
  are are the variables', the temporaries' and the words of the arrays in the heap (`Described`),
  and each descriptor with a string leads to an entry of its length that leads back, as each entry
  in use does (`Owning`).
- `ArrayIs`: the array's descriptor names the one array in the heap, and words of its entry beyond
  its elements have no string. Closing a file moves those words too.
- `TempsAre`: the temporaries in use are those with a string. Freeing one a second time is harmless
  because of it.
- `TextsAre`: what the program was given is what its descriptors lead to.
- `RaisedRight`: what was raised is more than there was room for.

Between two steps of an operation a descriptor has no string yet, or one too many: `Good(m, X)`
leaves the descriptors of X out. Each operation has a lemma of what it makes of a good memory.

- What leaves addresses alone keeps every string (`Kept`): `Scan` and `Fit` join free entries
  (`Merges`); `StrCompact` moves entries and tells their owners (`Rehung`); `StrTake`,
  `LhGive` and `LhTake` move the boundary. `StrAllocIs` and `LhAllocIs` come of these.
- What moves descriptors keeps them for the program (`Shown`): in `LhCompact` entries slide
  (`SlidIs`), the array's words with them, and `str_owner_moved` makes the strings' headers follow
  (`MovedIs`). REDIM PRESERVE carries elements from one array to another (`CarriedIs`).
- What gives the program a string says which (`Gives`); from `Gives` alone follows the new state of
  the texts (`GivesTexts`).

Packing gives an entry the number of words used below it for its address. That entries so placed
tile again, in the same order, is arithmetic on cardinalities of sets of words (`WordsAre`,
`PlacedIs`, `DownsAre`, `UpsAre`). `RoomIsFound` rests on it: when all attempts fail, the scan has
seen one free entry, after everything in use, and it is too small (`RoomForIs`).

### Only model-checked

- Liveness: `StatementsEnd`, `EventsAreHandled`, `Terminates`, and the fairness of `PlaysInOrder`.
  The provers do not reach it.
- The runs that find a violation.

## Not modelled

- The parsers, checkers, lowerings, instruction selectors, encoders, object readers and writers,
  and the MIR interpreter, parser and printer. They are sequential translations of whole
  languages, with data as their content, tested against golden files and one another; a model of
  one would restate it.
- The passes of the optimizer are modelled by what they owe the caches: which facets they edit,
  what they say they preserve, when they ask. What a pass does to the program is checked by the
  interpreter and by `verify.rs`.
- Generated tables (`llrm-dagisel/src/generated`, most of the lines of the repository), vendored
  headers, tests and benchmarks.
- In the allocator, splitting by regions and the inline spiller: the modelled spiller replaces a
  range by small ones and shrinks no other. The hazards at `greedy.rs:1568` and
  `liveintervalunion.rs:281` come with them.
- In string space, FIELD lists (the hazard at `file.c:433`), and the far memory of huge arrays.
- `ON ERROR` and RESUME, random-access files and the screen.

## Plan

What is left, in order:

1. `ProgramAnalyses`: `carry` and `link` over several modules, from ModuleFacts' `Carry`.
2. An abstract cache, which derives afresh whenever it is asked, with Analyses shown to implement
   it where nothing is kept as sound.
3. Region splitting and the inline spiller over LiveRegMatrix, where ranges change while they are
   assigned.
4. `llrm-alloc`'s size classes and free lists, to prove about.
5. Pure algorithms against their definitions: the parallel-copy sequencer, jump relaxation, the
   dominator tree updater, the sparse solver's lattice.
6. FIELD lists and error handling of the run time; the language server's versions; the
   all-or-nothing outputs of `llrm-omf` and of the drivers.
