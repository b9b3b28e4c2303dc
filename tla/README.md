# mysql_udfs (libjoyo): a TLA+ model

`libjoyo.so` is a library of user-defined functions for a MySQL server: vector
arithmetic on comma-separated strings, word counts, and JavaScript over rows.
This directory holds models of its own code (about 1500 lines of C), all of it,
and of those parts of the JavaScript engine under it (`src/js`, SpiderMonkey, some
150 000 lines) whose state is hardest to test; the TLC runs that check them; and
TLAPS proofs about the library, the engine's threads and its mark phase.

## 1. The system

The server is the only caller of the library. For a query that uses an aggregate
it calls

    f_init   { f_clear  f_add*  f* }*   f_deinit

in one thread; for an ordinary function `f_init f* f_deinit`. If `f_init`
returns a non-zero status the query is over and `f_deinit` is not called. A
context made by `f_init` is in `initid->ptr` and belongs to that query. This
order is the environment of the library's modules (an add after the first reply of a
group is left out in `VectorSum`, where the server's order matters for a value).

| component | state | operations | what is hard |
|---|---|---|---|
| tokenizers (`libjoyo.c`) | the caller's pointer and remaining length, a 64-byte buffer | `nextWord`, `nextInt`, `nextDouble` | tokens that do not fit, empty fields, the end of the argument; every loop of the library ends only if they make progress |
| `tagcloud` (`fun_tagcloud.c`) | a trie of letters with counts, the block of the reply | init, clear, add, reply, deinit | ownership of blocks over many groups; two passes that must agree to the byte |
| `isum`, `isumn` (`fun_iops.c`) | a trie of digits with values, `len`, `normalize` | the same | the same; values are divided between the two passes; state kept from one group or reply to the next |
| `dotf`, `doti`, `dist2f`, `dist2i`, `jit` | none between calls; two cursors in a call | the function | two cursors that move at different speeds over indices and values; what is left when one of them ends |
| `jsmap`, `jsreduce` | a script buffer, a result buffer, an engine context | init, call, clear, add, deinit | buffers that grow, one of which does not know its size; refusal after allocation |
| script runtime (`rt` in `core_js.c`) | one runtime shared by all threads | created by the first init | tested and set without a lock; contexts of concurrent queries |
| thin locks (`jslock.c`) | a lock word, a fat lock with a condition | lock, unlock, enqueue, dequeue | a compare-and-swap on one side, a plain store on the other |
| requests and collector (`jsapi.c`, `jsgc.c`) | `requestDepth`, `requestCount`, `gcThread`, `gcLevel`, `gcPoke` | begin, end, yield, suspend, root, `js_GC` | a collector that waits for requests that wait for it |
| scope ownership (`jslock.c`) | `ownercx`, the list of scopes to share, locks | lock, claim, share, unlock, transfer | ownership without a lock; cycles of owners and waiters |
| contexts and runtime (`jscntxt.c`) | `rt->state`, the list of contexts | create, destroy | the last context leaves while the first of the next generation comes |
| marking (`jsgc.c`) | marks, the bag of unscanned things | `js_MarkGCThing`, scanning, closing generators | recursion with a bounded stack; a bag filled while it is emptied |
| GC heap (`jsgc.c`) | arenas, free list, locks of things | new, lock, unlock, sweep | a collection in the middle of an allocation |
| local roots (`jscntxt.c`) | a chunked stack of values and scope marks | enter, push, forget, leave | chunk boundaries |
| strings (`jsstr.c`) | buffers shared by strings | concat, depend, undepend, minimize, finalize | a buffer that moves while others point into it |
| hash tables (`jsdhash.c`) | the store, entries, sentinels | lookup, add, remove, enumerate | growth that fails; the last free entry |
| regular expressions (`jsregexp.c`) | parser stacks, the program, the matcher's two stacks | compile, match | backtracking into loops, lookaheads and captures |
| statements (`jsemit.c`, `jsinterp.c`) | code, try notes, operand stack, scope chain | emit, run | ways out of nested statements through finally clauses |
| property tree and scopes (`jsscope.c`) | one tree for all objects, a list or table for each | add, change, remove, clear, sweep | sharing, forking, failures half-way, sweeping without allocating |
| `install.sql`, `install`, `Makefile` | - | - | registration and build, not modelled |

The parts of the library meet at three places: everything reads its arguments
through the tokenizers; the reply of `isum` is meant to be an argument of `doti`,
`dist2i` and `jit`; and the script functions share the engine. In the engine,
locks, requests, scope ownership and the life of the runtime meet in the
collector, and are composed (`Requests`, `ScopeOwnership` on top of it,
`JsRuntime` on top of that); the heap asks for marking, strings and properties
are swept by the collector, and the interpreter runs what the emitter has
made, so `Statements` has both.

What makes each part correct:

- tokenizers: never read past the argument, always progress, hand out the field
  that lies at the cursor;
- aggregates: no freed or doubly owned block is reachable, the reply is the
  function of the group's rows, the second pass fits in what the first measured;
- functions of two arguments: indices and values are never confused, and the
  result is the mathematical one on arguments that are in order;
- script functions: no write past a buffer, the script evaluated is this row's;
- the engine's threads: one owner, one collector beside nobody, nobody waits for
  what does not come;
- the engine's data: what is reachable survives and nothing else does, a
  compiled expression or statement does what its source means, a string, a table,
  a scope keeps its value whatever its representation becomes.

`PROJECT.json` lists the hazards line by line, each with the properties that
cover it or the reason why none does.

## 2. Modules

### The library

| module | models | correspondence |
|---|---|---|
| `UdfTokens` | the tokenizers | `Cursor(pos, len)` is the pair of C variables; `NextWord` and `NextNumber` return token and new cursor |
| `TrieOrder`, `Heap` | the trie both aggregates build, and malloc | a node is named by its path; `blk` gives the block of each node; `BelowRoot` is what `tc_destroy` frees |
| `TagCloud` | `fun_tagcloud.c` | `ptr`, `blk`, `count`, `size`, `out` are `initid->ptr`, the nodes below `C->root`, their counts, `C->size` and `C->output`; `plan` is a history variable |
| `Fields`, `RowWords`, `WordBag`, `TagCloudRefinement` | what `tagcloud` promises, and the mapping | a bag of counts with an action for each call; the bag is the counts of the trie, the word in the buffer and the words behind the cursor |
| `VectorSum` | `fun_iops.c` | `sum`, `by`, `len`, `normalize` are the values in the trie, what they have been divided by, `C->len` and `C->normalize`; `plan` is a history variable |
| `VectorBag`, `VectorSumRefinement` | what `isum` and `isumn` promise, and the mapping | the vector is the trie's and the pairs of the row that are still to be read: a vector is a function from indices to sums over the set of the pairs that have the index |
| `SparseOps`, `SparseReference` | the five functions of two arguments; what they compute, as sums over the ranks or the indices that occur | `pc` is the loop: `main`, `rest1`, `rest2`; `c1`, `c2`, `i1`, `i2`, `dp` are `V1/len1`, `V2/len2`, `idx1`, `idx2`, `dp` |
| `ScriptBuffers` | the buffers of `jsmap` and `jsreduce` | `script.cap` is what was allocated, `script.size` is `script_sz`; `bytes` says which bytes are this call's |

Inits, clears and deinits are one step each: they run no loop over data of which a
part could be seen. `tagcloud_add` takes a step for each level of `tc_add`,
`isum_add` one for each pair, the output passes one for each entry, the
two-argument functions one for each round of a loop, and `jsmap` three: fill,
run, copy. So the invariants speak about the states in which the C code is half
way. Characters are model values or one-letter strings, and `Sep` stands for NUL,
`;` and `,` together. `atoi` and `atof` are functions from tokens to integers;
printing is its width. In `VectorSum` a value is an integer with the square of
the length it has been divided by; a divisor that is not the root of an integer,
which only a second reply of `isumn` for one group yields, is `Inexact`.

### The engine's threads

These model the engine built with `JS_THREADSAFE`. `libjoyo` builds it without
(section 6), so they are about the engine that a thread-safe `libjoyo` would need.
`ThinLock` and `Mutex` are about code that no build of this tree compiles as long
as `jslock.h:186` defines `JS_USE_ONLY_NSPR_LOCKS`; no hazard is listed for them.

| module | models | correspondence |
|---|---|---|
| `ThinLock` | `js_Lock`, `js_Unlock`, `js_Enqueue`, `js_Dequeue`, `js_SuspendThread`, `js_ResumeThread` | `owner` is the lock word with its wait bit, `seen`, `bit` the locals of a thread; a test and what follows it are steps of their own |
| `Mutex` | what a lock promises | `IsMutex` shows `ThinLock` to implement it with `holder <- owner.who` |
| `Requests` | requests, roots and the entry and exit of `js_GC` | what runs under `rt->gcLock` is a step, a wait gives it away until it is notified; `debit[t]` is `requestDebit` of `js_GC`, `call[t]` what the thread waits or works for. A thread has any number of contexts; one that holds a scope neither begins a request nor removes a root |
| `ScopeOwnership` | claims, sharing, transfer, `js_SetProtoOrParent` | extends `Requests`; `todo` is `rt->scopeSharingTodo`, `sharing` is `cx->scopeToShare`; while a thread holds scopes `call[t].cx` is the context it locked them with, and unlocks them with |
| `JsRuntime` | `js_NewContext`, `js_DestroyContext` | extends the same; `state` is `rt->state`, `phase` where a context is in one of the two |
| `MCThreads`, `MCScopeOwnership` | instances | `part` says whether a behaviour is of the lock or of the runtime |

### The engine's data

`MCEngine` explores these, and `ScriptBuffers`, one beside the other: it extends
`GCMarking`, `GCHeap`, `LocalRoots`, `Strings`, `DoubleHash`, `ScriptBuffers` and
`ScopeProperties` and instantiates the others, they share no state, and `part` says
which one a behaviour is of.

| module | models | correspondence |
|---|---|---|
| `GCMarking` | `js_MarkGCThing` to `ScanDelayedChildren`, close phase, callback | a thing is its address, `Arena`, `Page` and `Chunk` say where it lies; `chunks`, `pages`, `bagged` are the three levels of the bag; `room` is the C stack that is left |
| `GCHeap` | `js_NewGCThing`, `js_LockGCThingRT`, `js_UnlockGCThingRT`, sweep and free phase, and the bases of strings | `kind` is the flag byte, `ref` what the slots of an object hold or the base of a string; `chain` are the arenas, `lastLimit` how far the last one is used, `lockBits` and `lockCount` the two forms of a lock; `Collect` gives the chain and the free list after the sweep, in the order of the walk |
| `LocalRoots` | local root scopes | `rootChunks` is `firstChunk..topChunk`, `rootCount` and `scopeMark` the fields |
| `Strings` | flat, mutable, dependent and prefix strings | `str` the headers, `mem` the buffers, `text` what the caller believes, `given` the pointers it has; the walk to the last base is a least set (`Bases`), the offset in it a count (`Start`) |
| `DoubleHash` | `jsdhash.c` | `store` with entries, keys and sentinels, its size that of the table; `loop` and `nextEntry` where `ChangeTable` or an enumeration is, `oldStore` what is moved; `members` is the promise |
| `RegExp` | parser, emitter and matcher of `jsregexp.c` | one instruction for some bytes; `m` is the machine: state stack, backtrack stack, captures, `result` |
| `Patterns` | what an expression means | the ways to match it, the preferred one first (ECMA-262) |
| `Emitter` | statements of `js_EmitTree` | statement stack, back-patched jumps, `EmitNonLocalJumpFixup`, try notes |
| `Interpreter` | the opcodes they use, exceptions | operand stack, scope chain, `fp->rval`, blocks |
| `Statements` | what statements mean | completions as in ECMA-262, from what the expressions said |
| `PropertyTree` | nodes, kids in chunks, the root table, the sweep | a record with the parents, kids, chunks and roots of all nodes |
| `ScopeProperties` | scopes on the tree | `lastProp`, `table`, `count`, `middle`, `freeslot` are the fields of `JSScope`; an operation is a step (`rt->gcLock` and the scope's owner see to that) |
| `PropertyMaps` | what scopes promise | a map in the order of definition for each scope |

An expression of a program is a question that is answered true, false or by an
exception (`trace` has the answers), so `Statements` covers all behaviours of the
expressions at once. In `ScopeProperties` each call takes the allocation that
fails in it as a parameter (`Faults`): the table, the vector for forking, a slot,
the first or second node, a chunk of kids, an entry of the root table.

The models of regular expressions, statements and scopes were also compared with
the engine itself, built from `src/js`: all 8 628 pairs of an expression of
`MCEngine` and an input, 35 785 random trees of statements with random answers,
and 2 000 random programs of 60 calls on three objects gave the result the
modules give. The differences the comparison showed are in section 5.

## 3. Runs

| run | question | bounds |
|---|---|---|
| `tagcloud` | memory, the two passes, the cut of depth, ends of loops, and the refinement of `WordBag` | words of up to 2 characters, 7 rows (a word cut and the rest given up, empty words, a separator at the end, a shared prefix, a foreign letter), 2 queries of a clear and 2 rows, counts cut at 2, 16 blocks |
| `vectorsum` | the reply fits, is in order, is the vector sum and of unit length | indices of up to 3 digits, 6 rows, 1 query of a clear, 2 rows and 2 replies to a group |
| `sparseops` | the results are the mathematical ones | all pairs of 26 arguments of up to 7 characters for each of the 5 functions |
| `threads` | the thin lock is a mutex and its unlocks return; the runtime is launched and landed by one thread at a time | 3 threads; a thread creates and destroys contexts without end |
| `scopes` | the collector is alone, a scope has one worker, what is listed is owned | 3 threads with a context each, 2 scopes, requests one deep |
| `scopes_live` | the collector gets to run, waiters are told | 2 threads, 2 scopes, requests 2 deep, with `js_SetProtoOrParent` |
| `engine` | each part under *The engine's data*, and the script buffers (no write past one, the right script runs), against its promise | below |
| `scopes_stolen`, `jsruntime_final`, `locked_base`, `regexp_empty`, `duplicates` | what the code says of itself and does not keep | section 5 |

Why the bounds are enough. A second query begins with what the first has left on
the heap, a clear with what a group and its reply have left, a second row with
counts above one; the tokenizer's cases (a separator at once, within the bound,
none within it, end of argument) all occur with two characters a token. Three
threads are one that holds, one that waits and one that
comes in between. In `engine`: script and result buffers of 11 and 3 bytes (for
1024 and 256), each of which grows at least twice, with lengths on, below and above
every threshold; all graphs of 4 objects and a string with 2 slots
between them, in 6 chunks of 2 pages of 2 arenas, with a C stack that is full at
once or after a call; 2 arenas of 2 things, with 3 uses of
them (open locks, and things that slots and strings hold), where the third kind, a
flat string, is what `js_GetStringChars` makes of a mutable one; chunks of 2 roots and 5
roots; 3 strings, 4 buffers and 7 operations; tables of 4, 8 and 16 entries with keys
that collide in them; expressions of up to three levels on `aab` and `ab`, with at
most 12 saved positions; functions with a loop around three nested statements,
up to 6 answers; 3 scopes with 3 ids, chunks of 2, tables from 3 properties
on, two calls that change a scope and collections between and after them, or two
new scopes. Each bound is past the first size at which the code takes its other
path: the second chunk, the second arena, the first growth, the second table.
That the heap of `TagCloud` is finite only ends behaviours: 16 blocks are more
than the instance ever allocates. `MaxQueries`, `MaxClears`, `MaxRows`,
`MaxReads`, `MaxRefused`, `MaxDepth`, `MaxSlots`, `MaxUses`, `NewKinds`, `MaxRoots`,
`MaxOps`, `MaxEvents`, `MaxBacks`, `MaxCalls` are the bounds. The arenas of the heap
are a symmetry set (`BlocksAlike`): the code takes what malloc gives, keeps its
arenas in a list, and never compares two by their addresses.

The properties, by run:

- `TypeOK` in `tagcloud` also says that cursors lie inside their arguments,
  `BuffersTypeOK` that the sizes the script functions go by are of blocks they have,
  `LockTypeOK` that the fat lock is there exactly while somebody waits, `TypeOK` in
  `scopes` that `requestCount` counts requests.
- `HeapSound`: whatever is reachable from the context is allocated and has one
  owner. `LosesOnlyRoot` is its counterpart, and states what the code really
  gives back: a clear loses the old root block, a deinit the whole trie (the
  code frees the context only, `fun_tagcloud.c:245`), and nothing else is lost.
- `NothingHidden`: the silent cut at depth 128 never loses a counted word.
- `ReplyFits`: the second pass stays within, and ends at, what was measured. In
  `VectorSum` this depends on a fact about vectors, that no element of one
  exceeds its length, since values are divided between the passes.
- `CountsWords`, `SumsVectors`: the refinements. They cover the words given up
  after an overlong one, the pairs cut short by the end of a row, and what is
  left in a context by earlier groups. A second reply of `isumn` to the same group
  is left unspecified: the code divides the values in the trie itself and does
  not reset `C->len`.
- `InOrder`: indices of equal length come out ascending. For indices of
  different lengths they do not (`1`, `10`, `2`), and `doti`, `dist2i` and `jit`
  presume ascending ones, so `DotProduct`, `SquaredDistance` and `LeastCommon`
  are stated for ordered arguments.
- `WritesInside`, `RunsItsRow`, `LosesOnlyRefused`: the script buffers.
  `jsreduce_init` enlarges its buffer without noting the size, which these show
  to be harmless: the size the code goes by is never above the real one, and the
  NUL after the script is written apart from the `memset`.
- `CallReturns`: every call of `tagcloud` returns.
- `DequeueFinds`, `IsMutex`, `UnlockReturns`: the slow unlock finds the wait bit
  and somebody in the fat lock; one owner; every unlock ends.
- `LandsAlone`, `UnpinsAlone`, `Settles`: one context launches or lands the
  runtime, no atoms are unpinned beside a collector, and launching and landing end.
- `CollectsAlone`, `WorksAlone`, `ListedIsOwned`: nobody is in a request beside
  the collector, or on a scope beside its owner; a scope that is listed to be
  shared still has its owner. `DrainEnds`, `SharingDone`: both waits end.
- `MarkingSound`: at every return to the callback and at the sweep the marked
  things are those that can be reached, and the bag is empty (`MarksReachable`);
  what is put off can be found (`BagIsFound`); a call comes to a thing that is
  marked and not put off, as two assertions say (`EntersOnce`). `HeapKeeps`: what was given last and what is
  locked, with what these hold, is not given out again; what only a mutable string
  holds that is locked once is not protected (`Lone`; section 5), and a behaviour
  ends at the sweep by which such a string loses its base (`Intact`). `RootsAreScopes`: the roots are those of the open scopes.
  `StringsKeep`: every string reads as it was made. `TableIsMap`: a search ends
  and finds the members, the counts are right, and each entry that is moved finds a
  free place (the assertion of `jsdhash.c:517`). `MatchesAsMeant`, `RunsAsWritten`: the machine yields
  what the source means, the program fits in its estimate, stack, scope chain and
  blocks are back where they were.
- `TreeSound`: every node is its parent's kid once or a root, chunks are in one
  list, full up to their last kid; what a scope maps is on its line, counted,
  with a slot of its own; a collection leaves the marked nodes.
  `ScopesAreMaps`: a call changes the map of its scope as `PropertyMaps` says,
  also when memory runs out in the middle, and no other map.

Fairness. `CallReturns` has `WF_vars(Continue)`: a call that has begun is run on
by the server's thread, takes no lock and waits for nothing. There is no
fairness on what the server calls. `jsmap` and `jsreduce` have no such property:
a script may run for ever, and nothing in the code stops it. The thin lock has
weak fairness of the steps of a lock or unlock that has begun (threads are
scheduled; a mutex of the system is given to somebody). `ScopeOwnership` has weak
fairness of requests, claims and collections that have begun, and strong
fairness of ending a request and of leaving a scope: scripts end, and a thread
that is woken now and then gets to run. `SharingDone` is checked with two
threads: with three, one that collects over and over can keep the request of
the owner from ever ending, and nothing in the code prevents it. `JsRuntime` has
weak fairness of creations, destructions and collections, strong fairness of
ending the use of a context. No other run states fairness.

Deadlock is checked in every run but `scopes_live` and `scopes_stolen`, where
`js_SetProtoOrParent` deadlocks (section 5).

## 4. Undefined behaviour and its place in the model

`jsmap_init` returns an unassigned `status` for good arguments: `JsmapInit` and
`InitRefuses` are both enabled then. When a script does not compile, `rval` is
unassigned: the length of the answer is any of `Answers`. Bytes of a block that
were never written are `"left"`, and `RunsItsRow` forbids that any of them is
evaluated.

## 5. What does not hold

Five runs expect a violation:

- `scopes_stolen`: `js_SetProtoOrParent` waits for the scope of the new prototype
  with its request suspended, and another context claims the scope it has locked.
- `jsruntime_final`: the last context finds `gcPoke` consumed by a collection that
  began before, and takes the runtime down while that one runs.
- `locked_base`: `GC_TYPE_IS_STRING` (`jsgc.c:1608`) leaves out `GCX_MUTABLE_STRING`,
  the type of every string that `js_NewDependentString` makes (`jsstr.c:2479`) and of
  every one that `js_ConcatStrings` makes depend on its result (191). Locked once,
  such a string gets the bit and no entry in `gcLocksHash`, contrary to the comment at
  `jsgc.c:1602`: its base is not marked, and the next collection frees it. The string
  itself stays (`HeapKeeps`). Made flat and immutable by `js_GetStringChars`
  it holds nothing any more.
- `regexp_empty`: `result` of the matcher is that of the last simple opcode; a
  lookahead or loop whose body ends without one takes an older failure for its own.
  `MatchesAsMeant` leaves out the expressions this happens to.
- `duplicates`: `CreateScopeTable` maps the first of two parameters of one name.
  `function h(a,b,c,d,e,a,h){return a}` returns its first argument, with
  fewer names it returns the last.

The following were found as well, are excluded from the passing runs by name, and
have no run of their own:

- `js_Unlock` (`jslock.c:1045`) stores 0 after a test of the word, contrary to the
  comment at 1042: the wait bit that `js_Enqueue` sets in between is lost and the
  waiter sleeps on. `ThinLock!WaiterAnnounced` states what is lost; two
  threads refute it. `jslock.h:186` defines `JS_USE_ONLY_NSPR_LOCKS`, so no build
  of this tree has these locks.
- `js_SetProtoOrParent` can deadlock with the owner of the inner scope, contrary to
  `jsobj.c:390`; `SharingDone` excuses exactly this (`NestingDeadlock`).
- `JS_YieldRequest` in a thread with two contexts in requests waits for a collector
  that waits for the other context (`jsapi.c:902` against `jsapi.h:434`). The
  instances have one context to a thread.
- A quantifier clears the captures of its body with the wrong count:
  `/(?:(a)|b){2}?/.exec("ab")[1]` is `""` and not undefined. `Patterns` leaves
  such captures open.
- `L: try { return 1 } finally { break L }` leaves `fp->rval`, and a function that
  then falls off its end returns 1. `RunsAsWritten` excuses it (`lost`).
- In `jsscope.c`: a fork that fails half-way (1092) leaves the table with nodes
  that are not on the line, which are then neither enumerated nor marked (`Torn`);
  `js_Mark` (`jsobj.c:4842`) does not mark the older of two equal parameters after
  a middle delete, and the decompiler misses it
  (`function f(a,a,b){}; f.x=1; f.y=2; delete f.x; gc(); f.toString()` ends in an
  assertion); a root entry that was added when no node could be made has a null
  child, which the next comparison reads through (`fault = "crash"`); a scope
  whose table could not be made keeps growing its count, and at the size where a
  table would grow `ChangeScope` walks one that is not there.
- `jsdhash.c`: when `initEntry` fails on a reused entry, `removedCount` is one too
  low. No table of the engine has an `initEntry` that fails,
  and none sets other load factors (`JS_DHashTableSetAlphaBounds`) than the default.

In the library itself, without a property because the model's integers are
finite and short and its `malloc` succeeds: `count` overflows after 2^31
occurrences of a word (`fun_tagcloud.c:70`); `malloc` is unchecked
(`fun_tagcloud.c:33`); a double above 1e119 does not fit `counter`
(`fun_iops.c:134`); index 0 means none (`fun_jit.c:77`); the value of a script
that does not compile is converted all the same (`fun_jsmap.c:93`).

## 6. Not modelled

- `libjoyo` builds the engine without `JS_THREADSAFE` and shares one runtime among
  the server's threads, tested and set without a lock: nothing orders them, and a
  model would allow every outcome. `Requests`, `ScopeOwnership` and `JsRuntime` say
  what the other build guarantees.
- Values that are not finite, rounding, overflow of `int`. NULL rows: the server
  then passes a length of 0, which is the empty row. The server's result buffer,
  which `tagcloud` and `isum` fill with `strcpy`: its size is the server's.
- A `malloc` that returns 0 in the library (the code uses the block unseen).
- What a script computes, and the values it returns.
- Of the engine: expressions, functions, the standard classes, E4X (`jsxml.c`), the
  decompiler (`jsopcode.c`), the API wrappers, numbers and dates, the NSPR
  imitation, the shell and the tools. They are large and sequential, and what
  they compute is better tested than model-checked; the parts chosen are those
  that keep state over many calls, share it, or go back to it. Within them:
  `switch`, `let`, generators and long jumps of the emitter; classes, flags and
  syntax errors of regular expressions; the size of a scope's table, sealed
  scopes, aliases, watch points; thread-local free lists and finalizers of the heap;
  nested collections on one thread and the GC callback of `js_GC`.
- The MySQL headers, the build and the install script.

## 7. Proofs

All proofs are for every value of the constants under the named assumptions;
`tlapm` checks them with SMT, Zenon and, in last steps, PTL. The eight modules
prove every safety invariant of the passing runs except two, which are about
recursive meanings, every action property, and the four refinements.

### The library

- `UdfTokens_proofs`, for every argument. `NextWordSafe` and `NextNumberSafe`:
  progress, the bound on the token, the cursor inside the argument. `FieldStep`
  relates the scan of `nextInt` and `nextDouble` to `Fields`, where a field is
  defined without a scan: a cursor that `Stands` at a field hands it out and goes to
  the next one that is read. The lemmas on pairs (`FirstOfPair`, `PastPair`) say the
  same of an index with its value. The lemmas on sums over finite sets that
  `VectorSum` and `SparseOps` need are here too; what would be an induction over
  the set is shown from a smallest set that is a counterexample (`SmallestSet`).
  Assumption: `MaxTok` is a positive number.
- `TagCloud_proofs`. `TypeOK` is not inductive: the counting step needs that the
  word in the buffer has at most `MaxTok` letters of the alphabet and that every
  node of the trie is such a word. `Shape` says this, and `Typed == TypeOK /\ Shape`
  is inductive. `HeapSound` is inductive once `Typed` is known. `ForgetsOnlyRoot`
  (the action property `LosesOnlyRoot`) needs `NothingStale` as well: between two
  queries no pointer is left for the next init to overwrite. `ReplyIsMeasured`:
  two passes over one trie add up the same numbers only if both
  visit the same nodes in the same order and see the same counts, although both
  change counts. The history variable `plan` holds what the first pass has added up
  after each node; the invariant (`Planned`, `Measuring`, `Writing`) says that the
  second pass, after k nodes, has the size that `plan` has after k, and that the
  nodes left to visit are those of the rest of `plan`. `CountsEveryWord` is the refinement: the words behind
  the cursor are the word `nextWord` reads and those behind the cursor it leaves
  (`Reading`), a word that is being entered has its letters still to come
  (`Written`), and the counts that the output passes cut one at a time are those that
  `WordBag` cuts at once (`Running`).
- `VectorSum_proofs`. Assumptions: `number2id` is injective on the characters of an
  index, `Atof` yields integers, `NewDigit` is a finite set of numbers. `Typed` is again
  `TypeOK /\ Shape`. `ReplyIsMeasured` uses a plan as above, but the second pass
  may need less than the first measured, since values are divided in between
  (`DividedIsNoLonger`). `ComesInOrder` shows that the order of the passes is a
  strict total order and that each node is the first of those left. `SumsAllVectors`
  is the refinement: while a row is added, the trie and the pairs left of the row are
  the abstract sum (`Adding`); `C->len` is the sum of the squares that were measured,
  and a second reading of a group divides nothing, zeros, or by what is no root
  (`Reading`, with `FirstReading` and `LaterReading`).
- `SparseOps_proofs`, for arguments of any length. The arguments are sequences over
  `Charset`, `Number` yields integers, and 0 for the empty token (`atoi` and `atof`
  do). `Standing`: both cursors stand at fields that are read. `StaysInStep`: in
  `doti` and `dist2i` that field has an even rank, so a value is never taken for an
  index. `FindsLeast` (`LeastCommon`): the list that is behind is searched for the
  current index of the other, and none below it is common (`NoneBelow`, `Searching`,
  `Found`). `ReturnsDotProduct` and `ReturnsSquaredDistance` treat lists and sparse
  vectors alike, as functions from keys (ranks, or indices) to values. The
  invariant (`Merging`) says that what one argument has given comes before what is
  left of the other, and that `dp` is the sum over what has been read of either. In
  the rest loops the product adds nothing; the distance adds what only one
  argument has.
- `Engine_proofs` begins where the library meets the engine, with `ScriptBuffers`:
  `BuffersTyped`, `BuffersHold`, `ScriptIsWhole` and `LosesNoAccepted`, for arguments
  and answers of any length. The strengthening is `Sized`: `script_sz` is at most
  what was allocated, and `result_sz` is equal to it. `Slack` has to cover the fixed
  text of each kind of script (`ScriptBuffersAssumption`: 10 + 2 and 4 + 3 are at
  most 16).

### The engine

- `Threads_proofs`, for any finite number of threads. The thin lock: `LockTyping`,
  `Dequeues` (`DequeueFinds`) and `Excludes` (the refinement `IsMutex`). `LockInv` says
  that the word names whoever is between `js_Lock` and the store or swap that gives the
  lock back (`OwnerHolds`), and that the number in the fat lock is that of the
  threads asleep (`Counted`).
  Requests, for any number of contexts to a thread and any scopes: `RequestInv` says
  that the count is that of the contexts which are in a request whose thread has not
  taken it out
  (`Counts`, `Debits`; `CountedIs` says which these are), and one thread collects at
  a time (`Collectors`). From it follow `Typing` and `Collects` (`CollectsAlone`).
  `ScopeInv` adds what a thread may want or hold (`Claims`), that a listed scope has
  an owner who is in a request or suspended out of one (`Listed`), and that a scope
  with a lock has no owner (`SharedForGood`); `Lists` is `ListedIsOwned`. `Works`
  says that a held scope is the context's own or locked by the thread.
  `WorkAlone` (`WorksAlone`) assumes `~Nests`, that `js_SetProtoOrParent` is not called:
  with it the property is false (`scopes_stolen`). `RequestInv` also holds
  while contexts come and go: `LifeInv` adds that one context launches or lands the
  runtime and where the others are then (`Alone`), and that whoever is about to unpin
  atoms is in a request or waits for one (`Unpinning`). `LandAlone` and `Unpins` are
  the properties `LandsAlone` and `UnpinsAlone` of `JsRuntime`, which `MCThreads` extends.
- `Engine_proofs`, on the engine's data: `MarksExactly` (`MarkingSound`), for every heap, placement of
  its things, roots, generators and size of the C stack. `MarkingInv` says what the
  calls have done: each has marked the slots behind it except for the one it holds,
  only the innermost holds one, and no thing is in two calls (`CallsSound`); what is
  marked has its slots marked, or is put off, or in a call (`NothingMissed`);
  every closed set that has what was asked for has all that is marked
  (`MarksKept`); and a scan goes on until the stack of arenas is empty (`ScansAll`).
  `KeepsWhatIsUsed` (`HeapKeeps`), for finitely many arenas of any size and any
  bound on uses (`GCHeapAssumption`), up to the sweep by which a string loses its
  base. `HeapInv` adds that a thing that the code calls deep and that has the lock bit
  is in the table (`DeepIsListed`), that only objects and mutable strings hold
  anything (`FlatHoldNone`), and that an arena is in the chain once (`ChainSound`). A
  locked mutable string that is not in the table (`Lone`) keeps itself and not its
  base; any other locked thing that is not in the table holds nothing. With these, what the embedding may use is marked or has the
  bit (`MarkedOrLocked`), so the sweep spares it. The new chain and free list are
  sets in the order of the walk, and an order gives each element one place
  (`OrderedIs`): by this the free list has each free thing once.
  `RootsStayScopes` (`RootsAreScopes`), for chunks of any size and a stack of any
  depth (`LocalRootsAssumption`). In `RootsInv` the open scopes lie on the stack one
  behind the other, each from its mark on, which keeps the place of the mark before
  (`Framed`), and hold their values in some order (`Holds`): `js_ForgetLocalRoot` puts
  the last value in the place of the one it takes out. What the walk gives up
  between two entries is the number of boundaries between them
  (`BoundariesBetween`), so it comes to the chunk of the entry (`WalkIs`); and the
  marks are the least set that has the last mark and leads back (`MarksAre`).
  `StringsStayWhole` (`StringsKeep`), for any number of strings and buffers and any
  limits (`StringsAssumption`: what a new string may be is a text, and the value for
  nothing is neither a text nor a string or buffer). `StringsInv` says this of one step
  only: a flat string reads its buffer, a dependent one its base (`Reads`), a buffer
  has one string (`Owned`). That the walk from base to base comes to a flat string
  needs that no string is among its own bases (`Descends`: some rank falls with every
  step); a set that has each string whose base it has then has all of them
  (`EveryString`), and by this the walk ends in one flat base (`FlatBaseIs`), starts
  add up (`StartIs`) and what a string stands for is a part of that base
  (`PartOfFlat`). `js_ConcatStrings` is two steps of the argument: the buffer moves
  (`Moved`), then its string changes hands with it (`Onto`).
  `TableStaysMap` (`TableIsMap`), for any keys and hash codes and tables of every size
  (`TableAssumption`: at least 4 entries, at most as many as there are hash codes). An
  odd number times a number below a power of two is divisible by that power only for
  0 (`OddTimes`), so the probes of a key come to every entry (`ProbesAll`), and
  `HASH2`'s `| 1` is all this needs. In `TableInv` each live entry is reached: what comes
  before it on its key's way is a sentinel, or live and told that others were added
  past it (`Reached`). So a search that comes to a free entry has passed the
  places of its key (`Search`), a sentinel may be taken (`AddedKeeps`), and an entry
  that was not told may become free (`WithoutKeeps`). The load factors leave an
  entry free in the old store and in the new one (`RoomAfter`); while entries are
  moved, the new store has the keys below `nextEntry` and no sentinel (`Moving`).

- `PropertyTree_proofs`, for any number of nodes and chunks and any size of a chunk
  (`TreeAssumption`: a chunk has room for two), is the algebra of the shared tree.
  `Healthy` says that a node is among the kids of its parent and nowhere else, that
  chunks are in one list, full up to the last kid, and that nothing hangs on a free
  node. Within an operation this is not so, and `Linked(t, loose, spare)` says what is
  left of it while the nodes in `loose` have no parent's list and the chunks in
  `spare` are in no list: a kid leaves (`KidDetached`) and comes back
  (`KidAttached`, `KidRaised`), possibly into the chunk it left, and between two
  slots of that chunk only those behind the slot count (`Masked`, `Moving`). A
  single kid always finds a gap or the chunk its parent's removal gave back, so the
  sweep allocates nothing (`Hanging`, `Lifted`). `Rooting` says that the parents have no
  cycle, by some rank that falls; what holds of 0 and of a node whenever of its
  parent holds of all (`LineInduction`), which stands for the induction along a
  line. A sweep takes nodes out of the lines and leaves their order as it was
  (`SweptTo`), whatever the order of addresses.
- `ScopeProperties_proofs`, for any number of scopes, ids, attributes and
  threshold of a table (`PropertyAssumption`), beside allocations that fail:
  `TreeStaysSound` (`TreeSound`). `TreeSound` is not inductive: what a call that fails or
  forks leaves behind depends on what every other scope and every line may hold.
  `PropertiesInv` adds that lines have no cycles and that formal parameters come
  before other properties on them (`Usable`), and that each scope `Fits` the tree: what
  it maps is on its line under its own id (`Mapping`), an id is on a line once but
  for parameters (`Unique`), what is on a line without a deletion from the middle is
  mapped (`Covered`), counted (`Counted`), and each owned slot is one property's
  (`Slotted`). Within a call that overwrites, all of this is true without the id in
  question (`Fits(t, s, H)`): it leaves (`Departed`), the line is forked
  (`Forking`), a slot and a node are got, and it comes back anew or, if one of these
  fails, as it was (`EntryOf`). A fork that fails half-way has left the scope as it
  was or has torn it (`TornBy`).
  `ScopesStayMaps` (`ScopesAreMaps`) is the refinement of `PropertyMaps`. What a scope
  lists is read off its line node by node, with a look at the table where one was
  deleted; what it maps is a matter of the search. Between them stands `Told`, the
  line from the root with the last property of each id in a set. A scope of which
  no table names the first of two duplicates (`Latest`) lists what it is told of the
  ids it maps (`PropertiesTold`), and to leave an id out of the set is to leave its
  properties out of the sequence (`ToldWithout`). So a call is followed on `Contents`:
  while `id` is overwritten the scope still has what was there without it, and the
  old property can be brought back at its place or as the last one (`Recalls`); a
  fork half-way up has told as much as the line it copies (`Retold`); and a call ends
  with what is promised or in a torn scope (`Meets`). The other scopes have lines
  that a call only shares (`ContentsGrown`), and a sweep takes out what was not
  listed (`SweptListed`). The sequences are handled by one step of their recursion at
  a time, along a line by `LineInduction`. The three theorems assume `Anomalies = {}`, that
  behaviours end (`Usual`) where the code goes wrong in one of the two known ways
  (`Torn`, the fork that fails half-way, and `MapsFirstDuplicate`, section 5), as they
  do in the run `engine`; that a root entry without a node is never read
  (`fault = "crash"`) is a guard of each call.

### What is only model-checked

Liveness (`CallReturns`, `UnlockReturns`, `Settles`, `DrainEnds`, `SharingDone`) is
beyond the prover. So are `RegExp`, `Patterns`, `Emitter` and `Statements`, which
declare `RECURSIVE` operators or compare with recursive meanings
(`MatchesAsMeant`, `RunsAsWritten`).

In the other direction, `SparseOps!TypeOK`, `VectorSum!TypeOK`,
`JsRuntime!LifeTypeOK`, `SparseReference!InStep`, `Engine_proofs!TypeOK` and
`ScopeProperties_proofs!PropertiesInv` are proved and in no run.
