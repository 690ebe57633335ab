# A TLA+ development of icfp-um

icfp-um runs programs for the universal machine of the ICFP 2006 contest on Win32 by compiling them to x86 code, one
array at a time, while they run. Programs may modify the array they execute, load another array over it, and allocate
and abandon arrays, all of which has to stay invisible behind the generated code. This directory models the virtual
machine of the program (`context.cpp`), down to the x86 instructions it emits, its memory manager, and the smaller parts
around them (`main`, the scroll reader, the exceptions, the path and command line helpers), checks them with TLC, and
proves with TLAPS that the machine is the universal machine it promises to be but for two steps the code gets wrong, that
it stays sound when memory runs out, and the safety of the memory manager, of code generation, of the scroll reader, of the
helpers for paths and command lines and of the exceptions.

## 1. The system

| Component | State | Operations | Interacts with |
|---|---|---|---|
| `context` (`context.cpp`, `context.h`) | `_registers`, `_arrays`, `_array0Source`, `_minEmptyArrayIndex`; the locals of `run()` (`arrays`, `jumpTable`, `resumeAt`, `eaxValue`, the return code and its two values) | `run`, `codeFor`, `codeForOOBStub`, `generateNativeCode`, `fingerPositionFor`, `allocation`, `abandonment`, `output`, `input`, `loadProgram` | enters native code with pointers in `esi`, `edi`, `ebp`; native code calls back with a request in `eax`, `ebx`, `ecx` and a return address; both write the same registers, arrays and code |
| `platter` | a 32 bit word | `decode`, reading from a stream | `codeFor` |
| `array` | size, dirty flag, platters, owned `nativeCode` | `create`, `clone`, `destroy`, `dirty` | memory manager; native code writes its platters and its flags directly |
| `nativeCode`, `jumpTable` | bytes of code, one code address per platter | `create`, `destroy`, `address` | memory manager; native code overwrites native code |
| `memoryManager` | blocks of executable memory, a free list per chunk size | `alloc`, `release` | Win32 `VirtualAlloc`, `VirtualFree` |
| `scrollReader` | none | `readLegacy` | an input stream, `array::create` |
| `utils` | none | `ensurePathExists`, `quoteAsCommandComponent`, `systemErrorText`, `getDirectory` | Win32 file system, shared with other processes |
| `exceptions` | a wide message; in `systemError` an error code and a context message; the narrow message `what` has made | construction, setters, `what` | Win32 `FormatMessage` |
| `main` | the size it took of a file | set-up, exit code | all of the above; a file others may change |

There is one thread. What is hard in the machine is not concurrency but that two programs, `run()` and the code it has
generated, take turns on shared state, each with its own copies of pointers to it:

* *Staleness*: `run()` caches `&_arrays[0]`, the jump table and the address to resume at across requests that may move
  the vector, free the code block, or replace array 0.
* *Ownership*: a block of native code is owned by exactly one array and is moved between arrays by `loadProgram` (into
  array 0, and back to the array it came from), never copied, while arrays are abandoned and indices reused.
* *Self-modification*: amending array 0 overwrites the platter's code with a stub of seven bytes which asks for a
  compilation; the return address of that stub is all there is to find out where execution was.
* *Half-done operators*: an allocation or an input returns to `run()` in the middle of its code, and ends after it.
* *Boundaries*: the last platter, a program of one platter or none, the end of the vector, the end of the input.
* *Bytes*: jumps inside emitted code skip a number of bytes counted by hand, a stub of seven bytes goes over code of any
  length in two writes, and the size of a block is computed by one loop and used up by another.
* *Failures*: any allocation may fail, and `loadProgram` and `generateNativeCode` destroy what there was first.

Around the machine, `main` and `ensurePathExists` use a file system that changes between their calls, and
`systemError` keeps a message that was computed from state its setters change.

What makes each component correct:

* `context`: observably the universal machine (section 4); native code always that of the current platters; no block
  of code leaked, shared or freed early; the smallest free index is returned; requests for what is not there are
  exceptions.
* `array`, `nativeCode`, `jumpTable`: one cell of code and one jump table entry per platter, code destroyed with its
  owner only.
* `memoryManager`: live allocations are disjoint, of the size asked for, and come from a list of their size; a release
  makes the memory available again. A release of a big chunk may throw, and a block that cannot be recorded stays mapped.
* `scrollReader`: an array of the words of the file, or an exception and no array.
* generated code: it does what the operator does, the processor is never in the middle of an instruction, and a stub
  stays inside its platter.
* `utils`: the directory is there on return, a quoted string reads back unchanged, and the functions return. Each of these has
  exceptions in the code (section 5), and the properties that hold name them.
* `exceptions`: the message is about the code and the context the exception has now.

The hazards, each at its line and with the properties that watch it, are in `PROJECT.json`.

## 2. Modules

| Module | What it is |
|---|---|
| `Platter` | words, `platter::decode` field by field, register arithmetic; the widths are constants |
| `Context` | class `context` with its arrays, code blocks and jump tables: the state machine and its properties |
| `UniversalMachine` | the promise: an interpreter in which every operator is one step |
| `ContextRefinement` | the refinement mapping from `Context` to `UniversalMachine`, and the restriction under which it holds |
| `Assembler`, `MCContext` | words from operators, and the families of programs TLC runs |
| `ContextFailures`, `MCContextFailures` | `Context` with a failure of every allocation its requests make |
| `CodeGen` | `codeFor`: the instructions of each platter, their lengths and what they are about |
| `NativeMachine`, `MCNativeMachine` | the bytes of array 0's code, the processor that executes them, the call in `run()`; implements `Context` |
| `Generation` | the two loops of `generateNativeCode` and the search of the jump table, over addresses |
| `GenerationProofs` | the theorems about `Generation` |
| `ScrollLoading` | `main` and `scrollReader::readLegacy` on a file that changes |
| `SystemError` | `exceptions::base` and `systemError` |
| `PathCreation` | `ensurePathExists` on a file system that changes |
| `CommandLine` | `quoteAsCommandComponent`, and how a command line is read back |
| `MCSystemError`, `MCPathCreation`, `MCCommandLine` | the inputs of the three modules above for TLC |
| `MCAlgorithms` | `Generation` and the four modules after it for TLC: in each behaviour one of them runs, on any of its inputs, and the others wait |
| `ContextProofs` | the theorems about `Context` |
| `ContextRefinementProofs` | coherence of the code and of linked copies under `Spec`, and the refinement of `UniversalMachine` under `SafeSpec` |
| `ContextFailuresProofs` | the theorems about `FailingSpec` |
| `NativeMachineProofs` | the theorems about `CodeGen` and `NativeMachine` |
| `AlgorithmsProofs` | the theorems about `ScrollLoading`, `CommandLine`, `PathCreation` and `SystemError` |
| `SequenceFacts` | inductions over sets of numbers, recursive functions and sequences, for the two above |
| `Memory` | addresses as a region and an offset, and what it means that two extents are apart |
| `MemoryManager` | class `memoryManager`: blocks, chunks, free lists, big chunks |
| `MCMemoryManager` | a block of eight bytes for TLC |
| `MemoryManagerProofs` | the theorems about `MemoryManager` |

A few operators (`KeptSource`, `HeadKept`, ...) stand before the definition they are a wrong variant of. Nothing uses
them; `PROJECT.json` says which property fails when one takes the place of the right definition.

### How Context corresponds to the code

*State.* The variables are the members of `context` and the locals of `run()`, under their names. `arrays` maps the
allocated indices to records of size, dirty flag, platters and code pointer; an index below `arraysSize` outside its
domain is a null entry of the vector. `capacity` stands for the buffer of the vector, so a pointer to the first entry is
stale exactly when it differs from it. `nativeCodes` maps the addresses of live blocks to their contents, so that a
pointer to a freed block is an address outside its domain, and an address may be handed out again.

*Native code.* A block has a cell per platter: the word that was compiled, or `Stub`. The instruction pointer and the
return addresses are triples of block, platter and offset in the platter's code. `codeFor` emits the platters in order
and at least seven bytes for each, so addresses inside a block are ordered as pairs of platter and offset, which is what
`fingerPositionFor` needs. (An orthography is exactly seven bytes long, so the return address of a stub over it is the
first byte of the next platter; `lower_bound` then stops at the same entry as for an address just before it. That the
order of the pairs and the order of the bytes agree is what `FingerPositionFound` of `Generation` proves.) Only
three offsets occur besides 0: the return addresses of allocation, input and the stub.

*Actions.* `Run` is `run()` before its loop. Every operator is an action of `Native`, guarded by the cell under the
instruction pointer; an operator that asks for something ends in a request, and the two that store `eax` afterwards
have a second action. `OutOfBoundStub` and `RecompileStub` are the two stubs. `Handler` has one action per request
that is served and one per exception or undefined outcome; each is the whole of the handler, including the refresh of
the locals that follows the call in `run()`'s switch.

*Undefined outcomes.* Where native code dereferences an index that is not checked, divides by zero, jumps past the jump
table, or runs in freed memory, the model stops with status `undefined` or `trapped`.

*Failures.* `ContextFailures` adds three actions, one per request that allocates (the compilations, `allocation`,
`loadProgram`), each with every allocation in it that may be the one that fails, in the order of the code. What was done
before is kept as it is: the exception passes through `run()` to `main`, which prints it. (`run` declares the exceptions
it throws; the compiler the project is for does not enforce such declarations.)

### How the generated code corresponds to the code

`CodeGen` translates `codeFor` case by case into sequences of instructions. An instruction is a record with the number
of bytes that are emitted for it; a byte is a pair of the instruction and its position in it, so that bytes of different
instructions differ and nothing else about an encoding matters. `NativeMachine` has the block of array 0 as a sequence of
such bytes, fetches an instruction only if all its bytes are in place, and has one action per instruction. The stub is
written by two of them, four bytes each, overlapping by one as in the code. Native code returns to `run()` with
`pop edx; call edx` and is resumed with `call ecx`, on a stack that the model keeps.

`Context` steps by platters. The refinement keeps, in `platterStart`, what `Context` sees of the state as it was when the
processor was last at the first byte of a platter, entered or left native code; at those moments the mapped variables
change, and each change has to be one of `Context`'s actions `Native` or `RunRecompile`, or the answer to a request.
Byte addresses map to platters and offsets through the jump table. Requests that do not touch the code of array 0 are
answered with any of a few values; halting, loading and abandoning end the behaviour, as what they do is `Context`'s.

`Generation` has a step for each turn of the two loops, with the code lengths as a parameter, so that it can be proved for
all lengths; `MCAlgorithms` takes the lengths from `CodeGen` and asserts that every word's code has room for a stub, the
assumption of the proofs.

### How the other modules correspond to the code

`ScrollLoading`: one step per look at the file and per statement of `readLegacy`. `istream::read` takes as many steps as its
stream fetches pieces (`Fetch`), each from the file as it is then, until it has what it was asked for (`ReadEnds`) or there is no
more (`ReadFails`). `Touch` is another process that replaces, extends, cuts or removes the file at any moment before it has been
read, also between two fetches. `sources` remembers what the file was whenever bytes were fetched. A file is the sequence of its
bytes, memory is platters of four bytes in the order of the machine, and the swap of the bytes is a step. What `run()` does is `Context`.

`SystemError`: an action per setter, with `updateMsg`, `base::msg` and `clean_what` inside it, one for `base::msg` itself, which is
public, a copy, and `what()`. `custom` remembers that the wide message was given by itself. Messages are sequences of characters, and `what()` is computed index by index, so that the terminator and its place are part of the
model. Which codes the system has a text for, in two languages, is a constant.

`PathCreation`: a turn of the loop is a step on one component, which is what lies between `i` and `j`. The file system is a
set of directories and a set of files; another process creates directories between two turns. How `CreateDirectoryW`
resolves dots and which error it gives is external.

`CommandLine`: one step per quote that is escaped, on a string of bounded length (`wstring::max_size`). `ReadBackAs` is the
external rule by which a program splits its command line, at spaces and tabs outside quotes; it says that there is one
component, and what it is.

### How MemoryManager corresponds to the code

An address is a region, the base of what `VirtualAlloc` returned, and an offset; regions never overlap. `regions` maps
what is mapped to its size, `blocks` is `_blocks` (with the chunk size of each block, which the code does not record and
only the properties use), `allChunks` is `_allChunks`. `words` is the memory the manager itself uses, the first word of
every chunk: a link while the chunk is free (`_freeChunk`), the index of its list while it is handed out
(`_allocedChunk`); a chunk size stands for the index. `live` is what callers hold: each pointer with the bytes its owner
uses; that a pointer is handed out a second time would be remembered by `outcome`. The callers compute that number in a `size_t` and `alloc` adds a header to it, so `ChunkBytes` takes both modulo
the word size. There is an action for each path through `alloc` (the list has a chunk, the list is empty, a big chunk,
no memory, no room to record a block that has been mapped), for each through `release`, and for the destructor. When
`VirtualAlloc` fails nothing has changed yet; when `_blocks.push_back` does, the new block stays mapped (`BlockNotRecorded`).

`release` hands `VirtualFree` the pointer of the caller instead of the base of the region. The documentation of the
function asks for the base; an implementation that rounds down to a page accepts it, as the test that releases a big
chunk expects (`test/memoryManager.cpp`). `ReleaseBig` and `ReleaseBigThrows` are the two outcomes.

*External.* `VirtualAlloc` and `VirtualFree`, the growth of `std::vector` (`Grown`, the policy of the MS library) and the streams.

## 3. Runs

Deadlock is not checked: programs and functions end, and a destroyed manager does nothing.

| Run | Specification | Checks |
|---|---|---|
| `boot` | `FailingSpec` | type and ownership invariants, fresh locals, the source link, the platter a recompilation restarts; that code stays that of the platters, and linked copies agree, but for one step each; what survives a failed allocation anywhere: the index search, the other arrays |
| `machine` | `SafeSpec` | code is coherent with the platters, refinement of `UniversalMachine`, operator by operator and over loads of shared code, the finger position, the index search and the inductive invariant of the proofs |
| `straight_line` | `FairSpec` | programs without jumps that amend themselves end, or amend their last platter from the one before it for ever |
| `native` | `Spec` of `NativeMachine` | jumps and returns land on whole instructions, code is whole where a platter begins, each platter implements `Context`'s action |
| `chunks` | `Spec` of `MemoryManager` | memory apart, the manager's words out of reach, no chunk lost, the inductive invariant |
| `algorithms` | `PartsSpec` | `Generation`: the block is filled exactly, stubs stay apart, the search finds the platter, the inductive invariant; `ScrollLoading`: each byte that is executed was in the file, in its place, an untouched file is executed whole, and no array is left behind; `SystemError`: the narrow message follows the code and the context; `PathCreation`: parents first, and the directory is there on return unless a file is; `CommandLine`: for which strings the result is read back unchanged, and that the loop loses nothing |
| `last_platter` | `Spec` | violated: the stub in the last platter restarts the platter before |
| `stale_give_back` | `Spec` | violated: code given back to an array whose platters it was not compiled from |
| `double_abandonment` | `Spec` | violated: no exception for an array abandoned twice |
| `wrapped_size` | `Spec` of `MemoryManager` | violated: an array whose size in bytes wraps, or wraps with the header, gets too small a chunk |
| `unterminated_what` | `ErrorSpec` | violated: the last character of the buffer is not written and the terminator is behind it |
| `endless_quoting` | `FairQuotingSpec` | violated: a string with a quote is never finished |

*Programs.* The `boot` family is a loader written for the machine itself. It allocates two arrays of three and two
platters, fills them with words that the input selects from a vocabulary of eight (load either array, jump, amend array
0 or 1, abandon either array, allocate), and loads the first. So the input enumerates every pair of programs over the
vocabulary, from two initial states rather than hundreds of thousands, and the loader exercises input, allocation and
amendment on the way. Two more scrolls are the empty one and the single platter that amends itself. The second family of `machine`
is every sequence of three words out of nineteen after a prologue that gives the registers small values, for two values
of one of them; `NotAnd` is in it only as the first word, and for one value, because what follows it works with words near the largest, and
TLC looks for its result among all words of the width. The `straight_line` family amends platters behind, at and ahead of the instruction pointer, the first and
the last included, from each of its three free platters, or loads a new array after one such amendment.

*Bounds.* `RegisterCount`, `ValueCount` and `WordBits` scale the word down (8, 64, 13 bits); the layout of the fields is kept and the proofs are
for any widths. `MaxArrays` (4, 5) lets every program without a jump allocate all it asks for, and reaches the second growth
of the vector and the reuse of an index after its array was abandoned; it stops only the loops that allocate for ever. `MaxArraySize` is at least the largest size asked for. `CodeIds` has three addresses, one more than the
arrays that can own code at once, so that a generated block may get a freed address or another one; they are
symmetric. `MaxOutput` bounds output: the operator programs of `machine` cannot reach it without looping.

`chunks` has blocks of eight bytes, a header of one and chunks of two, four and eight, so that a block has four, two or
one chunks: a list with a middle, a list of a first and a last, a list that is empty at once. Two regions let two blocks
of one size share a list in every order of releases, and blocks of two sizes, or a block and a big chunk, live side by
side. The requests lie on either side of where the header makes the next size necessary (1 and 2, 7
and 8), and two of them, 2 and 3, are served by chunks of one size.

`boot` has the word that loads array 2 in the register that amendments store from, `machine` the jump back to the amended
platter.
`native` has, as first platter, every operator over every combination of registers that
matters to it (three destinations, four sources), a second platter that jumps back, amends the first platter or calls, and
programs of three platters whose middle one amends the first before the last jumps to it; register values are chosen so
that both branches of each test are taken, a stub goes over every operator, and the word amended in is shorter or longer
than what it replaces.

In `algorithms`, `Generation` has every sequence of up to three words with one word for each length of code there is
(`LengthsSampled` asserts that none is missing), so every pair of lengths and the last platter. `ScrollLoading` has files
of 0 to 16 bytes in two patterns, whole or cut inside a platter, read in pieces of three and eight bytes, so that a file changes in
the middle of a platter and scrolls of two and three platters are executed; `SizeCount` is 16, so that the longest wraps.
`SystemError` has two codes with a text and four without, in a language that
is not English, and messages one of which is the English text of a code. `PathCreation` has all paths of one or three components over two names, `.`, `..` and the empty one, with and
without a drive. The strings of `CommandLine` are all
those of up to five characters over the quote, the backslash, the space, the tab and a letter; `MaxLength` leaves room for quotes to be escaped
several times over. Two assumptions of `MCAlgorithms` name inputs that are left out, as the code goes wrong on them (section 5): names of one and two characters
(`LongNames`), and texts that do not tell codes apart (`UnambiguousTexts`).

*Restriction.* `SafeSpec` leaves out two steps: a load that gives the code of array 0 back to a source whose platters differ
(`StaleGiveBack`), and a recompilation that restarts before the last platter, where the stub was (`RestartsEarlier`). These are the two
defects of section 5 at the moment they do harm, and nothing else: recompilations of a linked array 0, the loads after them, and
amendments of the last platter are in. Under `Spec` the refinement fails because of either step, and `CodeCoherent` because of the
first. `Spec` itself, and `FailingSpec` which extends it, are unrestricted; `CoherenceKept` and `LinksKept` are checked and proved of them.

*Fairness.* `FairSpec` is weak fairness of the whole next-state relation. `run()` is a loop of one thread that makes a
step whenever it can; the one step that depends on something else is the input, and a stream that is read answers with a
character or with its end. `FairQuotingSpec` is fair to the steps of `CommandLine`, a loop that waits for nothing. No other
specification states fairness.

## 4. The promise

`UniversalMachine` is written from what `context` does, without native code, requests, locals or a vector. Each step
decodes the platter under the finger out of array 0 as it is now. The refinement mapping drops the code; during a
request the abstract finger stays on the platter that asked, and a value in `eax` counts as stored. A step without a
defined outcome takes the abstract machine to `failed`, where nothing more is promised: this is what the documentation
of the machine gives a program that, say, indexes an array that is not there, whether the code throws, traps or carries
on. An exception where the machine has a defined outcome would not refine.

`CodeCoherent` says the same at every instant, of every array that has code: cell for cell, the code is that of the
platter, or there is a stub in array 0, or the array is dirty and will be compiled before it is used.

## 5. Disagreements between the code and its documentation

* `context.cpp:261` leaves the last entry of the jump table out of the search, so that a stub hit in the last platter of
  array 0 restarts the platter before it (`context.cpp:69-71`, `context.h:72-85`). `EarlierPlattersRestart` proves that
  every other platter restarts, and `FingerPosition` what the function returns in each case. When the platter before the last
  is the one that amends it, the two run for ever; in the programs of
  `straight_line` there is no other way to run for ever (`RunEndsOrAmendsLast`).
* `context.cpp:862` takes a clean array 0 for an unmodified one, but compiling it again also makes it clean. The array
  it was loaded from then gets code of other platters (`context.h:51-60`).
* `context.cpp:821` does not throw for an array that was abandoned before (`context.h:118-122`).
* `array.cpp:116` computes the bytes of an array modulo the word size, so an array of 2^30 platters does not hold them
  (`array.h:38`), and so does `memoryManager.cpp:96` when it adds the header.
* `exceptions/systemError.cpp:147` terminates the message one character behind its buffer, and leaves the last character of the
  buffer unwritten (`systemError.h:89-93`).
* `utils.cpp:84` continues the search at the quote it has just escaped, and never returns (`utils.h:26-27`).

Each of these is the property of a violating run. The others the models do as the code does; they are the exceptions that a
property which holds names, or the inputs that an assumption of `MCAlgorithms` leaves out:

* `utils.cpp:70` gives no quotes to the empty argument or for a tab, and `utils.cpp:92` doubles one backslash at the end however many
  there are (`utils.h:21-24`): exactly these strings are not read back (`ReadBackIfWellQuoted`).
* `utils.cpp:159` takes a file for the directory, and returns though none can be created (`utils.h:32-35`, `DirectoryUnlessFile`).
  `utils.cpp:131` takes a name of one character for a drive and does not create it, and `utils.cpp:139` skips names of one and two
  characters and asks for what is in them (`utils.cpp:138`, `LongNames`).
* `exceptions/base.h:75` keeps the narrow message when the wide one stays equal, which in `systemError` does not mean that it is
  still right (`systemError.h:89-93`): it goes wrong when the message has been set by itself (`WhatFollowsSetters`) or two codes
  have the same text (`UnambiguousTexts`).
* `memoryManager.cpp:162` may throw when the block is mapped already, which is then in no `_blocks` (`memoryManager.h:36-39`,
  `BlockNotRecorded`).
* `scrollReader.cpp:25` checks the size it is told, not the scroll (`scrollReader.h:24-25`), so a scroll that has grown to an odd
  length since `main` looked is executed up to the size it had; and for an odd size it throws `invalid_argument` where the comment has
  `runtime_error`.

## 6. Proofs

For all constants that satisfy the named assumptions (register fields fit under the operator number, scrolls are arrays
of words, `MaxArrays` is at most the word size), TLAPS proves of `Spec`:

`Invariance` (`InductiveInvariant`), and from it `TypeCorrect`, `OwnershipOfCode`, `FreshLocals`, `SourceLinked`,
`SmallestEmpty`, `PositionInTable` and `EarlierPlattersRestart`.

None of the properties is inductive by itself. To free a block safely `loadProgram` needs that nobody else owns it
(ownership); to give it back without leaking it needs that the source has none (`SourceLink`); installing it in array 0
needs that it has no stubs, or a stub would be hit in a clean array (`StubsOnlyInDirtyArray0`). Serving any request
needs array 0, which a program may have abandoned: `NothingAfterArray0` says that then the instruction pointer is in
freed code and nothing is requested. The position of a program of one platter would be -1, below the table, if it could
hit its own stub; `SinglePlatterNotRestarted` says why it cannot: it has run past its end, and its only way back is a
jump, which is a platter and has been overwritten.

The argument is in three layers: decoding and arithmetic return registers and words;
each heap operation (generate, destroy, create, give back, install, amend) preserves `Sound`, the
ownership and stub invariants stated over any heap, so that `loadProgram` is a chain of four lemmas through intermediate
heaps; and one lemma per action, over the three parts of the invariant (heap, types, control).

**Coherence and the refinement.** With the same assumptions, `ContextRefinementProofs` proves of `Spec`, with no step left out,
`CoherentCode` (code stays that of the platters until it is given back to a source that differs) and `CopiesAgree` (linked copies agree until
array 0 is compiled again while its source is recorded); and of `SafeSpec` `Refinement`, that `Context` implements `UniversalMachine`.
A step of native code executes a cell, a
step of the machine a platter, so the refinement rests on coherence; and coherence has to survive code that moves between
arrays, so a load needs to know that the platters are the same when it gives code back. `SafeInvariant` adds to `InductiveInvariant`:

* of the heap, that every cell is current (`CellCurrent`). Each heap operation preserves this, once and for any heap, like `Sound`
  in the layer below; giving back does so for a source whose platters are those of array 0.
* of control, what connects a request to the platter that made it: while a request is pending, the platter the abstract
  finger is on decodes to the operator that makes such a request, with the operands in `returned`; and after it has been
  answered, to the one whose register the value in `eaxValue` goes to. Without it nothing says that the second half of an
  operator ends the operator that the first half began, as `run()` may have moved, freed or compiled the code in between.

Then one lemma per action says which step of the machine it is, or that it is a stutter. Both restrictions of `SafeSpec` are
needed: with a restart before the last platter the recompilation is no stutter, and with a stale return of code the heap is not
coherent; `last_platter` and `stale_give_back` are the counterexamples.

**Failures.** Of `FailingSpec`, in which any allocation may fail, `ContextFailuresProofs` proves `OwnershipAfterFailure`,
`SearchAfterFailure`, `SoundAfterFailure`, `ArraysKept` and `PlattersRestartDespiteFailures`. `FailingInvariant` is the invariant of `Spec` until
an allocation fails, and `Wreckage` from then on: no live code is shared, missing or unowned, the one block whose jump
table could not be had is set apart in `leaked`, and every array but array 0 is where it was. A failure in the middle of `loadProgram` is one in
the middle of the chain of heaps above, so the lemmas about each link of it say what it leaves.

Of `MemoryManager`, if no size computation wraps (`NoSizeWraps`; `wrapped_size` shows why that is needed), TLAPS proves
`Invariance`, `MemoryApart` and `WordsSafe`. The free lists make the invariant interesting: that a list
is free of chunks in use, and that taking its head leaves it so, seems to need reachability, which is recursive. It does
not: `ListsLinkFreeChunks` only says that links stay among the free chunks of the size, that no two of them lead to the
same chunk and none to the head, and this each operation preserves by looking at one link. The rest is arithmetic on
multiples of the chunk size (`ChunksApart`) and the header between a chunk and its body. `TypeCorrect` is a part of it.

That no chunk is ever lost (`NoChunkLost`) does need reachability. `ListsReachFreeChunks` states it without recursion: a
set of free chunks that contains the head of the list and the successor of each of its members contains all the free
chunks of the size. Taking a chunk off the list, or putting one on, changes such a set by one member; and a new block is
made when the list is empty, when the empty set is such a set and so no chunk of the size was free. Only for the links of
a new block, and for the walk along the list in the statement of the property, is there an induction, over the numbers:
`SetInduction` is one over a set of numbers, from the least number that is not in it. The walk is never twice at a
chunk and so has come to an end when it has made as many steps as there are chunks (`WalkEnds`).

Of `Generation`, for every array, every size of the stubs and every length of code that is not shorter than the recompile
stub, TLAPS proves `Invariance`, and from it `BlockLargeEnough`, `StubsApart` and `PlatterFound`. The invariant needs the history of
the first loop: `sums` keeps the partial sums, the second loop is at the sum of what it has written (`Emitted`), and that sums
grow by at least a stub (`Counted`) gives everything else without induction over the array, as the first loop carries it
along. `PlatterFound` is what `Context` takes for granted when it orders addresses by platter and offset, and its exception, the
last platter, is the defect of `context.cpp:261` again.

Of `ScrollLoading`, for files of any contents and any width of a `size_t` that is a multiple of four (`LoadingAssumption`), and
whatever other processes do to the file, TLAPS proves `ExecutesFileContents`, `ExecutesWholeScroll` and
`NoArrayForgotten`. `LoadingInvariant` says step by step what is known of the size and of the array (`LoadingState`), and
apart from it what is known while nobody has touched the file (`UntouchedState`); `SwappedPlatter` is the arithmetic of the
bytes.

Of the helpers and the exceptions, `AlgorithmsProofs` proves what the runs check on strings, paths and messages of any length. `Resolved`
and `Reading` are recursive functions, which are written so that something can be proved of them: `FoldExists` says that a function with
a step for every number up to a bound exists, and `IntervalInduction` is an induction over a set of numbers, so that no operator has to be
a parameter.

* `CommandLine`, over any characters that include the three it is about. `NothingLost` says only that there is a place where backslashes have
  been put in; `QuotingInvariant` says that it is the first quote of the argument and that the search stands at it, so that the next turn
  replaces this quote again (`EscapeOnce`). This is why the loop does not end, and why `KeepsEveryCharacter` is about a string that grows
  until `replace` throws, and why what is finished is a string without quotes. `ReadBackExactly` follows how such a string is read:
  `HasRead` describes the reader between two characters by what it has read and what is pending, and `ReadPlain` carries that across a
  stretch without quotes; the quotes at both ends are read one at a time. It is an equivalence, so that for each of the strings that
  `WellQuoted` leaves out (the empty one, a tab without quotes, two backslashes before the closing quote) it also says how the reading goes wrong.
* `PathCreation`, for `CreatedUnlessFile` and `ParentsExist`. The loop may skip a component, pass one that is there, or create one, while others
  create directories; `PathInvariant` says that it stands at a name that exists, that every name there is lies in a directory there is, and
  that files are only in places the path goes through. A component of three characters leads one name down, `..` one up, and a name up
  exists because the file system hangs together. With the short names that `LongNames` leaves out the loop would skip a component that leads
  somewhere (`utils.cpp:139`).
* `SystemError`, for `WhatFollows`. `base::msg` keeps the narrow message when the wide one stays equal; `ErrorInvariant`
  says what both are about unless the wide one was given by itself, and `UnambiguousTexts` is what is needed for equal wide messages to have
  equal narrow ones. A message with a line
  break is never equal to one of its parts, as it is longer (`LongerThanParts`), and two of them are equal only if their parts are (`SameParts`).

**Native code.** Of `NativeMachine`, for every program, any number of arrays, every width of the words and every answer of
`run()`, `NativeMachineProofs` proves `NativeTypeCorrect`, `StaysOnTheRails` and `CodeStaysWhole`. `NativeAssumption` says that an array's
index and platters are words and that there is an array 0.

The properties say where the processor is and what is in memory, and neither is inductive without what is in the registers: `jmp eax`
lands on a platter because `codeOf` has put an entry of the jump table there, the stub is written over the platter that `eax` points to,
`call edx` returns to `run()` because `pop edx` has taken its address, and with a return code in `eax` that decides where `run()` resumes.
So the code is given types. A *kind* says of `eax`, `ebx` and `edx` what is known (a word, zero, an allocated array, the entry of a
platter, a return code, the address in `run()`); `Fits` is the rule of each instruction, `Lands` that of the jumps, and
`EveryPlatterGenerated` says that `codeFor` emits typed code for every word, case by case. Code typed once can be executed on any data.

`NativeInvariant` has four parts besides the types of the variables and what `platterStart` remembers:

* `Layout`: the jump table holds the sums of the lengths, and the block ends where they say. The lengths are sums of lengths of instructions
  that a recursive function and a fold compute; `SequenceFacts` turns both into facts about each index (`TableFacts`, `BlockFacts`).
* `Tails`: what a stub cannot reach, from the eighth byte of each platter on, and all that follows the last one, is as it was generated.
* the heads, as part of `Control`: each platter is whole or a stub (`HeadsBut`), but between the two instructions that write a stub, when
  the one in `eax` is half written. That this is nowhere else is again said by the kinds (`"half"`).
* `Control`: the processor is at an instruction of a platter, in a stub, or back in `run()` with a return code (`Native`), and the
  address at which `run()` resumes is one at which its answer may be in `eax` (`Resumes`).

A program may amend the platter it is in, so a platter need not be whole while it is executed. It suffices that the rest of it is in its
tail: `Inside` says that the code is whole or the instruction past the seventh byte. This is where the layout that `codeFor` chooses
matters: an amendment writes its stub behind its own first seven bytes, and a request that is answered is made behind them too
(`PlatterCode`). With a single platter there is none to resume before; `NoWayBack` says that it is never executed again after it has
been amended.

The proof follows the processor. One lemma per instruction says what it does to the kinds (`LoadMoves`, ...); `ProcessorSteps` puts them
together: the next instruction of the same code, a platter's entry, `run()`, or half of a stub. `StepsInPlatter`, `JumpsToPlatter`,
`CallsFromPlatter`, `StubGoes`, `StubHeadGoes` and `StubTailGoes` place the result in the block, and `EnterGoes`, `LeaveGoes`, `AnswersGo` and
`RecompileGoes` do the same for `run()`. The return address of a stub over a platter of seven bytes is the first byte of the next
platter, so where `run()` goes on after a recompilation is found with the search of the jump table, as in `Generation`.

Only model-checked:

* the liveness property `RunEndsOrAmendsLast`, as liveness is outside the reach of the prover;
* `ImplementsContext`, that a platter's instructions together do what the action of `Context` does: it compares the results of whole
  runs of instructions, and an instruction at a time there is no action to compare with. The invariant proved here, which says
  which instruction is executed with what, is what such a proof would begin with.

## 7. Not modelled, and the plan

Next:

1. `ImplementsContext` for any program, from `NativeInvariant` with what each platter has done so far.
2. `Context` over the memory manager itself, so that a block's address is that of a chunk.

Left out for good: the Win32 headers and build files; the tests themselves; text formatting of messages, and with it
`invalidArrayIndex`, `invalidOperatorFormat`, `usage` and what `run` prints about an invalid operator; the encoding of
x86 instructions; `getDirectory` and `COMErrorText`, which nothing calls and which keep no state; assignment of exceptions;
and what a processor does after an undefined outcome.
