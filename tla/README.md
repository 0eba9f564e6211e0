# A verification of xnu-uboot-arm32

The repository is an extension of U-Boot that loads an XNU kernel on 32-bit ARM:
`imgx` loads images (kernel, drivers, device tree, or a table of contents of
them), U-Boot's own commands load a ramdisk file, `rdx` adopts it, and
`mach_boot` builds the boot arguments and jumps to the kernel. Everything runs on
the prompt of one thread. What is hard here is therefore not concurrency: it is
the long-lived globals that a sequence of commands, each of which may fail half
way, must keep consistent, a memory that is laid out by arithmetic on one moving
top, and parsers that trust what they read.

Names of actions and variables are those of the C sources; paths below are under
`src/`.

## 1. Inventory

| Part | Source | State | Operations | Talks to |
|---|---|---|---|---|
| memory regions | `main/memory.c` | a `memory_region_t` | `memory_reserve`, save, restore | `mach_boot` |
| image loader | `main/loader.c` | `gKernelMemoryRange`, `gKernelMemoryTop`, the two bases, `gKernelEntryPoint`, `gLoadedDriverImages`, `gRAMDiskRange`, `gHasDeviceTree`, the variable `KernelMemoryTop` | `imgx` (table of contents, Mach-O, device tree commands), `rdx` | decompressors, Mach-O, parsers, device tree; U-Boot's `fileaddr`, `filesize` |
| boot | `main/mach_boot.c` | `kernel_mem`, the boot args in memory | `mach_boot` | reads all of the loader's globals, builds and finalizes the device tree |
| Mach-O mapping | `mach-o/macho.c` | a loader context | init, vmsize, map, entry point; without callers: relocation, symbols, code and data range | the loader, symbol search |
| symbol search | `mach-o/macho_util.c` | none | two binary searches | Mach-O |
| device tree | `device_tree/device_tree.c` | free and allocated lists of nodes and properties, `rootNode`, `DTInfo` | initialize, add child, add property, flatten, finalize | parsers, `mach_boot`, teardown |
| JSDT parser | `main/JS_device_tree.c`, `serialize/jsmn.c` | token array, call stack | tokenize with retries, build | device tree |
| XML parser | `main/XML_device_tree.c`, `serialize/xml_plist.c` | the text, which it cuts; free list of tags; symbols with counts | parse, populate, free | device tree |
| numbers | `main/strol.c` | none | `strtoul` | both parsers |
| decompressors | `compressed/lzss.c`, `compressed/quicklz.c` | ring buffer; third-party | decompress | loader |
| Image3 | `image3/image3.c` | an image in memory | new, reserve a tag, from a buffer, find a tag; without callers | none |

What makes each part hard, and what makes it correct:

- **Loader.** A kernel load tears the old context down before it knows whether the
  new kernel loads, and moves `gKernelMemoryTop` without telling the environment.
  Correct: nothing placed is overwritten; the variable the operator loads ramdisks
  to is the top whenever a kernel is loaded; `gHasDeviceTree` implies a kernel.
- **Boot.** It has four failing exits, some after the list of drivers has been
  freed, all of which finalize the tree and leave the flag. It may be retried.
  Correct: what it tells the kernel is true, and the ranges do not overlap.
- **Mach-O mapping.** The file lies in the memory that is being mapped to, and the
  loops reread their bounds from it. Correct: every segment arrives, the size is
  the size, the entry point is the file's, and the loops end.
- **Device tree.** Blocks whose first slot is a link; counters beside lists; two
  callers of `DT__Finalize`. Correct: counters and tree agree, no slot is lost or
  given out twice, no block freed twice or leaked.
- **Parsers.** JSDT: indices that advance by counts another pass computed; retries.
  XML: a recursion that may fail at any depth and must give back what it holds, a
  text that is written to while it is read. Correct: exactly the well-formed
  documents are loaded, as the tree they describe, and no tag or symbol is lost.
- **LZSS.** A ring whose copies overlap themselves, wrap, and reach into blanks; an
  input that may end anywhere. Correct: what comes out is what the items say.
- **Numbers.** An overflow test before the multiplication. Correct: it is exact.
- **Symbols and relocation.** Halving with a moving base; patches at addresses from
  the file. Correct: found exactly if there; slid exactly where the file says.
- **Image3.** Three sizes kept apart. Correct: tags form a chain, the walk finds the
  first of a type.

## 2. Modules

| Module | Models | Role |
|---|---|---|
| `BootMemory` | ranges, alignment, `memory_reserve`, `ptokv`, `kvtop` | operators |
| `KernelMemory` | nothing concrete | abstract specification: a stack of regions under one top |
| `Loader` | `main/loader.c` | actions of `imgx` and `rdx` |
| `MachBoot` | `main/mach_boot.c`, EXTENDS `Loader` | the composed system and its properties |
| `MachO` | `load_macho`, `mach-o/macho.c` | one load command per step |
| `DeviceTree` | `device_tree/device_tree.c`, its use by parsers and `mach_boot` | pools, tree, flattening |
| `Jsmn` | `serialize/jsmn.c` | the tokenizer |
| `Jsdt` | `main/JS_device_tree.c`, EXTENDS `Jsmn` | retry loop and builder |
| `XmlPlist` | `serialize/xml_plist.c` | the recursive parser as a stack of calls, tags, symbols |
| `XmlDeviceTree` | `main/XML_device_tree.c`, EXTENDS `XmlPlist` | parses, one after another |
| `Lzss` | `compressed/lzss.c` | one flag, item or copied byte per step |
| `Strtoul` | `main/strol.c` | one character per step |
| `MachSymbols` | `mach-o/macho_util.c` | one comparison per step |
| `MachFile` | the rest of `mach-o/macho.c`, EXTENDS `MachSymbols` | a client's calls on a mapped file |
| `Image3` | `image3/image3.c` | a client's calls on an image |
| `MachBootProofs` | | theorems about `Spec` and `OperatorSpec` of `MachBoot`, that it implements `KernelMemory`, and what that gives |
| `MachOProofs`, `DeviceTreeProofs`, `JsdtProofs`, `LzssProofs`, `StrtoulProofs`, `MachFileProofs`, `Image3Proofs` | | theorems about the modules they are named for |
| `MCMachBoot`, `MCMachO`, `MCMachFile`, `MCDeviceTree`, `MCJsdt`, `MCXmlPlist`, `MCLzss`, `MCStrtoul`, `MCImage3` | | instances |

### Loader and MachBoot

Memory is a function from addresses to the kind of content last written there
(`"kernel"`, `"driver"`, `"header"`, a file's signature, ...): that is all the
properties tell apart. A load command is a record of the fields of
`command_macho_t` and of what decompressor and Mach-O loader find in its blob
(`unpacked`, `mappable`, `vmsize`, `span`, `entry_points`); `MachO` models how
those come about. `imgx` is one step that accepts an image and one step per
command of its table of contents; no other command runs in between (`Prompt`).
Each exit of `load_macho_from_command` is an action of its own: `MachoRefused`,
`QLZFails`, `DriverBadInfoOffset`, `DriverNoPlist`, `DriverLoaded`,
`KernelUnmappable`, `KernelLoaded`, `MachoUnsupported`. All but the first contain
`SetupKernelMemory`, with the teardown of the old kernel, as the code does before
it looks at anything else. `mach_boot` is likewise its exits: `BootRefused`,
`BootInfoFails`, `BootDriversFail`, `BootRamdiskFails`, `BootSucceeds`.
`gLoadedDriverImages` is a sequence with the head of the list last.

Two specifications share the actions. In `Spec` any command is typed at any time
with any image, malformed ones included. In `OperatorSpec` images satisfy
`WellFormed` (what the loader relies on without checking: page-aligned load
address, contiguous segments, an entry point inside, blobs that unpack to
`decomp_size`, a compressed kernel of at most 4 times its unloaded form), files go to
`KernelMemoryTop` or to the staging area, and `rdx` is typed once a kernel is loaded,
right after the load of a file or any number of commands later. Three histories say
what `rdx` got: `fresh`, whether a file was loaded to the top and no load or boot
has failed and no kernel was loaded since; `clean`, whether that was so when `rdx`
adopted it; and `adopted`, the bytes it found.

Assumed: `malloc` gives the small driver records; images are staged outside the
modelled memory; addresses stay below `MemEnd`, so that 32-bit sums do not wrap
(`Fits` is a guard of every write and names the bound).

### MachO

Header and load commands take one cell each of a file that is itself in memory.
`for_each_lc` is `InLoop`, which rereads the count, and `NextCommand`, which
rereads the size: if the mapping has cleared a command, the loop stays on it and
uses up its turns; if it has copied other parts of the file over it, what the code
reads is anything, and the model stops in `"undefined"`. An object's only segment is
mapped section by section (`MapObject`, `MapSection`, `SectionsEnd`), and the number
of sections is reread before each. The loader's address for a decompressed file (4
times its length above the target) and the staging area of any other are
`image_address`; `Apart` says that nothing is mapped onto the file there.

### DeviceTree

Nodes are numbered in the order they were taken, a property is the length of its
value, and free lists and block lists are their lengths. The heap has a limited
number of blocks and may run out at any refill. Parsers that go on with a NULL
node stop the model (`"halted"`). `phase` follows a tree from parse to boot,
failed boot, teardown.

### Jsmn and Jsdt

A document is a sequence of lexemes. The tokenizer takes one per step; when the
token array is full it answers `"nomem"` and the caller enlarges the array and
starts over. The builder's recursion is a stack of frames, one per call of
`build_node` or `walk_children`. Memory behind the last token is uninitialized;
when the code reads it the model stops in `"undefined"`. So it does when a comment
that is not closed takes the tokenizer past the end of the text.

### XmlPlist and XmlDeviceTree

A document is a sequence of items, each a text and the tag behind it. `cut` says up
to which item tags have lost their `>`: the parser writes NULs into the text.
`XMLParseNextTag`, `ParseTagList` and `ParseTagKey` call each other; `calls` is the
stack of the latter two, with the list or the string they hold. Tags are numbers
into blocks of `TagsPerBlock`, freed ones form the code's list in the code's order;
a symbol is its string with its count. `malloc` may have no further block of tags.
The same image, or another, is parsed again on the pool the last parse left.

What these modules show of the parser, and a reader of it may not expect: a list
ends at the first tag that means nothing, its end tag or a comment or any other,
without an error; properties, and the elements of an array property, come in
reverse order, while children are turned twice and keep theirs; a text that was
parsed once is cut and never loads again (`LoadsOnce`); an empty array or integer
stops the machine.

### Lzss and Strtoul

In `Lzss` the sizes of a byte and of a match's length are parameters and so are the
ring and the longest match: N and F of the code follow from 256, 16 and 2. A part
of the ring that nothing initializes holds `Unset`. A stream may come with the items it
was made of: `Encodings` says how their bytes follow one another, `Outputs` what they
stand for without a ring, and `StreamsAssumption` that the stream is the beginning of
their encoding. `Strtoul` keeps, as a history,
the number the digits stand for, and multiplies modulo the word. Its characters are
a few digits and letters, enough to tell the bases apart. A text may come with the
numeral it begins with: `IsNumeral` says of blanks, sign, prefix, digits and tail what
makes them one, `ValueOf` what it stands for, and `TextsAssumption` that each text is
made of the parts it comes with.

### MachSymbols, MachFile

Names are numbers in the order of `strcmp`. A client relocates, looks up symbols by
either search and asks for ranges, in any order, on one file; each call is its
loop, one relocation, comparison or segment per step. Memory holds what was added
to each word, so that a word slid twice or in the wrong place shows. A hint is a word,
and `binary_search_toc` takes it for an `int32_t` (`int32_t`): one of 2^31 or more is
negative, and the search reads before the table and ends in `"undefined"`.

### Image3

An image is a function from the offsets where a tag header was written. A client
builds images, takes buffers for images, and walks tags. Where the walk reads a
header nobody wrote, `find` is `"undefined"`; where a buffer is given to `realloc`,
because `image3_from_buffer` leaves `dynamic` as the client's memory had it, the
model stops in `"halted"`.

## 3. Runs

| Run | Result | Shows |
|---|---|---|
| `MCOperator` | pass | `KernelIntact`, `DriversIntact`, `RamdiskIntact`: no command overwrites what is placed, and a ramdisk is the file U-Boot loaded unless a load or a boot failed in between. `RamdiskAligned`. `HandoffLayout`, `HandoffDrivers`, `EntryInKernel`: what the kernel is given is disjoint, inside its first mapping, and true. `ImplementsKernelMemory`: refinement of `KernelMemory`, with the loaded kernel, drivers and ramdisk as the regions |
| `MCAnyOrder` | pass | `TypeOK`, `EnvCurrent`, `BootHasKernel`, `NoPartialTree` for any commands in any order, with malformed images |
| `MCMachO` | pass | `ResultAsSpecified` (the verdict does not depend on where commands stand), `MapExact` (every segment arrives, the rest of memory is untouched), `VmsizeExact`, and `LoadEnds` (the loops end, also on files that clear their own commands) |
| `MCDeviceTree` | pass | `SizeExact` (the memory reserved for the flattened tree is what is written), `PoolExact` (no slot is lost or given out twice), `BlocksReleased` (no block is freed twice, and only blocks of failed parses are lost) |
| `MCJsdt` | pass | `SizesCount` (token sizes count tokens, through retries), `LoadsTheDocument`, `RefusesOnlyMalformed`, `OverrunNeedsOddObject`, `ParseEnds` |
| `MCXmlPlist` | pass | `TagsConserved` (every tag is free or held, through failures at any depth), `SymbolsCounted`, `TreeAsWritten`, `RefusesWithReason`, `LoadsOnce`, `EveryCallEnds` |
| `MCLzss` | pass | `UnpacksWhatWasPacked`, also for inputs that were cut off; `RingMirrors` (the ring is the end of the output, around every wrap) |
| `MCStrtoul` | pass | `ResultExact` (the number read, its negative or, on overflow, the largest word), `ReadsNumeral` (which number a text stands for) |
| `MCMachFile` | pass | `SearchExact` (a name is found exactly if it is there, for any hint that an `int32_t` holds), `RelocatedExactly` (what a call slid, also one that failed), `AnswerExact` (symbols and ranges as the file says), `CallEnds` |
| `MCImage3` | pass | `TagsChained`, `FindExact` (what is found is the first tag of its type, and a walk without one reads a header behind the image) |
| `MCStaleTree` | violation | after a failed boot the flag says a tree is loaded (`loader.c:484`), the tree is gone |
| `MCRamdiskOverlap` | violation | `rdx` after a failed kernel load: the next kernel is placed over the ramdisk |

Disagreements that were seen while modelling and have no run of their own:

- only increments of the top are rounded to pages, so a kernel with an odd load
  address misaligns every ramdisk after it (`main/loader.c:213`);
- a compressed kernel with more zero-filled memory than the factor 4 of
  `main/loader.c:302` allows for clears its own load commands and is reported as
  loaded. `WellFormed` and `Apart` (in `MachO`) exclude these two where the passing
  runs claim more;
- `rdx` takes plain HFS and refuses HFSX (`main/loader.c:683`), while its message wants
  `'H+' or 'HX'`;
- `mach_file_vmsize` adds up segments without the gaps between them
  (`mach-o/macho.c:63`): `VmsizeExact` is claimed of contiguous segments;
- a kernel without a thread command is loaded with an entry point nothing set
  (`mach-o/macho.c:530`): `MapExact` is claimed of those with one;
- teardown does not reach the blocks of a parse that failed
  (`device_tree/device_tree.c:211`): `BlocksReleased` counts them;
- a range is reported as entered when no property was left for it
  (`main/mach_boot.c:133`), when the heap has no room for one more block;
- `is_bad_addr` lets the word right behind a file pass (`mach-o/macho.c:327`):
  `RelocatedExactly` includes it;
- `image3_find_tag` never answers NULL from what is in an image built by
  `image3_reserve_tag`: it reads a header behind the end first, and goes by that
  (`image3/image3.c:109`). `image3_new` allocates its context with the size of a
  pointer (`image3/image3.c:78`);
- a driver without an executable and without a property list is unpacked or copied to
  the top before it is refused (`main/loader.c:388`), and a `mach_boot` that fails has
  put the boot arguments there, while the top has not moved. An `rdx` after it
  adopts what is left of the file there (`main/loader.c:668`): `RamdiskIntact` says
  that the ramdisk is the file only if nothing of the kind happened in between;
- a `mach_boot` that fails for its ramdisk has freed the list of drivers
  (`main/mach_boot.c:305`), and a second one starts the kernel without them: `GiveUp`
  of `KernelMemory` is this case;
- a comment that is not closed takes the JSDT tokenizer past the end of the text
  (`serialize/jsmn.c:165`);
- `binary_search_toc` takes a hint of 2^31 or more for a negative number and reads
  before its table (`mach-o/macho_util.c:19`): `SearchExact` is claimed of the others,
  and nothing in the sources calls it.

### Bounds

- `MCOperator`, `MCAnyOrder`: 12 to 14 addresses, a page of 2, a section of 8, a
  pad of 1. A kernel, two drivers and a ramdisk fit and so does a second kernel
  after the first; addresses differ from their aligned values on both sides.
  `MaxTurns` commands at the prompt (5 or 6), each `imgx` of up to four load
  commands: enough for load, fail, reload, adopt, failed boot, boot, and for a file
  that a driver or a boot that fails writes over before it is adopted.
- `MCMachO`: up to two segments and a thread in every order, sizes in the file
  below, at and above those in memory, gaps, segments that reach the file, both
  decompressed and staged, staging right before and behind the kernel, objects of
  two sections, kernels with two threads.
- `MCDeviceTree`: 2 usable slots a block, 7 blocks, 4 nodes, 6 properties: several
  refills in one tree, exhaustion during a parse, during the memory map and while
  ranges are entered.
- `MCJsdt`: well-formed documents of up to three levels and every document one
  lexeme away from them (all replacements for small ones, the structural ones for
  the others); 3 tokens at first and 4 more a retry, so that documents take up to
  four attempts.
- `MCXmlPlist`: well-formed documents of up to three levels with every kind of
  value, and every document one item away from a few of them; three blocks of three
  tags, so that tags run out at every depth; two parses, the second of the same text
  or another, on a free list in every order the first left.
- `MCLzss`: bytes of two bits, a ring of 8, matches of 2 and 3; all streams of up to
  three items over literals and the shortest and longest distances, cut at every
  byte, streams of five items that go round the ring, and all streams of up to five
  bytes, whatever they were made of.
- `MCStrtoul`: a largest word of 31, numerals of up to three digits (six in base 2):
  below, at and above the limit in every base, with every head, prefix and tail.
- `MCMachFile`: files of three words inside a memory of eight, words of five bits
  and a bias of 29, so that a sum wraps; relocations that differ from a plain one in
  one respect, pairs and triples of them in two sections; sorted tables of up to
  five names with repetitions; hints in the table, behind its end and, as an `int32_t`,
  before its beginning; two calls in a row.
- `MCImage3`: up to three tags of three types, six calls, buffers whose lengths end
  before, at and behind their size.

Deadlock is not checked: the system stops when the kernel runs, when the bound on
commands is reached, or when a parse has ended.

### Fairness

`MachO` and `Jsdt` state `WF_vars(Next)`: each is a loop in the only thread, and nothing
interrupts it. In `XmlDeviceTree` and `MachFile` only the steps of a call that was begun
are fair; the client need not call. The other modules state none and claim no
liveness: the prompt of `MachBoot` and `DeviceTree` is driven by an operator who owes
nothing, `Lzss` and `Strtoul` advance in a finite input with every step, and the walk of
`Image3` stays where it is for ever at a tag without a length, which only a buffer
from elsewhere can have.

## 4. Proofs

### MachBoot

For every value of the constants that satisfies `LayoutAssumption`,
`AlignmentAssumption` (DRAM starts on a page and a section is whole pages),
`CommandsAssumption`, `ImagesAssumption` and `BootAssumption`: any memory, page and
pad, any set of commands, any number of turns.

- `TypeCorrect`: `Spec => []TypeOK`, one lemma per command, one step per exit.
- `RelianceCorrect`: `Spec => []Reliance`, where `Reliance` is
  `TypeOK /\ EnvCurrent /\ BootHasKernel /\ NoPartialTree`. `EnvCurrent` is
  inductive only because a failing kernel load has already forgotten the kernel
  (`TornDown`), and a failing driver load has not moved the top; `BootHasKernel`
  because a teardown forgets kernel and flag together. `EnvIsTop`,
  `FlagNeedsKernel` and `TreeWhole` are its parts.
- `LayoutCorrect`: `OperatorSpec => []Layout`. `KernelIntact` is not
  inductive: that a write misses the kernel follows from where everything else is.
  `Layout` adds that placed ranges end at or below the top (`BelowTop`) and lie
  apart (`Apart`), so that loads, which write at or above the top, and
  `mach_boot`, which writes above it or into the pads of drivers, miss them; that
  the commands still to be processed are well formed; that without a kernel nothing
  is placed; and that a file that is `fresh` and still on the top is what was loaded
  (`FreshFile`), since only commands that also move the top have written there: it is
  what makes a ramdisk `clean` at the moment `rdx` adopts it.
  `KernelStaysIntact`, `DriversStayIntact` and `RamdiskStaysIntact` follow.
- `HandoverCorrect`: `OperatorSpec => []Handover`, which is `Layout` with
  `ReadyToBoot` and `AfterJump`. What `mach_boot` hands over it computes from globals
  that were set many commands earlier. `ReadyToBoot` keeps what those decided: that
  the entry point translates to an address of the kernel (`EntryMapped`), that the
  top is on a page (`TopAligned`, by `AlignmentAssumption` and because every increment
  is rounded), that a driver's property list starts inside it (`InfoInside`), and
  that the ramdisk is aligned. `AfterJump` says the three hand-off properties of what
  was handed over, and that nothing is left to process then. One lemma
  follows the reservations of `mach_boot` from the drivers' pads to the end of the
  tree. `RamdiskStaysAligned`, `HandoffIsLaidOut`, `HandoffDriversIntact` and
  `JumpsIntoKernel` follow.
- `LoaderIsStack`: `OperatorSpec => ImplementsKernelMemory`. Given
  `Layout` before and after it, a driver or ramdisk that is accepted is a `Place`, a
  kernel load that succeeds or fails a `Restart` (a failed one leaves nothing
  placed), a failed boot that frees the drivers a `GiveUp`, and everything else a
  stutter.
- `StackIsStacked`: `KM!Spec => []KM!Stacked`: what anything that implements
  `KernelMemory` may rely on, regions that share no address and end below the top. With
  `LoaderIsStack` it gives `LoaderKeepsStack`: so do the kernel, the drivers and the
  ramdisk an operator has placed.

### MachO

`LoadingCorrect`: `Spec => []Loading`, for every set of files of any number of commands
that `FilesAssumption` admits (contents lie inside the file, and what is mapped inside
the memory), wherever an uncompressed one is staged. The loops read their bounds and their commands
back from memory, so none of the three properties is inductive, and the invariant is
in two parts. While the file is intact (`FileIn`), turn `XXi` reads command `XXi + 1`
(`AtCommand`), and what has been collected is what the first `XXi` commands say: the
symbol table and the sum (`SizedUpto`), that no command so far is one the loader
refuses (`AllowedUpto`), and memory and entry point (`MappedUpto`, for objects also by
section). And a file that is `Apart` stays intact, because nothing is mapped onto it.
`ResultIsSpecified`, `MappingIsExact` and `SizeIsExact` follow. Their hypotheses are
those of the properties: the first two speak of files that are `Apart` (and the second
of segments that do not overlap), the third of contiguous segments; section 3 says
what the code does without them.

### DeviceTree

`TreeCorrect`: `Spec => []Tree`, for blocks of any size (`PoolAssumption`) and any number
of them. `Tree` says that the pool counts (`Exact`: what is taken and what is free are
all slots of the blocks held), that the live blocks are those held and those `left`
by failed parses, and that the parser's `path` and the node of the memory map are
nodes of the tree. The last part is needed because both outlive calls that refill and
reset the pool. Each operation of `device_tree.c` has a lemma that it `Keeps` all
this, whether the heap gives a block or not; `PoolStaysExact` and
`BlocksAreReleased` follow.

`SizeIsExact`: `Spec => []SizeExact`, for trees of any shape and size, values of any
length and a heap that runs out anywhere. `FlattenNodes` is recursive and adds up with
folds, so it is first shown that a function that fits these equations exists and is the
only one (`FoldExists`, `FoldUnique`, `WrittenExists`, `WrittenIs`; the inductions are
over the smallest number or set that would fail), that a sum does not depend on the
order (`SumStep`), and that each property adds its header and padded value
(`OwnAppend`). `FlattenIsTotal` then says that the recursion comes to every node once:
parents are numbered before children, and what the first `n` nodes take up plus what
hangs below them is the same for every `n`. The strengthening (`Measured`) is that,
until the loader stops on a NULL node, the tree is `Sized`: parents come first, the
root is the first node if there is one, and the counters of `DTInfo` are the sum.

### Jsmn and Jsdt

`ScanCorrect`: `Spec => []Scanned`, and from it `SizesAreCounts`:
`Spec => []SizesCount`, for documents of any length over the lexemes
(`DocsAssumption`), brackets nested to any depth or not matched at all, and token arrays
of any size. The tokenizer keeps no stack: it searches its tokens for an open one and
counts what it allocates in `toksuper`. `SizesCount` compares that with the text, where a
bracket's match is the first place at which the depth counted from it is zero.
`Scanned` connects the two: tokens are in the order of the document (`InOrder`); every
bracket passed has its token, and the open tokens are those of the brackets not
matched so far (`BracketsKnown`); the depth counted from an unmatched bracket is the
number of brackets unmatched from there on (`DepthCounts`), so that a closing bracket
matches the innermost of them and no other; and each token is counted in the
one it is in (`Counted`), which stays true of the rest when a bracket closes. A retry
starts from no tokens, where all of it holds.

`ParseCorrect`: `Spec => []Parse`, and from it `TreeIsTheDocuments`
(`LoadsTheDocument`), `WellFormedNotRefused` (`RefusesOnlyMalformed`) and
`OverrunIsOdd` (`OverrunNeedsOddObject`): a loaded document is well-formed and its tree
is the one it describes, no well-formed one is refused however many retries it takes,
and a token that was not written is read only for a document without tokens or with an
object that has a key and no value. The format (`WellFormed`, `IsTree`) is stated on the
text alone, with no mention of tokens, sizes or frames. `Parse` says:

- While the tokenizer runs, besides `Scan`, every lexeme passed has a token of its type
  (`Lexed`), and brackets that close close one of their kind (`Paired`); so a
  document is refused only if it is not `Balanced`, and a success leaves tokens
  that are its lexemes (`Ready`).
- While the builder runs there is a token for each frame, nested one in the other from
  the first on, of an object for `build_node` and of the array behind a children key
  for `walk_children` (`Stack`, `Keyed`). The count of a frame is the number of tokens
  in its bracket from the index on, and brackets that were left have none
  (`Counting`): that is why adding up the skips leads to the right token, and why a
  count of zero means that the bracket is at its end. The builder has no other way to
  know. Entries passed are well-formed as far as they were read (`Seen`), and nodes are
  numbered by the objects passed, each with a property per string key passed (`Growing`).
- Or some frame's count is odd (`OddCount`). It goes down by two, never reaches zero, and
  the parse can only end in `"malformed"` or `"undefined"`; that happens only if the
  document has an object with an odd number of keys and values.

Two facts carry the rest. A bracket inside another closes inside it (`Nested`), and so
a token between a bracket and something in it is in that bracket or in one that opens
between (`Nest`). Inductions over positions and tokens are arguments by the least
counterexample (`MinExists`, from the library's theorem that `Nat` is well-founded).

### Image3

`ChainCorrect`: `Spec => []Sound`, under `SizesAssumption`. Of an image built here, tags
lie one behind the other from the header to `full_size` (`Chain`), and the
walk has passed tags of other types only (`Walk`) and never comes past the end.
`TagsStayChained` and `FindIsExact` follow; the latter also says that a walk without the
type asked for stands at `full_size` when it reads what is no tag, and that it does not
answer NULL before it has. Buffers from elsewhere are not claimed to be chains.

### LZSS, numbers, symbols and relocation

- `LzssProofs!LzssTypes` and `RingCorrect`: `Spec => [](TypeOK /\ RingMirrors)` for every
  size of byte, length and threshold whose ring is longer than its longest match,
  and every input. One lemma says what `Put` does to the byte at any distance; the
  rest is that every step puts nothing or one byte.
- `LzssProofs!UnpacksTheItems`: `Spec => []UnpacksWhatWasPacked`, under
  `StreamsAssumption`, for any sequence of items. What the recursive functions of the
  encoding are is shown as for numerals. The invariant (`FollowsItems`) says of every
  moment how many items are behind it: where in the input that is (`EncodedAt`), what
  the flags left in the shift register and the mark above them are (`FlagTaken`,
  `MarkSeen`), and inside a match how much of it is copied; `RingPlace` ties the ring's
  position to the length of the output, so that with `RingMirrors` a match reads the
  bytes its distance back (`MatchMoves`), those it has just written included.
- `StrtoulProofs!OverflowCorrect` and `ResultCorrect`, for every largest word of at least
  16. `OverflowExact` is inductive because a number over the largest word stays
  over it; `LimitExact` is the arithmetic of quotient and remainder, base by base.
- `StrtoulProofs!NumeralsAreRead`: `Spec => []ReadsNumeral`, under `TextsAssumption`: a
  numeral of any length, behind any blanks and whatever follows it, is read as the
  number it stands for. `ValuesAre` shows, over the shortest numeral without one, that
  the recursive function meant by `Values` exists; `NumeralChars` and `PrefixChars` say
  what the code finds at each place of a numeral. The invariant (`ReadUpto`) relates
  the place reached to the part it lies in: the base given until the prefix has been
  seen, the numeral's own behind it, and the value of the digits passed. The 0 of an
  octal numeral is no prefix to the code, which reads it as a digit.
- `MachFileProofs!PivotCorrect` (no comparison reads outside the table, which no run checks
  by itself) and `SearchCorrect`, for every table and name and every hint that an
  `int32_t` holds; with any other hint the second search may end undefined, and nothing
  is claimed of it. `NamesAssumption` keeps tables below a quarter of the words, so that
  their indices and sums fit. The strengthening says that the rest lies inside the table and that, if the table is in order and has
  the name, the rest still holds a place of it.
- `MachFileProofs!AnswersAreExact`: `Spec => []AnswerExact`, under `SegmentsAssumption`.
  `Answered` says what the walk over the segments has seen (`Walked`), so that its
  last step gives the range of the file.
- `MachFileProofs!RelocationIsExact`: `Spec => []RelocatedExactly`, under
  `RelocationsAssumption`. `RelocInv` says that at every moment of a call memory is what
  it was before the call with each of the relocations `Done` so far slid
  (`Slid(Done)`), and that those are all supported; words that several relocations
  name are slid by each of them, modulo the word.

### What is only model-checked

- What the XML parser does: `TagsConserved` and `SymbolsCounted` (`XmlPlist`),
  `TreeAsWritten`, `RefusesWithReason` and `LoadsOnce` (`XmlDeviceTree`). Their
  modules use recursive operators, which the prover does not handle. Where the proofs
  above needed an induction over data, it is over the smallest number or set that
  would fail, for recursive functions and folds only.
- Liveness, because the prover does not do fairness: `LoadEnds`, `ParseEnds` (JSDT),
  `EveryCallEnds` (XML), `CallEnds`.

The prover's translation of `Len` for its SMT solver takes `DOMAIN s = 1 .. n` and
`Len(s) = n` to be equivalent for every value `s`, which is too strong when `s` is a
function on some other domain, as the memories here are. All proofs were therefore
also run with that axiom reduced to sequences, and hold without it.

## 5. Not modelled

- `compressed/quicklz.c` is third-party; `main/hfs_header.h`, `main/boot_args.h`,
  `main/loader.h` and the Makefile declare things.
- `adler32`, `_symtab_find_symbol`, `XMLParseFile`, `XMLGetProperty`, `DT__FindNode`,
  `DT__GetName` and `DT__PrintTree`, which nothing calls; `image3_destroy` and the
  wrappers of `image3_find_tag`; `endptr` of `strtoul`, which every caller leaves NULL.
- What memory holds where the code reads or writes outside what it allocated; a
  model stops there.
- What no property could tell apart here: `iBoot_range` is entered uninitialized
  (`main/mach_boot.c:314`), `range_name` outlives its block (`main/mach_boot.c:144`), a
  copied name is lost when a second `malloc` fails (`main/mach_boot.c:127`), a block's
  link is read after the block was freed (`device_tree/device_tree.c:236`), and
  `node_count` of the XML parser is never initialized.
- Messages, names of images and ranges, the command line, the video fields.
- 32-bit wrap-around of addresses, the end of DRAM, and `malloc` failures other
  than those of the device tree's blocks.
- The strings of device tree properties, which `DT__Finalize` never frees (its own
  comment concedes it).

## 6. Plan

1. (done) `BootMemory`, `Loader`, `MachBoot` with `KernelMemory`; `MachO`;
   `DeviceTree`; `Jsmn`, `Jsdt`; the theorems above.
2. (done) `Lzss`, `Strtoul` with their theorems; `XmlPlist`, `XmlDeviceTree`;
   `MachSymbols`, `MachFile` with the theorems about the searches; `Image3`; comments
   that end nowhere in `Jsmn`; the blocks `DeviceTree` loses.
3. (done) Proofs of `Handover` from `Layout`, and of `MachO`, `DeviceTree`, `Image3`, the
   rest of `MachFile` and the tokenizer of `Jsmn`.
4. (done) Proof that the JSDT parser builds the tree of the document, from the
   tokenizer's invariant.
5. Proofs: `TagsConserved` of the XML parser, whose module would have to say its counts
   without recursive operators.
6. The layout of the flattened device tree, read back as the kernel reads it.
