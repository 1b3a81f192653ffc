# A TLA+ model of libebml

libebml reads and writes EBML, the binary format under Matroska: a tree of
elements, each of them an ID, a coded data size and its data. A master is an
element whose data are elements. The library is sequential and has no threads;
what is hard in it is the state that a long sequence of calls builds up
(positions, sizes, levels, who owns which heap element), arithmetic on unsigned
words, and input that may be damaged or cut off anywhere.

The modules here describe what the code under `src/` does. TLC checks them on
small instances; TLAPS proves the theorems in the `_proofs` modules for every
value of the constants. `PROJECT.json` lists the runs, maps every definition to
the lines it stands for, and lists the hazards and the properties that cover
them.

1. [Inventory](#inventory)
2. [Plan](#plan)
3. [The modules](#the-modules)
4. [The runs](#the-runs)
5. [What is proved](#what-is-proved)
6. [What is only model-checked, and what is not modelled](#what-is-only-model-checked)
7. [Disagreements between code, comments and tests](#disagreements)
8. [Running the checks](#running-the-checks)

## Inventory

Files are under `src/src/` and `src/ebml/`.

| Component | State | Operations | Works with | What is hard | Correct when |
|---|---|---|---|---|---|
| Coding of IDs and sizes (`EbmlElement.cpp` 26-118, `EbmlId.h`) | none | `CodedSizeLength`, `CodedValueLength`, `ReadCodedSizeValue` | everything that reads or writes a head | the all-ones value of each length is reserved; finite and unknown sizes share it | what is written is read |
| Element scan `FindNextElement` (`EbmlElement.cpp` 227-346) | a window of 16 octets, three indices into it, octets read, the caller's level | one call: read an octet, recognise an ID, a size, accept or refuse, shift the window | the stream, the contexts | overlapping candidates; the limit; the level while a candidate is tried | the first acceptable element is found, no octet is lost, the limit holds, the scan ends |
| `FindNextID` (132-225), `EbmlStream` | none | read one head | the stream | the result of a read is not looked at; its rules are not those of the scan | it agrees with the scan on what is at the file pointer |
| `SkipData` (351-409) | the file pointer; a call stack, each call with a context and an element to test | skip a known size, or scan for the end of an unknown one | the scan, the contexts | recursion through the contexts, each call with a scan of its own | whole elements are skipped, it stops at the first that belongs to no context of the chain, and it returns |
| Contexts and callbacks (`EbmlContexts.*`, `EbmlHead.*`, macros of `EbmlElement.h`, `EbmlMaster.h`) | constant tables | look up an ID, a parent, mandatory, unique, default | the scan, masters | global elements are everywhere, levels count from the caller | parameters of the models |
| Reading a master (`EbmlMaster.cpp` 295-429) | a call stack; in each call the element in hand and `MaxSizeToRead`; `UpperEltFound` and `FoundElt` shared by all of them | read a leaf, a master, pass an element up, adopt it, drop it, take the checksum, unwind | the scan, the elements, the heap | elements of upper levels; unknown sizes; unsigned budgets; exceptions | each element has one owner, the right master, the right place |
| A master's children (`EbmlMaster.*`) | `ElementList`, `bChecksumUsed`, `Checksum` | construct, clone, search, insert, remove, sort, clear, `UpdateSize`, `RenderData`, checksum | its children, the filter | the program edits the list between two renderings; the filter leaves elements out | written completely and with the right size; the checksum tells a change |
| Rendering and editing in place (`EbmlElement.cpp` 479-650, `EbmlVoid.*`) | the file; of each element its position, size, size length, whether it is finite | `Render`, `MakeRenderHead`, `ForceSize`, `OverwriteHead`, `OverwriteData`, `VoidMe`, `ReplaceWith`, `WriteHead` | the stream | sizes of sizes; holes that must be filled to the octet | the file can be read, edits touch nothing else |
| Elements with a value (`EbmlUInteger`, `EbmlSInteger`, `EbmlString`, `EbmlUnicodeString`, `EbmlDate`, `EbmlBinary`) | a value, whether it is set, default size, size | set, `UpdateSize`, `RenderData`, `ReadData` | the stream, masters | signs, padding, the shortest size, truncation | a value is read as it was written, or not at all |
| `EbmlFloat` | a double, whether it is set, the precision as size | as above, `SetPrecision` | byte order | a double is narrowed, the octets are swapped by the build | a value is read as it was written, or as the nearest float |
| UTF-8 (`EbmlUnicodeString`, vendored utfcpp) | wide and narrow copies | convert | | cut at NUL | |
| CRC-32 (`EbmlCrc32`) | the register `m_crc`, the checksum `m_crc_final`, whether it is set | `Update`, `FillCRC32`, `CheckCRC`, `AddElementCRC32`, `CheckElementCRC32`, `Finalize`, `ForceCrc32`, render, read | masters | three loops by address and length, written out in three functions; one register under many calls | the checksum is that of the data, wherever and in however many parts it lies; short errors are detected |
| `EbmlDummy` | data | those of `EbmlBinary` | the scan | clone | |
| The stream interface (`IOCallback`) | octets, a position | `read`, `write`, `setFilePointer`, `readFully`, `writeFully` | all of the above | short reads and writes | `ByteStream` |
| `MemIOCallback` | a buffer, its size, the data's size, a position | as above, and `write(IOCallback &, size)` | masters with a checksum | words that wrap, growth | implements `ByteStream` |
| `StdIOCallback` | a file and a position of its own | as above, open, close | stdio | two positions that must agree | implements `ByteStream` |
| `MemReadIOCallback`, `SafeReadIOCallback` | a view of memory and a position; a stream and the size it had | read, seek, skip, checked reads | a buffer, a file | positions outside, unsigned differences | a view implements `ByteStream`; the reader throws exactly when it did not get where it was asked to |
| Byte order (`EbmlEndian.h`) | none | to and from big endian | dates, floats | one version of each swap for each compiler | the builds exchange files |
| Types, version, build | none | | | | |

Components call each other directly; the shared state is the file pointer of
the stream, the two references that the nested calls of `EbmlMaster::Read`
share, and the heap. There are no threads, so interleaving is that of calls: the
program may do anything between two calls of the library, and the input may be
any octets.

## Plan

The order is that of importance: first what reads (anybody's input comes
through it), then what owns, then what writes.

| Step | Modules | Composition and abstract specification | State |
|---|---|---|---|
| 1 | `EbmlCoding`, `FindElement`, its proofs | the scan's reference is `ElementAt`, the definition of an acceptable element at a position; the machine is shown to find the first | done |
| 2 | `MasterRead`, its proofs | uses `FindNextElement` by the contract step 1 establishes | done but for the trailing seek and recursive masters |
| 3 | `ElementEdit`, its proofs | on `EbmlCoding`; its reference is `slots`, what the program asked for | done but for nested masters and `bKeepPosition` |
| 4 | `ByteStream`, `MemIOCallback`, `StdIOCallback`, `StreamCopy`, proofs | both implement `ByteStream`, alone and while one is filled from the other | done |
| 5 | `MasterList`, its proofs | reading back is that of step 2; the reader's list is compared with what was written | done but for nested masters |
| 6 | `EbmlEndian`, `ElementValue`, its proofs | encoding against decoding, by builds of either byte order | done |
| 7 | `MemReadIOCallback` as a third implementation of `ByteStream`, `SafeReadIOCallback` on top of `StreamCopy`, proofs | the same refinement, and what the reader promises | done |
| 8 | proofs: the reading of a master, a master's list, the coding of sizes, the sum of CRC-32, `FindNextID`, editing in place, values | each from a strengthened invariant, or from lemmas on recursive functions by least counterexample | done: every safety property that a run checks is a theorem |
| 9 | masters in masters in `ElementEdit` and `MasterList`, and a master with a checksum whose children keep the positions of a temporary buffer | composes `ElementEdit` with `MemIOCallback` | to do |
| 10 | `EbmlStream` (`FindNextID`), `ElementSkip` (`SkipData` of an unknown size) | beside the scan, with its definition of an element as the reference; beside `Read`, on `MasterRead`'s contract of the scan | done |
| 11 | `Crc32`, proofs | the loops over a small polynomial, against the division bit by bit | done |
| 12 | the filter of a value that equals its default, dates included; copying a value | in `ElementValue` | the filter done; copying to do |

## The modules

### EbmlCoding

The coded numbers. The length of a coded number is the place of the first bit
set in its first octet (`MarkedLength`); `ReadCodedSizeValue` is `CodedValue`
together with `IsUnknown`; `CodedSizeLength` and `CodedValueLength` have the
names of the functions. The number of bits of an octet is a parameter: `Mask`
is the sequence of the length markers and `AllOnes` the reserved values, with
the relations between them as assumptions. The code has eight bits, the runs
have three, the proofs any number.

### FindElement

`EbmlElement::FindNextElement`, one action per step of its loop:

| Action | Code (`EbmlElement.cpp`) |
|---|---|
| `IdFound` | 244-287, the octets in the window hold an ID |
| `IdRead`, `IdNotFound` | 262-280, one more octet of it, or the end or the limit |
| `SizeRead`, `SizeEndOfStream` | 288-308, one more octet of the size, or the end |
| `SizeFound` | 310-321, the size is complete; `CreateElementUsingContext` (411-474) |
| `Accept` | 322-332, the element is returned and the stream placed at its data |
| `Reject` | 333-343, the candidate is refused and the window loses an octet |

The window is `PossibleIdNSize`, a function from the indices of the code to
octets or `Uninitialised`. The stream is not chosen in advance: a read appends
any octet of `Alphabet` to `data`, or finds the end. `Path` is the context and
its parents. After a step the model is where the code is at the top of a loop.

The reference for what it should find is `ElementAt(d, p)`, which looks at the
octets only and not at the machine. `FirstElementFound` says that the result is
the first such position; `NothingMissed` that giving up leaves out no position
but those of the window that is dropped at the limit. `WindowIsStream` is the
reason: a shift loses nothing.

### EbmlStream

`FindNextID`, which reads one head where the stream is, beside the scan: a
behaviour is one call of either (`ClassInfos` is the class that is asked for,
or `Scan`). `NextIdRead` and `NextIdNotFound` read the ID (`EbmlElement.cpp`
148-169), `NextSizeRead` and `NextSizeTooLong` the size (174-183), `NextReturned`
decides (186-217). The code does not look at what the reading of a size's octet
returns: at the end of the stream the octet is any (`ended` remembers that).
`HeadsAgree` compares the result with `ElementAt`, the reference of the scan.
`StreamSpec` is the specification of both, and `MCFindElement` runs it.

### MasterRead

`EbmlMaster::Read`, with its recursion as an explicit `stack` of calls, each
with its `this`, `MaxSizeToRead` and `ElementLevelA`; `UpperEltFound` and
`FoundElt` are single variables, because all the calls share them by
reference. The heap is explicit, so that a second delete, or a pointer to what
was deleted, is a state like any other.

`Enter` is the start of `Read`, which clears the list (with `SCOPE_NO_DATA` it
returns at once, and the runs leave it out),
`FindElementAt` and `FindNothing` the scan, `ReadLeaf`, `LeafThrows` and
`ReadMaster` the virtual `Read` of the child, `PassUp`, `DropFoundElt` and
`AdoptFoundElt` the three things that can happen to an element of an upper
level, `NextChild` the end of the loop's body, `TakeChecksum`, `NoChecksum` and
`DeleteEndOfList` the part after `processCrc`, `Unwind` the handler of an
exception in a caller. `Settled` and `SkipData` are parts of these actions,
where the code does the same in several places: keep or discard the child that
was read, and move the stream behind it.

What the scan may return is constrained by what `FindElement` establishes and
nothing else, so every tree that damaged input can produce is covered: the
element is at or after the pointer, its level is that of its class in the
context, and it ends within the limit unless it is of an upper level or of
unknown size (`LevelOfResult` and `PlacedAtData` there).

### ElementSkip

What else a program does with a master it found: `SkipData`. For an unknown size
it finds elements in a context and skips them; an element the context's table
does not have is handed to a call of `SkipData` in the parent's context, as
`TestReadElt`, and so on to the global one; what none has ends all of them.
`skips` is the stack of these calls. `SkipTest`, `SkipFind` and
`SkipFindNothing` begin a round of the loop (`EbmlElement.cpp` 364-374),
`SkipKnown`, `SkipInParent` and `SkipEndFound` are its three cases (377-400),
`SkipReturns` the return to the caller's loop. A behaviour of `ProgramSpec`
reads (the actions of `MasterRead`) or skips, with the same contract of the
scan, and both must return.

### ElementEdit

A file to which a program renders leaves and a master, and which it edits in
place. An octet of the file is a record that says what it was written as: the
n-th octet of the ID, of the size, or of the data of which object. That is as
much as a reader can tell apart, and `HoldsHead` reads it the way a reader
does: an ID, a size whose value is that of the element, then the data. `Data`
overlays octets of another element without erasing what is beyond, as a write
does.

`slots` is a history variable, what the calls were asked to put where. It
appears in no guard of a write. `FileReads` compares the two: in each slot the
file holds the element that was asked for, to the octet. The hard part is
`SetVoidSize` (`EbmlVoid.cpp` 43-67): the hole must be filled exactly, but the
length of the coded size depends on the size.

`CarefulSpec` are the executions of a program that forces no reserved size
(`ForcesNoReserved`): the code accepts one, and what then happens TLC finds with
`MCElementEditReserved.cfg`, under `Spec`.

### ByteStream, MemIOCallback, StdIOCallback, MemReadIOCallback

`ByteStream` is what the comments of `IOCallback.h` and every caller in the
library take for granted: octets and a position; `read` gives what is there, a
short count at the end; `write` puts octets at the position; `setFilePointer`
moves it. `returned` is what a call was asked for and gave; it is part of the
abstract state, so an implementation must also return the right octets.

`StreamParameters` has the arithmetic: a word has `2 * Half` values, `Wrapped`
is the sum or difference of two of them, and `Signed` the `int64_t` that a
`size_t` is read as. `Narrow` is the number of values of `uint32_t`.

`MemIOCallback` has the class's four members. `Refuses` and `ReadSize` are the
guards of its copies; a bug that version 1.4.3 had there (`NEWS.md` 31-32) is
kept as the fault `ReadSizeUnchecked`. Nothing is
assumed of the callers: they may seek behind the data, as `EbmlElement::SkipData`
(`EbmlElement.cpp` 357) and `EbmlMaster::ReadData` (`EbmlMaster.cpp` 159) do
when a size in the data says so, and set any size. A call that then copies from
outside the buffer, or takes an octet that it does not have, sets `undefined`,
and no call follows it. So the buffer is a stream for as long as it does
something defined (`MemoryIsStream`), and `BufferStaysInside` says how long that
is: while the position is within the data and the data within the memory, no
copy leaves the buffer, whatever size is asked for, and only a caller's seek, a
size it sets, or a fill with fewer octets than lie before the position ends this
state. `Fill` and `SetSize` of `ByteStream` are the two calls this class has
beyond `IOCallback`; `Fill` says what `write(IOCallback &, size)` leaves of a
buffer that is neither empty nor at its beginning.

`StdIOCallback` has the file of the C library, with `filePosition`, and
`mCurrentPosition`, the position the class keeps by itself and `getFilePointer`
returns. `MemReadIOCallback` is a view of octets that another owns; every
position is moved to the nearest one inside. Its sums are of signed words, and
one that overflows, which C++ does not define, wraps or does not (`SignedSum`).

### StreamCopy, SafeReadIOCallback

`StreamCopy` has a buffer and a file, and `MemIOCallback::write(IOCallback &,
size)` between them, which reads by `readFully` and so may throw after the
memory grew. `SafeReadIOCallback` continues it: at any point the program makes a
view of the buffer's data, uses it, and gives it to a reader (`MakeView`,
`UseView`, `MakeOverView`), or gives the reader the file (`MakeOverFile`). From
then on it calls `Read`, `GetUIntBE`, `Skip` and `Seek`; `outcome` is what the
last call was asked, gave and threw. A size is converted to a signed offset as
in the code (lines 113-124), so that `Skip` of 2^63 octets or more goes back,
without an exception when there is room. `mSize` is the size found when the
reader was made, and `GetRemainingBytes` an unsigned difference with it.

### MasterList

The children of a master, edited by the program between renderings. `element`
is the heap, `ElementList` the master's list, `caller` what the program holds.
There is one action per member function that changes the list, but `Remove` of a
reverse iterator (`RemoveReverse`) is one of `ReverseSpec` only: it erases the
element after the one it names, and at the last one `end()`, which is undefined
and modelled as the loss of the last element or the end of the program. `RenderData`
and `UpdateSize` decide separately which children are written and how long
they are, as in the code; `SizeIsWritten` is what `Render` asserts of the two. `Render`
first asks `CanWrite` of the master itself, whose default value is the empty
list (`EbmlMaster.h` 104): under `WriteSkipDefault` an empty master writes
nothing.
`ForceChecksum` computes the checksum at once and turns its use on; `Clone`
copies the master with its children and deletes the original.
The file is the children's classes, values and lengths, with the checksum as
the data it was computed from. `Read` gives a master as `MasterRead` leaves it:
the children in their order, the checksum taken from the list; the mandatory
elements that its constructor made (`ProcessMandatory`, 167-191) are gone.

### EbmlEndian, ElementValue

`EbmlEndian` has numbers in the memory of three builds (big-endian,
little-endian, and little-endian by the Microsoft compiler, whose 32-bit swap
is another text) and `SwapBig`, which turns a file's octets to memory and back.
`Encoded` is the loop that takes an octet and shifts the rest, `Shifted` the one
that shifts octets into a word, which wraps.

In `ElementValue` there is one element that the program sets and renders, and
one that reads it, for each of the value classes, by builds that may differ.
`RenderData` and `Decoded` are what the classes' functions make of them;
`IntegerSize` is `UpdateSize`'s choice of the shortest length; `LeaveOut` is
the filter, followed by the reader's making of the default; `OtherData` is data
that another program wrote, with any octets and any size that is valid for its
class (`SizeIsValid`; of strings and binary data one below `SizeLimit`, which is
0x7FFFFFFF), and `Truncate` cuts a file at any octet. A double is one of the values of a word, and a float
every `FloatUnit`-th of them, so that narrowing is to the nearest.

### Crc32

A register is the set of its 1 bits: exclusive or is the symmetric difference,
and a shift moves the members. `Update`, `FillCRC32` and `CheckCRC` begin the
loops over some data at an address (`alignment` is the address modulo four),
`UpdateOctet` is a round of the first or the last loop, `UpdateChunk` one of the
middle loop, with its four lookups, and `UpdateReturns`, `FillCRC32Returns` and
`CheckCRCReturns` what follows. The table `s_tab` is a parameter; that it holds
the residues is the assumption `TableAssumption`. `octetwise` runs the loop of
single octets alongside; `covered`, `gathered` and `filed` remember which data
a register or a file is of; `Checksum` is the reference, a division bit by bit.
In `MasterList` a checksum is the data it was computed from, which is what
`FinalIsOfData` allows. `CheckElementCRC32` renders without `bKeepPosition`,
which sets the `ElementPosition` of the element it looks at to 0: positions are
not in this module.

## The runs

Sizes and times are of two workers. A `violation` run checks one statement of
the code's own comments, assertions or tests, and TLC finds the behaviour that
contradicts it.

| Run | States | Time | Shows |
|---|---|---|---|
| `find_element` | 417,701 | 1 min | for every stream of up to six octets, limit and dummy flag, a scan, or `FindNextID` for each class: indices stay in the window (`TypeOK`), `WindowIsStream`, `FirstElementFound`, `NothingMissed`, `PlacedAtData` (the stream is left at the data of what is returned, which ends inside the limit), `LevelOfResult`, a head this library writes is found where it was written (`WrittenHeadIsRead`), both calls read a head alike (`HeadsAgree`) and both end on every stream (`Terminates`) |
| `master_read` | 417,575 | 2 min | three levels of masters, read or skipped, whatever the scan finds: `OwnedOnce`, `BudgetIsExact` (no unsigned subtraction wraps), `ChildrenInside`, `ReadInOrder`, `InContext`, `NothingLost`, `SkipsWholeElements`, `StopsAtOutsider`, and the call returns (`Returns`) |
| `element_edit` | 239,011 | 45 s | after any sequence of rendering, voiding, replacing, overwriting and forcing the master's size the file reads as it should (`FileReads`), the objects know where they are (`ObjectsMatchFile`), the master ends where its last child did (`MasterEncloses`), and an edit touches nothing else (`EditsInPlace`) |
| `stream_copy` | 79,583 | 90 s | buffer, file and view implement `ByteStream` (`MemoryIsStream`, `FileIsStream`, `ViewIsStream`), wherever callers seek and also when a copy fails in the middle; no copy leaves a buffer that is within its bounds (`BufferStaysInside`); and the checked reader throws exactly when it did not get where it was asked to (`ReaderDoesAsAsked`) |
| `master_list` | 363,288 | 80 s | `OwnedOnce` (of programs without the reverse `Remove`), `SizeIsWritten`, `ChecksumTells` (the checksum holds just when nobody changed the file), `CompleteWhenRead` |
| `element_value` | 80,388 | 10 s | `TypeOK`, `SizeIsWritten`, `ReadsWhatWasWritten`, `RewriteIsShortest`, `WholeOrNothing`, over all values, paddings, octets, cuts, precisions and pairs of builds |
| `crc32` | 934,992 | 80 s | `TypeOK`, `ChunksAreOctets` (four octets at a time give what they give one by one, at every address), `FinalIsOfData` (the checksum is that of the data it was made of), `ErrorsAreDetected` |
| `read_parent` | violation | | `ParentIsNull`, an assertion of `ReadData` |
| `void_two_octets` | violation | | `VoidedIsVoid`, the comment of `VoidMe` |
| `checksum_of_nothing` | violation | | `WrittenVerifies`, which test_crc.cxx requires of a full list, of one that was emptied and rendered again |
| `remove_reverse` | violation | | `RemovedIsGone`, the comment of `Remove` |
| `float_msvc` | violation | | `OptimizedIsGeneric`, what the comments of `EbmlEndian.h` call its versions |

Deadlock is not checked where the modelled call returns or the bound is reached
(`CHECK_DEADLOCK FALSE`): a scan that has returned does nothing more, a file
that has reached `FileMax` takes nothing more, a value is read once. It is
checked of the list and the checksum, where the program can always make another
call. The streams end where a call is undefined.

### The bounds, and why they are enough

* **FindElement.** Octets have three bits (`Mask = <<4, 2, 1>>`), so IDs of one
  and two octets and sizes of one to three exist, and the window has five
  octets instead of the code's 4 + 8 of 16. `BufLen` is exactly
  `IdMax + SizeMax`: an index wrong by one leaves it. The alphabet
  {0, 1, 2, 4, 5, 7} has every marker, an octet without one, and the all-ones
  value; of the remaining octets 3 and 6 differ from 2 and 4 by payload only.
  Streams of six octets let a candidate of four be refused and another found
  behind it; the limits 0, 3, 5 and 9 end before, inside, between and behind.
  `FindNextID` asks for a child, a master that may have the unknown size, and a
  global element, which it must not find in the context. The context of the run
  is that of a master with a parent; a scan among the global elements alone is
  one of the contexts of the proofs.
* **MasterRead.** Three levels are the least at which an element can travel
  past a master that is not its own. `A` and `B` may have the unknown size, the
  leaf is of the top level and the checksum of every level. Five positions,
  sizes of at most one and six elements are enough for a sibling that ends an
  unknown master inside another, and for what it leaves; a skipped master has
  the same positions, and its chain of contexts is all of the three levels.
* **ElementEdit.** Two leaves, one with an ID of two octets, a void element and
  a master. The sizes 2 and 5, with and without a length of two octets, make
  holes around the step where a coded size takes one more octet; 19 octets
  hold three elements, so that the one in the middle can be voided or replaced.
  The master's head has a size of one octet, which holds no child, or of two.
* **StreamCopy.** Words have six values, of which three read as negative, so
  most sums of a position and a size wrap; `uint32_t` has two. A file of two
  octets and calls of up to two have short reads, short writes and seeks past
  the end. The view leaves out what the last calls returned: no guard looks at
  it, and each step is checked against `ByteStream` when it is taken. Once a
  reader is made over one stream the other is not used again and the view leaves
  it out, as it does everything after an undefined call.
* **MasterList.** Three elements let a class occur twice with another between
  them. One class is mandatory and unique without a default, one is mandatory
  with a default, one deprecated: every branch of the filter. Objects are
  symmetric, since no operator orders them. The view keeps of a checksum only
  whether it is that of no data, except in a file with children: every other
  rendering or reading sets it before it is looked at.
* **ElementValue.** Octets of two bits and words of three octets keep a sign
  bit, a first octet that pads and one that does not, and a word that
  overflows; strings of up to four octets hold a NUL at each place, and those of
  four, of an EbmlString or EbmlBinary, are over the limit. A second
  has 3 nanoseconds, and 2001 is second 2, so dates around both ends wrap. A
  float has two octets, the least that can be swapped wrongly.
* **Crc32.** Octets of two bits and the polynomial x^8 + x^2 + x + 1, all of
  whose table TLC builds. Data of one, four and six octets at the four addresses
  takes every combination of the three loops; of the elements that are added or
  checked one has a default value, one is longer than `LengthMax` (a length has
  32 bits). Five octets in parts of any size are gathered by `Update`.

### Fairness

`StreamSpec` (of the run `find_element`) and `ProgramSpec` (of `master_read`)
state it: weak fairness of the next step of the
call. The scan, `FindNextID`, `Read` and `SkipData` are calls of sequential code
that take no lock and wait for nothing but `read`, which returns; so a step that
can be taken is taken. No other module claims that anything happens, since what
the program calls next is its own business.

## What is proved

TLAPS checks every theorem from the assumptions on the constants alone; TLC
evaluates those assumptions in each run.

### FindElement_proofs

For every width of an octet, ID length, buffer, alphabet, stream, context and
limit. Assumed: the markers are descending powers of two (`MaskAssumption`),
the reserved values are what all ones give (`AllOnesAssumption`), the buffer has
at least `IdMax + SizeMax` cells (`BufLenAssumption`, 12 of 16 in the code), a
cell that was not written holds no octet (`UninitialisedAssumption`), only the
first context of the chain may be the global one, and the first octet of a
class's ID tells its length (`PathAssumption`; in the code each class asserts it
statically, by `EbmlId::IsValid`, `EbmlElement.h` 66). `StreamAssumption` types the bounds of the runs.

* `TypeCorrect` and `WindowCorrect`: `Spec => []TypeOK` and
  `Spec => []WindowIsStream`. Neither is inductive alone: that an index stays in
  the buffer needs the lengths that `WindowIsStream` relates, and moving the
  window needs the ranges of `TypeOK`. Their conjunction `Inv` is.
* `FirstElementIsFound`, `NothingIsMissed`, `LevelIsOfResult`,
  `LimitRespected`. The induction needs what was true of the positions already
  given up. `Scanned` says that no element starts at any of them, *and* that no
  octet read later can change that (`Settled`), or that the limit is reached and
  nothing more is read. `SettledForGood` is the lemma behind it: the octets
  that decide a position are behind the reader. `CandidateOfStream` relates the
  machine's indices to the definition on the stream, by `WindowSize`. The
  invariant is `ScanInv`, the conjunction of `Inv`, `WithinMaxDataSize`,
  `Scanned`, `CandidateOfStream` and `Returns`. `LimitRespected` is the theorem
  that the scan reads no octet beyond the limit (`WithinMaxDataSize`), the only
  one of these that no run checks.

* `FileIsAtData`: `PlacedAtData`. The machine forgets what it found when it
  returns, so the invariant keeps it (`ResultOfStream`): the result is the
  candidate of the octets at its position. `LengthIsKept` is the other half: the
  head is measured by coding the size again, and it comes out as long as it was.
* `WrittenHeads`: `WrittenHeadIsRead`, for every size its octets can hold. That
  rests on the coding of sizes itself: `WrittenSize` says that what
  `CodedValueLength` writes has the marker, and is read as the size that was
  written, `LengthIsEnough` that `CodedSizeLength` never chooses too few octets.
* `BothHeadsAgree`: `HeadsAgree` of `EbmlStream`. `HeadInv` says what
  `FindNextID` knows between two octets: that the stream is the ID and what was
  read of the size, and that no shorter part of either announces its own length
  (`MarkedLengthMore`). `BothAccept` compares the rules of the two: they are the
  same for a class of the context within a limit.

### Induction

`Number`, `CodedValueLength`, `Those`, `Total`, `Division`, `Continuation`,
`Power`, `Encoded` and `Shifted` are recursive functions over an interval. The induction theorems of the library take
an operator, which the provers cannot instantiate; here induction is over a set.
`LeastNatural` gives every set of naturals its least member, so that `UpTo` holds
by the least counterexample, and `RunExists` that such a function exists.

### MasterRead_proofs

For every set of classes, every tree of contexts, every input and any number of
elements. Assumed: leaves and masters are different, globals are leaves and in no
master's table (`ClassAssumption`); a context's parents are those of its master
(`ContextAssumption`, which also excludes that a master contains itself); the
bounds are numbers (`BoundAssumption`, `NullAssumption`).

* `Inductive`: `ProgramSpec => []ProgramInv`, one lemma for each action. While a
  master is read it is `ReadInv`, and while one is skipped `SkipInv`. None of the
  six properties of reading is inductive, and they need each other:
  * `StackInv`: each call reads the element that the call below has in hand, no
    two calls the same one; so a call that returns does not take from another.
  * `OwnInv` (for `Ownership`): beside `OwnedOnce`, the masters being read are in
    no list, and the element in hand and the one on its way up are *loose*: in no
    list and read by no call. That is what makes a deletion, an adoption or an
    unwinding safe. It does not say that `FoundElt` points to no deleted element:
    it may, after an exception (below).
  * `BudgetInv` (for `Budgets` and `Nesting`): what is left to each waiting call
    is exactly what lies behind the element it waits for.
  * `OrderInv` (for `Ordering`): what is in hand begins behind everything listed,
    and what is passed up begins behind the master it leaves, so appending keeps
    the order two levels up, too.
  * `ContextInv` (for `OwnContexts`): the context of a call's master is that of
    the call below with one more class, so that an element `u` levels up is a
    child of the master `u` calls below, which is where `UpperEltFound`, counted
    down by each return, brings it.
  * `LossInv` (for `Completeness`): until an element of an upper level is met,
    every element of the heap is listed, read by a call, or in hand.
* `WholeElements` and `Outsiders`: `SkipsWholeElements` and `StopsAtOutsider`,
  from `SkipInv`: an element that was handed to the calls of other contexts still
  has its data to skip, and is in the table of a context from there on or of none.

The budget is a word in the code, which wraps; `BudgetIsExact` is why the model
may subtract numbers.

### MasterList_proofs

For every set of objects, semantics, values and file size. `Inv` (theorem
`Inductive`) is the conjunction of `ListInv` (each object is on the list, the
caller's or free), `FlagInv`, `FileInv` (what the checksum in the file is of, and
that after a change one value differs from it) and `ReadInv` (the list as it
was read).

* `Ownership`: `OwnedOnce`, through insertion, removal by index or iterator,
  sorting and cloning. `Spec` has no `Remove` of a reverse iterator, with which it
  is false (`remove_reverse`).
* `Sizes`: `SizeIsWritten`; the two filters leave out the same children although
  the code decides twice. `Total` over those that are written is what is counted.
* `Checksums`: `ChecksumTells`, from `FileInv` and `ReadInv`: the list's values
  are the file's, and those of the checksum's data differ just when the file was
  changed.
* `Completeness`: `CompleteWhenRead`: a mandatory child without a default was not
  left out.

### SafeReadIOCallback_proofs

The streams, alone and composed. For every width of a word and of `uint32_t`,
and whatever the callers seek to, set or ask for; a write has fewer octets than
a signed word counts (`WordAssumption`), and a call may ask for one octet
(`ReaderAssumption`).

* `StaysInside`: `TypeOK` and `StaysInside` of `MemIOCallback`. The first says
  that the words stay words and the memory is as long as it says, and is
  inductive. The second is the arithmetic: of a position within the data, neither
  a sum that wraps nor a difference leads to a copy that leaves the buffer; a
  fill at the very end of the memory takes the address of an octet that is not
  there, which is the one case it names.
* `MemoryIsAStream`: the buffer alone refines `ByteStream`, with `Content` (what
  `GetDataBuffer` shows) for its octets: a lemma for each call, that its step is
  the abstract one, wherever the position is. Where a copy would leave the buffer
  the step is one of `Undefined`, of which nothing is claimed but that it is the
  last.
* `NothingLeavesTheBuffer`: `BufferStaysInside` of the composition with a file,
  and `BufferTypeCorrect` its `TypeOK`, which no run checks.
* `FileIsAStream`: `StdIOCallback` implements `ByteStream`, because the position
  it keeps is always the file's (`FileInv`), also after a short read or write.
* `BufferIsStream`: the buffer is a stream while it is filled from a file that
  may end too early. `FileGivesData` and `BufferStep` show that a step of the
  composition is one of the buffer, for which the lemmas of the buffer alone hold.
* `ViewIsAStream`: the view implements `ByteStream`, for every buffer it may be
  a view of. `ReaderInv` says that the view holds octets, fewer than a word
  counts, that its position is among them, and that the reader's size is the
  view's; it includes the invariants of the buffer and of the file, since a view
  is made of what they hold.
* `ReaderThrowsAsAsked`: `ReaderDoesAsAsked`, one lemma for each of reading,
  skipping and seeking, with the sizes converted to signed offsets: the target of
  a `Skip` is where the offset leads. `ViewRemains` shows that the unsigned difference
  `GetRemainingBytes` does not wrap over a view; over a file it may, and the
  property does not say otherwise.

### ElementEdit_proofs

For every set of leaves, void elements, IDs and data sizes, every length of the
file and every width of an octet. Assumed: what the objects are
(`ObjectAssumption`; the ID of a void element has one octet, `EbmlVoid.cpp` 16),
that an octet holds the size 1, and five octets that of any file
(`CodingAssumption`; `CodedSizeLength` chooses no more than five, which is the
code's own todo, `EbmlElement.cpp` 24). Two hypotheses stand in the theorems:
leaves have data (`0 \notin Sizes`), since an element of two octets is not
voided (`void_two_octets`), and the program is careful (`CarefulSpec`), since a
reserved size destroys the first child (`MCElementEditReserved.cfg`).

* `Inductive`: `CarefulSpec => []IInv`. None of the properties is inductive, for
  an edit finds its place by what the object says, and writes a head by the
  object's size and length. `IInv` has, for each slot (`AsAsked`), what `FileReads`
  asks for and
  * `IsHeld`: the object's position and size are its slot's, and the coded size
    in the file is as long as the object says, so that what `OverwriteData` and
    `OverwriteHead` write begins and ends where the old octets did;
  * `IsPlaced`: the slot ends within the file, and within a closed master or
    behind it;
  and of all of them together
  * `Tiling`: no two slots overlap, and together they are the file, so that what
    is written inside one slot is in no other;
  * `OneObjectEach`: no object stands for two elements, so that an edit moves one
    slot only;
  * `SizesKnown`: only the master's size is ever unknown, and it is closed just
    when it is known.
* `EditedFileReads`, `PositionsMatch`, `ForcedMasterEncloses` (`FileReads`,
  `ObjectsMatchFile`, `MasterEncloses`) and `NothingElseChanges`
  (`EditsInPlace`) follow.
* `VoidFills` is the arithmetic behind them: for any hole of at least two octets,
  what `SetVoidSize` makes has a size of `VoidLength` octets, and comes to exactly
  the hole. The length of the data's size is never greater than that of the hole's
  (`ShortestGrows`), so the code's third case, of a void element that is too long,
  does not occur, and the length that it asks for is the one the size is then
  coded with. `SizeFits` says that no finite size is coded as the reserved value.

### Crc32_proofs

For every width of an octet, all data and all elements, with the table of the
residues (`TableAssumption`) of any polynomial that has the bit a shift leaves
clear (`PolynomialAssumption`: 0xEDB88320 has it).

* `RegistersKeepTheirWidth`: `TypeOK`; no shift or lookup leaves the four
  octets, and the loops end within their data.
* `AlignmentDoesNotMatter`: `ChunksAreOctets`. `LookConsumesOctet` is the reason
  for each of the four lookups: a register to which more octets were added above
  the lowest one gives the same as without them, with those octets a place
  lower, since exclusive or is associative and a shift distributes over it.
  `ChunkIsFourOctets` applies it four times. The two are proved together, for
  the second needs the registers' type.

* `RegistersAreSums` and `FinalIsChecksum`: `FinalIsOfData`. `SumInv` says that
  at any time each register, with the octets that a loop has still to take, comes
  to the remainder of the data it is said to be of. The lemmas are the algebra: a
  division by the polynomial is linear over exclusive or, so a look into the table
  is the division of an octet's bits; and to continue with a second part is the
  same as to divide the whole (`Continuation`).
* `BurstsAreDetected`: `ErrorsAreDetected`. By linearity two data have the same
  checksum only if their difference has remainder 0. A difference within four
  octets is one register; only the register 0 divides to 0, since a step of the
  division loses nothing: the bit that tells whether the polynomial was added is
  the one it sets and the shift leaves clear.

### ElementValue_proofs

For every even number of values of an octet (`BaseAssumption`), every width of a
word and of a shorter float (`WidthAssumption`), every set of builds and length
of strings (`BuildsAssumption`), every limit of the size of strings and binary data
(`LimitAssumption`), and any epoch and fraction of a second
(`DateAssumption`).

* The coding of numbers: `EncodedIs` gives the octets of a number as quotients by
  powers, and `ShiftedEncoded` what a word holds after they were shifted into it,
  whatever it held before. `UnsignedReadBack`, `SignedReadBack` (the first octet
  has the sign, with which the word begins) and `WordReadBack` follow from it.
  `UnsignedDecoded` and `SignedDecoded` are the other direction: octets that
  anybody wrote give a number that fits as many octets.
* The conversions: `NarrowedFacts` (rounding gives the nearest float, also at the
  greatest one), `DateFacts` (a date that is representable comes back, negative
  ones too, although the division rounds towards 0), `CutPadded` (the padding
  comes off), `IntegerSizeIs`, `BuildsAgree`.
* `Inductive`: `Spec => []IInv`. `TypeOK` is not inductive, for a float of 32
  bits is in its range only if it has four octets: `SizeInv` says which sizes an
  element may have, `ReadOnce` that what was read is a decoding of data of such a
  size. `TypeCorrect`, `SizesMatch`, `NoPartOfAValue` and `RewritesAreShortest`
  (`TypeOK`, `SizeIsWritten`, `WholeOrNothing`, `RewriteIsShortest`) follow.
* `InductiveHeld`: `Spec => []RInv`, which says that the octets in the file hold
  the value the program gave (`Holds`): what `ReadsWhatWasWritten` asks of the
  reader has to be true of the file before.
* `RoundTrip`: `ReadsWhatWasWritten`, when no build is that of msvc; with one it is
  false (`float_msvc`). `RoundTripButHalf` and `SwapsAgree` say how false, for all
  builds: `ReadsWhatWasWritten` and `OptimizedIsGeneric` fail for nothing but a
  float of 32 bits.

## What is only model-checked

`Terminates` and `Returns` are liveness under fairness, which is beyond the
prover, as `ENABLED` is. All other properties of the passing runs are theorems.
The runs that end with a counterexample show what is false, which needs no proof.

For the sake of the proofs the recursions of the models are functions and not
`RECURSIVE` operators, and what `Delete` frees is the least set that holds an
element and its children (`Subtree`).

### What the models leave out

* **MasterRead.** A head takes one position of the stream. Dummy elements are
  not returned (the dummy flag is off; the scan with it is in `FindElement`).
  `ContextAssumption` excludes a master that may contain itself. `ReadData`
  (150-165) seeks to the end of the element after `Read`; the model ends before.
  The branch for an unknown element (321-328) cannot be taken, since
  `FindNextElement` returns none when they are not allowed.
* **ElementSkip.** Dummy elements are not allowed, the default of `SkipData`. The
  elements it skips are not deleted by the code, nor by the model.
* **ElementEdit.** A leaf gets a buffer of another size only while it is not in
  the file: `VoidMe` and `OverwriteData` count with the size of now, and would
  reach the neighbour. Position 0 is "not written" in the code, so a first
  element is never edited, and so it is here. Elements that a filter leaves out
  return before they do anything. The variants with `bKeepPosition`, and masters
  that render their children, are not in it.
* **Streams.** No call follows one that is undefined. Callers of stdio seek between a write and a
  read, as C requires. The allocation that fails in the constructor of
  `MemIOCallback` is not modelled. The reader is over a view or over a file;
  over a buffer it would be over another stream that allows positions after its
  end, as the file does.
* **MasterList.** The master has a known size and its children are integers. A
  checksum is represented by the data it covers: the polynomial is pure.
  Positions are those of `ElementEdit`. `InsertElement` is called with a place
  in the list or its end. `Sort` may leave any order: `IsSmallerThan`
  (`EbmlElement.cpp` 541) is true both ways for two elements of a class without
  order, which is not what `std::sort` asks for.
* **ElementValue.** Only set values are rendered, except of dates, where the
  code looks (`EbmlDate.cpp`). Sizes of data that is read satisfy
  `SizeIsValid`, for the scan refuses others. A default size above that of the
  longest integer throws in the middle of `Render` and is not asked for. Floats
  have no infinity and no NaN, and their rounding is that of evenly spaced
  values.
* **Crc32.** The host is little-endian: on another the four octets are written
  as they lie in memory and the little-endian table is used
  (`EbmlCrc32.cpp` does not include `EbmlEndian.h`). Of a checksum with a size
  other than four the code skips the data (`ReadData`), a step that changes no
  register.
* **Not modelled.** UTF-8 (vendored, pure), the copying of single values,
  printing, types, versions and build files.

### Met while reading, without a property

* `EbmlDummy::Clone` (`EbmlDummy.h` 47) makes an empty element; `EbmlBinary`'s
  `operator=` (`EbmlBinary.cpp` 40) copies as many octets as this element had.
* After `ReplaceWith` (`EbmlVoid.cpp` 89) the void element's object has the
  position of the element that took its place, and the old size.
* A master of unknown size is 0 octets long while it is rendered, so that with a
  checksum the buffer is asked for 2^64 - 6 octets (`EbmlMaster.cpp` 77); its
  head is coded with the size 0 until `OverwriteHead` (117).
* `InsertElement` (477) looks at the position only when the list is empty.
* NEWS.md 59 says that `FoundElt` no longer points to a deleted element. The
  handler (`EbmlMaster.cpp` 333) resets it only for the element it is reading:
  one that was adopted (385) and deleted since is still there when a later child
  throws, and is a dangling pointer in `MasterRead`, too. Nobody uses it.
* A master read with a checksum, and then again from data without one, erases
  the end of its list (424): `DeleteEndOfList` of `MasterRead`, which then stops.
* `CheckElementCRC32` renders without default values (`EbmlCrc32.cpp` 179),
  `AddElementCRC32` with them (166).
* A scan that finds nothing leaves the stream where it stopped
  (`EbmlElement.cpp` 345); `EbmlMaster::Read` never scans again after that.

## Disagreements

* **`read_parent`** (`EbmlMaster.cpp` 372). A child of unknown size is ended by
  an element of this master's own level. `UpperEltFound` becomes 0,
  the element is put into `ElementLevelA`, and the `break` leaves the loop
  without reading or listing it. `ReadData` then asserts
  `Parent == nullptr` (156) and fails; without assertions the element leaks and
  the children after it are not read.
* **`void_two_octets`** (`EbmlVoid.cpp` 121). The hole of an element of two
  octets takes a void element of size 0, whose head `Overwrite` does not write;
  `VoidMe` reports success and the element stays.
* **`MCElementEditReserved.cfg`** (`EbmlElement.cpp` 566). `WriteHead` is offered "to write
  only the head and force the size later". `ForceSize` compares the lengths of
  the two sizes while the size still counts as unknown, and so accepts the
  all-ones value of that length: 127 for a head with one octet of size. Once it is
  finite it takes an octet more, and `OverwriteHead` writes that over the first
  octet of the first child. The configuration finds `MasterEncloses` violated; it
  is not among the runs of `PROJECT.json`.
* **`checksum_of_nothing`** (`EbmlMaster.cpp` 85). A program calls
  `EnableChecksum`, renders a master with its child, removes the child and renders
  again. Of an empty list the checksum is not computed, and the first rendering's
  is written; the reader's `VerifyChecksum`, whose loop is not entered either,
  compares it with 0 and fails for a file nobody changed. test_crc.cxx (43)
  requires that what was rendered verifies; its list is full and rendered once.
* **`remove_reverse`** (`EbmlMaster.cpp` 445). "Remove an element from the list of
  the master" (`EbmlMaster.h` 116), given a reverse iterator, erases `Itr.base()`,
  the element after the one named. The named one stays in the list, to be deleted
  a second time if the program deletes what it removed; the erased one belongs to
  nobody. At the last element `base()` is `end()`, and erasing that is undefined.
  No code under `src/` calls it.
* **`float_msvc`** (`EbmlEndian.h` 85). The Microsoft version of the 32-bit swap
  converts what it swapped back from 16 bits: 1.0f is written as 3F 80 FF FF and
  read as 0. `windows.yaml` builds with that compiler.

## Running the checks

    tlc -workers 2 -config MCFindElement.cfg MCFindElement.tla
    tlapm FindElement_proofs.tla

and so on for each module with a `.cfg` and each `_proofs` module.
`MCMasterReadParent.cfg`, `MCElementEditVoid.cfg`, `MCElementEditReserved.cfg`,
`MCMasterListEmpty.cfg`, `MCMasterListReverse.cfg` and
`MCElementValueMsvc.cfg` belong to the module whose
name they begin with and are expected to end with a counterexample.
