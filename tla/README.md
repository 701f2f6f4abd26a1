# A verification of simpad2-nvram

`nvram` keeps a list of variables (key and value) in non-volatile memory. A
command line program (`main.c`) reads or changes the list; a store (`nvram.c`)
keeps it in one section or two; a library (`libnvram/`) gives the format of a
section and the rules by which two sections make one transactional store; one
of three storage interfaces (file, MTD partition, EFI variable) holds the
bytes. This directory holds TLA+ models of those parts, the TLC runs that check
them on small instances, and proofs that TLAPS checks for all instances.

## The system

| component | state | operations | what makes it correct |
|---|---|---|---|
| libnvram transaction (`libnvram.c` 458-549) | `libnvram_transaction`: header and state of sections A and B, which is active | `init_transaction`, `next_transaction`, `update_transaction` | the active section is the newest good one; an update goes to the other one; the 32 bit counter never wraps |
| store (`nvram.c`) | the devices; the handle (`trans`) | `nvram_init`, `nvram_commit`, `nvram_close` | a commit that fails or is cut off leaves the old list or the new one, never neither; a commit that returns 0 left the new one |
| lock file (`main.c` 72-131) | the file's name, its inodes, their flocks, `FDLOCK` | `acquire_lockfile`, `release_lockfile` | one invocation at a time reads and rewrites the store; nobody waits for ever |
| libnvram list (`libnvram.c` 19-185) | a linked list of entries | set, get, remove, iterate | a map with one entry per key, whatever was set and removed |
| libnvram format (`libnvram.c` 187-456) | none | validate, serialize, deserialize, data iterator | what was serialized is accepted and comes back |
| file interface | a file per section | size, read, write | 0 means all bytes are written |
| MTD interface | a partition per section, a write protect gpio | size, read, write (erase first) | the same; protection restored |
| EFI interface | a variable file per section, its attributes and immutable flag | size, read, write | the same; flag restored |
| arguments (`main.c` 367-498) | argv, the operations | `--set`, `--get`, `--del`, `--list`, `--sys`, the checks | no argument is lost, read twice or read as something else |
| command line (`main.c` 500-590) | a system store and a user store, their lists | list, get, set, delete, commit | several changes of one call are one commit; no update is lost; `SYS_` keys only in the system store |
| printing (`main.c` 189-330) | none | `print_entry`, `print_list`, `print_list_entry` | what is in the list is printed, whole |

The command line reads its arguments, takes the lock, opens the system store
and (without `--sys`) the user store, prints from the lists or changes one of
them in memory, commits it once if it changed, releases the lock and closes. The
store calls the library for every decision and the interface for every byte.
Nothing runs concurrently inside an invocation; invocations run concurrently
with each other, and each can die at any point.

What is hard: a write that stops half-way; a crash between the two writes of a
counter reset; the counter's limit; the handle's memory of the sections, which
is updated without reading them back; one section used where two are meant;
invocations that race on the name of the lock file; error returns that must
restore a protection; bytes that are in a page cache when the power fails.
`PROJECT.json` lists each hazard at its line with the properties that cover it.

## The modules

How they are composed, from the command line down:

| level | promises | made of | shown by |
|---|---|---|---|
| invocations of `main` | `SerialStores` | `NvramCli` = `Lockfile` + `NvramRequest` + atomic stores | run `cli_two`, theorem `CliIsSerial` |
| a store | `AtomicStore` | `NvramStore` = `LibnvramTransaction` + sections | run `store_two`, theorem `StoreCommitIsAtomic` |
| a section | `SectionDevice` | `InterfaceFile`, `InterfaceMtd`, `InterfaceEfi` over `SectionBytes` | runs `*_section`, theorems `*ImplementsSection` |
| a list | `VariableMap` | `LibnvramList` | run `list_format`, theorem `ListRefinesMap` |
| a list in bytes, and printed | itself | `LibnvramFormat`, `Printing` | run `list_format`, theorems `Format*` and `Print*` |
| arguments | themselves | `NvramArgs` over `NvramRequest` | run `args`, theorems `Args*` |

### The command line

- `NvramRequest`: what an invocation can be asked (`Request`: operations,
  `--sys`, the environment), the checks of `main` (`RequestError`, in the order
  of the code), and what the operations do to a list (`Apply`, `ApplyAll`,
  `WritePerformed`). A list is here the map that `LibnvramList` implements.
- `NvramArgs`: the loop over `argv`, with one action per option and `Check` for
  what follows the loop. Every string can be a key or a value, the options
  too; `NULL` stands for `argv[argc]`.
- `NvramCli`: `main` from the checks to the release of the lock, by any number
  of invocations. `stage` is where one is in `main`; while it is at `lock` or
  `exit` it takes the steps of `Lockfile`, which this module extends.
  `ReadStore` is `nvram_init` of one store, `RunReads` and `RunWrites` are the
  operations, `CommitInstalls` and `CommitReturns` are `nvram_commit`, which
  may fail before or after the moment the list is stored.
- `SerialStores`: what callers are promised. Invocations run one after the
  other, each doing all of its operations or none.
- `Lockfile`: invocations (`Procs`) that take the lock once each, with `pc` at
  the system calls of `acquire_lockfile` and `release_lockfile`. The file
  system is external: a name, inodes, who holds each flock. `stolen` is a
  history variable: a `remove` hit an inode that another invocation had open.
- `Printing`: `print_entry` and its callers as operators on the lists that
  `LibnvramList` reaches. `PutText` is one `snprintf` into what is left of the
  buffer, so that a buffer that is too short cuts the text as it would in C.

### The store

- `LibnvramTransaction`: the operators of the transaction library on values. A
  section's image is a header and a data part. Checksums are ideal: a header
  that does not pass is `Garbage`, and the field `crc32` of a good one *is* the
  data it was computed from.
- `NvramStore`: the state of the store (`dev`, what the devices hold; `pc`,
  where the program is; `trans`, `list`, and `op` and `hdr` of
  `nvram_commit`), with one action per call of `nvram.h` and, inside
  `nvram_commit`, one per step that others can see: `CommitStart` (serialize
  and choose the section), `WriteProgress` (some of the bytes are on the
  device), `WriteReturns`, `WriteFails`, `CommitReturns`
  (`update_transaction`). `Crash` ends the process inside a call. `Devices`
  is the set of configured sections.
- `AtomicStore`: what the store promises. The stored list changes in one
  step, from the old one to the one being committed. `NvramStore!Abstract` is
  the refinement mapping: `stored` is what an `nvram_init` would read now.
- `NvramStorePowerLoss`: the same store over a page cache. `dev` becomes what
  the cache shows and `disk` what the medium holds. `WriteBack` moves any pages
  of a section to the medium, in any order, or loses them half-way, so that an
  old header can meet new data; `PowerLoss` leaves what is on the medium. The
  history variables `early` (a write began before all earlier ones were written
  back), `durable` (what was stored when last nothing was left to write back)
  and `latest` (the list of the last write) are what the property needs.

### The interfaces

- `SectionDevice`: what `NvramStore` relies on. A read gives the image or an
  error, a write changes the image only as `PartlyWritten` allows, and one that
  returns 0 is complete.
- `SectionBytes`: a section as cells, two for the header (so that it can be
  torn) and one per entry, and `Decode`, the image that libnvram finds in them.
- `InterfaceFile`: written in place, cell by cell, never truncated.
- `InterfaceMtd`: the search for the partition by its label (`FindMtd`, from the
  lowest number in use, and up to the first that is not: `Found`), the gpio, erase and write cell by cell, and the exit that raises the gpio.
- `InterfaceEfi`: the attributes in front of the payload, the immutable flag, a
  variable that does not exist. efivarfs stores a write whole or not at all.

In each, `Device` is the refinement mapping, `pc` is at the system calls of the
current `nvram_interface_*` function, every call can fail, and `Crash` ends the
process in any of them. `lapsed` is a history variable of the last two, about
the last write that got past opening the partition or clearing the flag: it
ended in a way the code cannot help (a crash, or a failing restore). Each such
write starts it afresh, so that nothing an earlier one left behind is an
excuse. A variable that has no flag to begin with, or a new one, counts as
lapsed until then.

### The library

- `LibnvramList`: the linked list as the sequence of its nodes' entries.
  `ListSet`, `ListGet` and `ListRemove` are the functions on values; `Set`,
  `SetNoMemory`, `Get`, `RemoveKey` and `Destroy` are calls on one list, with
  `reply` what the last one returned.
- `VariableMap`: what the list promises, a map with the same calls and replies.
- `LibnvramFormat`: lists to bytes and back, and the data iterator, as
  operators; its properties are checked on every list `LibnvramList` reaches.
  The eight bytes of an entry's two lengths are one cell that holds both and
  seven that hold nothing, so little-endian conversion is not modelled, while
  every offset is the code's. A loop over a list or over data is a recursive
  function of the number of turns (`SizeAfter`, `DataAfter`, `Turns`,
  `ItAfter`; in `Printing`, `PrintedAfter`).

`MC...` modules are the instances for TLC (`MCLibnvram` serves the list, the
format and printing together). `...Proofs` modules hold the proofs of the module
they are named after; `LibnvramProofs` those of `LibnvramList`, `LibnvramFormat`
and `Printing`, and `NvramCliProofs` those of `Lockfile` too.

### Choices

They go beyond the program, or stop short of it:

- A handle may commit any number of times, as `nvram.h` allows; `main.c`
  commits at most once. A handle whose commit failed is only closed, as in
  `main.c`: a retry on it could write over the only good section
  (`PROJECT.json`, hazard at `nvram.c:203`).
- A call of `nvram_init` that fails leaves no handle and no trace, so it is
  not a step of `NvramStore`. In `NvramCli` it is one: `main` gives up.
- In `NvramStore` a write puts the header in place first, and may also erase
  the section; any mixture of old, new and unreadable header and data can be
  left behind, and a failing write may have written nothing or everything. The
  interfaces are shown to do no worse.
- `Devices` has at least one section. With none configured `nvram_commit` has
  no device, and passes NULL to `_write` (`nvram.c:191`).
- `nvram_commit` returns 0 without a write when `libnvram_serialize` writes
  nothing (`nvram.c:184`). `SizeExact` says that it never does, and `NvramStore`
  leaves that exit out.
- `set_gpio` takes a write of no byte for success when nothing has set `errno`;
  `Unprotect` has it, and the restore that does nothing is a restore that fails.
- In `NvramCli` reading a store is one step. Under the lock nobody writes
  meanwhile; the properties say nothing once the lock is stolen.
- Lengths do not wrap: the sum in `validate_entry` does in 32 bits, for data
  that no `libnvram_serialize` made, and so do the sizes of lists of 4 GiB,
  which no section holds. Keys and values have at least one byte, as those of
  the command line do.
- `print_entry` refuses keys and values longer than `INT_MAX`; the models have
  none.
- A first descriptor that is 0 would look like no lock to `release_lockfile`
  (`main.c:115`); file descriptors 0 to 2 are taken to be open.
- The devices of `NvramStore` and the partitions of `InterfaceMtd` start blank, a
  file or a variable absent, empty or with a whole section.

## The runs

| run | configuration | shows |
|---|---|---|
| `cli_two` | `NvramCli.cfg`: two invocations, two tries, ten requests | what is committed is the stored list with the operations done, so no update is lost (`CommitIsFresh`); every key stays in its store (`PrefixSeparation`); invocations are serial and each is all or nothing (`SerialUnlessStolen`) |
| `args` | `NvramArgs.cfg`: any five words | the operations are the arguments, each once and in order (`ArgvAccounted`); no operation has a NULL key and the array does not overflow (`TypeOK`); an accepted request is the whole command line, nothing is added but the `--list` of one without operations, a read is all there is and a write only writes (`NothingIgnored`) |
| `args_unlock` | any three words | expected violation of `UnlockNeedsMagic`, finding below |
| `lock_three` | `Lockfile.cfg`: three invocations, ten tries | the lock excludes unless a remove stole a file (`ExclusiveUnlessStolen`); two alone exclude each other (`RaceNeedsThird`); one waits only for one that is alive and inside, never for a file that was left behind (`WaitsForHolder`); `acquire_lockfile` returns (`AcquireReturns`) |
| `lock_race` | three invocations, three tries | expected violation of `MutualExclusion`, finding below |
| `store_two` | `NvramStore.cfg`: two sections | a write never starts on the last good section (`OneGoodSection`); counters never wrap and those of two good sections are neighbours, but in a reset (`CountersInStep`); equal counters mean equal data (`TieSameData`); the handle's memory is what a fresh read would give (`HandleCurrent`); no step loses the last good section (`NeverBlank`); a commit is atomic (`CommitIsAtomic`, refinement of `AtomicStore`) |
| `store_power` | `NvramStorePowerLoss.cfg` | `OneGoodSection` for the page cache; a loss of power at any moment leaves the list that was on the medium or that of the last write, unless two writes were in the cache together (`PowerLossIsAtomic`) |
| `file_section` | `InterfaceFile.cfg` | a file is a section (`FileIsSection`) |
| `mtd_section` | `InterfaceMtd.cfg`: two partitions, every labelling | a partition is a section (`MtdIsSection`); no other one is touched (`OtherPartitionsKept`); it is protected when at rest (`ProtectedAtRest`) |
| `efi_section` | `InterfaceEfi.cfg` | a variable is a section (`EfiIsSection`); it is immutable when at rest (`ImmutableAtRest`) |
| `efi_first` | `InterfaceEfi_first.cfg` | expected violation of `FirstWriteSucceeds`, finding below |
| `list_format` | `Libnvram.cfg`: three keys, four values | one node per key (`UniqueKeys`), the list is a map (`ListIsMap`), nothing changes place (`OrderKept`); `deserialize` undoes `serialize` (`RoundTrip`), the size asked for is the size written (`SizeExact`), the data iterator meets the same entries and stops (`IteratorAgrees`); `--list` prints every printable entry whole (`ListComplete`), `--get` prints the value and exits with 0, or prints nothing and fails, but for a string with a NUL inside, of which it prints nothing (`GetAnswers`), and it is silent with exit 0 about that kind of value only (`SilentSuccess`) |

### Bounds

*Command line.* Two invocations are what a lost update takes; a third one only
adds ways to steal the lock, of which `lock_three` says when they happen, and
after which `NvramCli` promises nothing. The ten requests are one of each kind:
two operations on two keys, or on one where the second undoes the first, a key
of the other store set (refused) and deleted, a read behind a write (refused), a
list, a get with and without the prefix, a locked and an unlocked system write.
Two tries let an invocation wait and time out. The theorems cover any number of
invocations, tries and operations.

*Arguments.* Every sequence of at most five of nine words, the seven options
and two plain strings, one of which has the prefix. Five words are two
operations with a `--sys` between them, or one operation and the broken
beginning of another. `MaxOp` is 2 (10 in the code): three operations overflow
it within the five words. `args_unlock` needs three, an operation with its key
and `--sys`.

*Lock.* Three invocations are the fewest with which the race happens: one that
removes, one with the unlinked file, one with the new one. `lock_three` has the
ten tries of the code. Invocations run once each, and `Inodes` has one for each.
They end, so the lock and command line runs do not check for deadlock; neither
do the runs of the arguments, which end with `exit`, and `mtd_section`, where
nothing can be done without the label.

*Store.* `UINT32_MAX` is 4: the counter takes 1, 2 and 3 and is then reset, so
that commits before, in and after a reset, and two resets in a row, all happen;
the rules compare counters only for order, so more values between would add
nothing. Three lists (the empty one and two others, which are interchangeable
and so a symmetry set) are the old list, the new one, and one that was there
before. Both sections start blank. Nothing bounds the number of commits or
crashes. `store_power` has one list and one counter value fewer, for the two
images more; a store that was never written (`NoList`) and the empty list are
told apart there, so that three values can be stored. A store of
one section is not run: the theorems about types, counters, ties and the handle
hold for it as for two. Those about the last good section do not: a failed
write loses it.

*Interfaces.* Lists of at most two entries, so that one can be longer or
shorter than the one it replaces, and counters up to 3 (`UINT32_MAX` 4) or 2.
A partition has three cells, one too few for the longest list, so that a write
that does not fit happens. Two partitions, each with the label, with another
one or not there, let the search find the first, the second, both or none.

*List, format and printing.* Three keys, one a prefix of another and no string.
Four values: an empty string, a string, bytes that are none, and a number whose
last byte is 0. The shortest entry has two bytes, which is the least that
`validate_entry` lets through. Lists have 0 to 3 entries in every order; each
call concerns one key, so three suffice for a neighbour on either side of a
removed node. For printing, every list is cut in two at every place, for the
system's and the user's, and every set of allocations fails.

### Fairness

`Acquire(p)` is weakly fair in `Lockfile`: a process that can run runs, and
`usleep` returns. Nothing is assumed of `Work`, so that the holder may hang.
`acquire_lockfile` returns because it counts its tries, whatever the others do.

`FairSpec` of `InterfaceEfi` is as generous as a platform can be: the process
takes its steps (`WF` of `Next`), it stops being killed some day, and the kernel
does not refuse for ever what it can do (`SF` of clearing the flag, of open and
of write). The write that fails even so fails because of the program.

No other property needs fairness.

## Findings

- `lock_race` (`main.c:121`): `release_lockfile` closes the lock file, which
  frees the lock, and then removes the name. If a second invocation opened the
  file before the remove, it locks an inode that has no name any more; a third
  one creates and locks a new file; both are inside. The proof of
  `LockExcludes` shows this race to be the only way, that of
  `LockRaceNeedsThird` that two invocations are not enough for it.
- `args_unlock` (`main.c:54`): the comparison with the magic is inverted, and
  the macro quotes a literal that has quotes already. Any value of
  `NVRAM_SYSTEM_UNLOCK` but the magic in double quotes unlocks the system store.
  The run gets `--del key --sys` accepted with another string in the
  environment, where the test at `main.c:479` is meant to answer `EACCES`; the
  one for `--set` (`main.c:465`) calls the same function.
- `efi_first` (`nvram_interface_efi.c:133`): a write clears the immutable flag
  before the open that would create the variable, and gives up with ENOENT when
  there is none. A store of EFI variables cannot be written for the first time.

Four more the runs do not have as violations, because no caller in the
repository gets there or because what is promised is not written down:

- `validate_entry` refuses an entry whose key and value have one byte together,
  though only when it is the last one (`libnvram.c:283`); the format in
  `libnvram.h` has no such limit. `RoundTrip` is about entries of two and more.
- A value that ends with a NUL and has another one inside is found by `--get`,
  not printed, and the exit status is 0 (`main.c:284`): the error is an `errno`
  that nothing has set. `SilentSuccess` says that it is the only such case.
- Without `fsync` (`nvram_interface_file.c:95`) both sections can be lost to
  one loss of power, when two writes wait in the page cache together. A counter
  reset writes twice within one commit. `PowerLossIsAtomic` says that it
  takes two, and leaves out what two do (`early`): nothing in the repository
  says what should survive.
- A restore of the write protection that fails is not looked at
  (`nvram_interface_mtd.c:277`, `nvram_interface_efi.c:167`): the write returns
  0 and the section stays open until the next one. `lapsed` names it.

## The proofs

| theorem | property | for |
|---|---|---|
| `CliTypeCorrect`, `CliPrefixSeparation` | `CliTypeOK`, `PrefixSeparation` | any invocations, keys, requests |
| `CliCommitIsFresh`, `CliIsSerial` | `CommitIsFresh`, `SerialUnlessStolen` | the same |
| `NothingPerformed`, `WritesBelong` | (of requests of any length) | the same |
| `LockTypeCorrect`, `LockExcludes`, `LockRaceNeedsThird`, `LockWaits` | `TypeOK`, `ExclusiveUnlessStolen`, `RaceNeedsThird`, `WaitsForHolder` | any number of invocations and tries |
| `StoreTypeCorrect`, `StoreCountersInStep`, `StoreTies`, `StoreHandleCurrent` | `TypeOK`, `CountersInStep`, `TieSameData`, `HandleCurrent` | one section or two, any counter size |
| `StoreKeepsGoodSection`, `StoreNeverBlank`, `StoreCommitIsAtomic` | `OneGoodSection`, `NeverBlank`, `CommitIsAtomic` | two sections, any counter size |
| `PowerKeepsGoodSection`, `StorePowerLossIsAtomic` | `OneGoodSection`, `PowerLossIsAtomic` | the same, over a page cache |
| `FileImplementsSection` | `FileIsSection` | lists of any length |
| `MtdImplementsSection`, `MtdProtectedAtRest`, `MtdOtherPartitionsKept` | `MtdIsSection`, `ProtectedAtRest`, `OtherPartitionsKept` | any number and size of partitions, lists of any length |
| `EfiImplementsSection`, `EfiImmutableAtRest` | `EfiIsSection`, `ImmutableAtRest` | lists of any length |
| `ListTypeCorrect`, `ListUniqueKeys`, `ListOrderKept` | `TypeOK`, `UniqueKeys`, `OrderKept` | lists of any length |
| `ListRefinesMap` | `ListIsMap` | lists of any length |
| `FormatRoundTrip`, `FormatSizeExact`, `FormatIteratorAgrees` | `RoundTrip`, `SizeExact`, `IteratorAgrees` | lists of any length, keys and values of any bytes |
| `PrintListComplete`, `PrintGetAnswers`, `PrintSilentSuccess` | `ListComplete`, `GetAnswers`, `SilentSuccess` | the same |
| `ArgsTypeCorrect`, `ArgsAccounted`, `ArgsNothingIgnored` | `TypeOK`, `ArgvAccounted`, `NothingIgnored` | command lines of any length, any `MaxOp` |

Assumptions: `CounterAssumption` (`UINT32_MAX` is at least 3: with fewer
values a reset would write a counter that is already in use),
`DevicesAssumption` (a section is configured), `RetriesAssumption` (at least
one try), `RequestsAssumption` and `SystemKeysAssumption` (what the constants
are), `ContentsAssumption` (lists are sequences of entries),
`BytesAssumption` (keys and values are sequences of one byte or more),
`SizesAssumption`
(numbers), and `GarbageAssumption`, `ListAssumption`, `NoValueAssumption`,
`NoneAssumption`, `NullAssumption`, `NoImageAssumption`, `NoBytesAssumption`
and `NoVariableAssumption` (the special values are not among the others). Those
about two sections assume `Transactional`; with one, a failed write does lose
the store.

*Command line.* `CliInv` adds to the lock's invariant that an accepted request
has been checked (`Checked`), that the lists in memory keep the prefix rule
(`ListsBelong`), and, while the lock is not stolen, that what an invocation has
read is still what is stored (`Fresh`). `Fresh` is kept because only an
invocation inside the lock writes, and `LockExcludes` lets no other be inside.
That the operations of a request keep types and prefixes, and that a request in
which no operation found anything to change changes nothing, are inductions on
the length of the request. `IntervalInduction` does them without a theorem of
the library: a smallest counterexample of a finite set of positions.
`CliIsSerial` maps `RunWrites` to `Redundant` or a stutter, `CommitInstalls` to
`Write`, and the returns to `Finish` and `Fail`.

*Lock.* `LockInv` adds to the types that a holder has its file open and is
inside, that, as long as nothing was stolen, an open lock file is the one the
name is a link to (`OneFile`), and that a try is left whenever flock is called
(`TryLeft`). Two invocations inside would then hold the same inode. `LockWaits` needs only
that whoever holds a flock is inside.

*Store.* The properties are not inductive: which section is safe to write
depends on the transaction in memory, which depends on what the devices held
when it was filled in. `StoreInv` says how the two relate at every `pc`. While
the handle is open, `trans` is, section by section, what a read of the devices
gives (`Exact`). From the first write to the last, the section not being
written is exact, and the one being written is what it was, or unreadable, or
wholly new (`OldOrNew`). The lemma that carries the rest is that a half-written
section does not verify: its data is not the data its header's checksum is of.
In the second write of a reset the roles change: the section that was written
is complete under counter 1, and the kept one is old, unreadable or complete.
`HeadersGood` bounds the counters on the devices by `UINT32_MAX - 1`, which is
why the increment never wraps. With one section the in-memory states drift from
the device (section A may be called good that does not exist), and `SingleSound`
and `HandleCurrent` carry the little that stays true: the current header and
list. The refinement follows: `stored` changes at the step that completes the
new section, or, in a reset, at the step that first damages the old one, whose
counter is higher until then.

`TieSameData` and `CountersInStep` are not part of `StoreInv`; they are kept by
every step that `StoreInv` allows (`TiesKept`, `RewriteInStep`). A step that
changes a section is the one write under way (`ChangesRewrite`), and if it
leaves the section good, its counter was chosen from the other one's. That the
counters stay below `UINT32_MAX` is `HeadersGood`; that those of two good
sections are in step needs only itself and `StoreInv`.

*Power.* `PowerInv` adds to `StoreInv` that, while no write began early, medium
and cache differ by the pages of one write (`OneWritePending`): both are
mixtures of an old image and the new one, and any such mixture in that section
is read as `durable` or `latest`. `OneWriteIsAtomic` is the fact behind it.
Mixed pages verify only as the old image or with the new list, and the section
beside the target holds what is stored, or, in the second write of a reset, the
new list already (`BesideTarget`).

*Interfaces.* `SectionBytesProofs` has the facts of `Decode`: a buffer decodes
to the image it was made of, cells behind it do not count, a torn header does
not pass, and under a whole new header the data are the new list or unreadable.
The invariants `FileInv`, `PlatformInv` with `FlashInv`, and `EfiInv` say which
cells are new after `pos` of them are written; each step then maps to a step of
`SectionDevice`. A short list over a long one, whose tail stays in the file, is
the case that the invariant is for. `ProtectedAtRest` and `ImmutableAtRest`
hold because every way out of a write, once the protection is lifted, leads
through the step that restores it.

*List.* `UniqueKeys` is inductive with the types, and is what the code relies
on when it stops at the first match. `Found` says that a search returns the
only match; `RemoveNodes` where each node goes when another is unlinked. Both
refinement and order follow from them.

*Loops.* What a loop computes needs an induction over its turns, and before it
the fact that the recursive function is defined at all. The library's theorems
for both take an operator, which the provers cannot instantiate. The proofs use
sets instead. `FirstPosition`: a set of positions has a first (the strict
subset order of finite sets is well-founded). `IntervalInduction`: a set that
has 0, and `n + 1` with every `n`, has the whole interval. `IntervalRecursion`:
a recursion whose steps, themselves given as a function, stay in a set defines
a function. `SameRecursion`: only one.

*Format.* `DataHolds` says that entry `n` lies in the data where the first
`n - 1` end, passes `validate_entry` there, and ends where the next begins;
behind it are `WriteEntryCells` (one entry, cell by cell) and `DataPrefix`
(what is written stays as it is). So each loop over the data is at the
boundary of an entry after each turn, or at the end (`AtStep`, `AtEnds`), and
the list built up so far is the part read so far (`TurnsOfData`). That step
needs `ListInv`: `libnvram_list_set` appends because the key is new
(`SetRebuilds`). There are never more turns than cells, which is why the loops
end.

*Printing.* `PutWhole` is about one `snprintf` (or `append_hex` and one): with
two bytes more room than `calc_size` counts, the text is put whole, and the
count is wrong exactly for a NUL inside a string. `FormatLine` and
`FormatValue` add up the sizes: nothing is ever cut. `JoinsSplit` puts what is
printed of the two stores together; `GetOfStores` and `GetResult` go through
the outcomes of `--get`, where unique keys mean that one store answers.

*Arguments.* `ArgvAccounted` says at which words each operation was read, that
those of different operations do not overlap, and that every other word was
`--sys`; `ArgsInv` adds the types and that an accepted request has passed the
checks of `main`, from which `NothingIgnored` follows: at the check the operations still account
for the whole command line, or there are none and the `--list` is added. Each option reads its
words behind all that were read, so the places of the earlier operations stay.

Only model-checked: `AcquireReturns` and `FirstWriteSucceeds`, as liveness is
out of the prover's reach.

## What is not modelled

The CRC itself, which is ideal here; debug output; the usage text; the paths of
the sections and the environment variables that give them; the tests and the
build. Of the kernel, only what the calls in the code can see. `PROJECT.json`
has a line on each part.

## The plan

What is left, in the order of what it would show:

1. `libnvram_deserialize` and the iterator on bytes that `libnvram_serialize`
   did not make: that whatever passes `libnvram_validate_data` gives a list with
   unique keys, and that no loop reads behind the data, with lengths in 32 bits.
2. A bound on the steps of `acquire_lockfile` as a safety property, so that
   what `AcquireReturns` rests on is proved for any number of tries.
