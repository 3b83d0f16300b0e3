# A TLA+ verification project for BBoot

BBoot is a boot loader for AmigaOS on three PowerPC boards (AmigaOne,
Pegasos2, Sam460ex). It runs alone on the machine: it finds out what board it
is on, sets up PCI, finds a zip with the Kickstart modules in memory, extracts
the modules of a configuration, links them into an AmigaOS exec list and jumps
to the AmigaOS loader. There are no threads and no interrupts. What is hard is
memory without an allocator (fixed addresses, claims that keep no record),
32-bit arithmetic at its edges, input in any order (the Kicklayout text, the
cards on a bus, the size of memory, the bits of a deflate stream), steps that
fail half way, and hardware that goes on while it is being set up (interrupt
lines, a decrementer, a serial port, the TLB the code itself runs from).

## Inventory

| Component | State it keeps | Operations | Interacts with | What makes it correct |
|---|---|---|---|---|
| Kickstart loader (`boot_aos.c`) | `avail`, `kicklist`, the label counter, the text it parses in place | `boot_aos_zipkick`, `load_module_from_zip`, `add_module` | zip reader, `brd.claim`, exec list | nothing in use is overwritten; writes stay in claims; the list is exactly the configuration asked for; a failure returns nothing |
| Exec list (`include/aoslist.h`) | header of three pointers that double as two nodes | `alist_init`, `alist_add_tail` | used by the loader, walked by AmigaOS | both walks meet the same nodes |
| Claims (`brd_*.c`) | none (`no_claim`), the firmware's (`of_claim`) | `claim` | loader, `start` | grants lie in memory; failure is noticed |
| PCI setup, AmigaOne and Sam460 (`brd_amigaone.c`, `brd_sam460.c`) | `ioavail`, `memavail`, device registers | `*_setup`, `setup_pci_device`, `addr_for_bar` | PCI configuration access | BARs aligned, apart, in their windows; all visited; decode bits match; the scan ends |
| PCI setup, Pegasos2 (`brd_pegasos2.c`) | the same plus `ioresavail` and device tree properties | `check_one_bus`, `bases_for_bus`, `addr_for_bar` | Open Firmware | the same, with a reserved I/O area that is rewound |
| Memory probe (`brd_amigaone.c`) | the recursion of `find_memory_size` | `find_memory_size`, `amigaone_init` | the hardware | ends, with the size of memory |
| Sam460 bring-up (`brd_sam460.c`) | TLB entries, UIC, timer, bridge windows | `setup_tlb`, `setup_uic`, `setup_timer`, `setup_pom`, `sam460_init` | device tree | the running code stays mapped; TLB, windows and BAR range agree; no stale interrupt or tick; the timer ticks |
| Boot sequence (`bboot.c`) | `brd`, `vlvl` | `start` | everything | the archive used is one somebody named, with its own length; the hand-over happens with a complete list and a command line that was read |
| Device tree reader (`fdt.c`) | position, depth, in-target flag | `fdt_find_prop` and three getters | `sam460_init` | finds the node's own property if it has one, never one from outside the node, reads within values |
| Zip reader (`zip/zip.c`) | current directory entry | `zip_findLen`, `zip_openBuffer`, `zip_file_find`, `zip_file_extract` | inflate | every entry is found, nothing else is; never more than its size is extracted |
| Inflate (`zip/puff.c`) | bit buffer, positions, code tables | `puff` | zip reader | output is what the stream says, within the buffer; return codes and lengths are right; ends |
| Open Firmware calls (`drivers/prom.c`) | three handles | one call each | firmware | errors are told from answers |
| Configuration string (`cfg.c`) | an option string | `cfg_init`, `cfg_is_option`, `cfg_get_option` | `start` | an option belongs to the setting it follows |
| Console (`drivers/console.c`) | the list of drivers | `console_add_output_driver`, `puts`, `putchar` | UART, Open Firmware | every driver gets every text, once and in order |
| UART (`drivers/uart8250mem.c`) | its registers | `uart_init`, `uart_tx_byte`, `uart_tx_flush`, `uart_rx_byte` | console | calls return; no byte is lost unless a time-out passed |
| PCI configuration access (`drivers/pci.c`) | the address register | reads and writes of 1, 2 and 4 bytes | PCI setup | the configuration space is an array of bytes |

The list of what is hard to test, with the line where it bites and the
properties that watch it, is `hazards` in `PROJECT.json`.

## Modules

| Module | Models | Role |
|---|---|---|
| `Memory` | `ROUND_UP`, `ROUND_DOWN`, unsigned sums | operators, with the word size as a constant |
| `AosList` | `include/aoslist.h` | operators on a list record |
| `KickList` | - | abstract specification: a sequence of modules that grows at its end and is handed over once |
| `KickLoad` | `boot_aos.c`, the boards' `claim` | the loader as a state machine, implements `KickList` |
| `MemoryProofs` | - | lemmas on rounding, remainders, least elements and induction over an interval, used by the other proofs |
| `KickLoadProofs` | - | theorems about `KickLoad`, with its refinement of `KickList` |
| `PciSetup` | PCI setup of AmigaOne and Sam460 | state machine |
| `PciSetupProofs` | - | theorems about `PciSetup` |
| `MemProbe` | `find_memory_size`, the size in `amigaone_init` | state machine |
| `Boot` | `bboot.c`, with the calls of `drivers/prom.c` it makes | state machine; what the parts do is a choice among their outcomes |
| `Pegasos2Pci` | PCI setup of the Pegasos2 | state machine over device trees |
| `Pegasos2PciProofs` | - | theorems about `Pegasos2Pci` |
| `SamMap` | `setup_tlb`, `setup_pom`, the stack of `sam460_init` | state machine, a TLB word or a register per step |
| `SamInterrupts` | `setup_uic`, `setup_timer` | register writes interleaved with the hardware |
| `StartProofs` | - | theorems about `Boot`, `SamMap`, `SamInterrupts` and `Fdt` |
| `Fdt` | `fdt.c` | state machine over tokens |
| `Zip` | `zip/zip.c` | state machine over archives |
| `HuffmanCode` | `construct()` of `zip/puff.c` | operators |
| `Huffman` | `bits()`, `decode()` | state machine over bits |
| `HuffmanProofs` | - | the theorem about `Huffman`, with lemmas about `HuffmanCode` |
| `Puff` | `stored()`, `fixed()`, `dynamic()`, `codes()`, `puff()` | state machine over any stream |
| `ArchiveProofs` | - | theorems about `Puff` and `Zip` |
| `Cfg` | `cfg.c`, `strspn()`, `strcspn()` | state machine that grows the string |
| `Console`, `Uart` | `drivers/console.c`, `drivers/uart8250mem.c` | state machines, a driver's call or a poll per step |
| `PciSpace` | - | abstract specification: an array of bytes per device |
| `PciConf` | `drivers/pci.c` | state machine, implements `PciSpace` |
| `IoProofs` | - | theorems about `Uart`, `Cfg` and `Console`; that `PciConf` implements `PciSpace` |
| `MCKickLoad`, `MCPciSetup`, `MCMemProbe`, `MCPegasos2Pci` | - | small instances for TLC, each of one module |
| `MCLoad` | - | the way of a module into memory: `MCKickLoad` with `Zip`, `Puff` and `Huffman` |
| `MCSam460` | - | a Sam460: `MCPciSetup` with `Fdt`, `SamMap` and `SamInterrupts` |
| `MCAmigaone` | - | an AmigaOne: `MCPciSetup` beside an instance of `MemProbe` |
| `MCStart` | - | `Boot` with what it uses everywhere (`Cfg`, `Console`, `Uart`, `PciConf`), and a Pegasos2 (`MCPegasos2Pci`) |

The last four put modules side by side that call each other only as a whole:
`sam460_init()` reads the device tree before it writes the TLB, `zip_file_extract()`
calls `puff()` once. A behaviour is one of them (`unit` says which), so each is
explored fully and none multiplies the states of another. The modules that
theorems are about are extended rather than instantiated, so that TLC evaluates
their assumptions and checks the very definitions the theorems state. Their
variables therefore have names of their own: the place in the code is `stage` in
`SamMap`, `Puff` and `Pegasos2Pci`, `call` in `Uart`, `pos` in `SamInterrupts`, `at` in `Zip`, `phase` in `Cfg`, `reader` in `Fdt` and
`doing` in `Console` and `Huffman`, and `codelen` is `decode()`'s `len`. Where one
relies on another it relies on what that one is shown to do: `KickLoad` on files that
extract or not (`Zip`), `Zip` on `puff()` filling at most the space given
(`Puff`), `Puff` on `decode()` returning a symbol of the code (`Huffman`), `Boot`
on a list or NULL (`KickLoad`), `PciSetup` on registers that read and write as
bytes (`PciConf`).

### How KickLoad corresponds to the code

One action is one trip through the loop of `boot_aos_zipkick()` over a line of
the Kicklayout, with everything `load_module_from_zip()` and `add_module()` do
for it; `LoadKicklayout` and `NoKicklayout` are what comes before the loop,
`Finish` what comes after it. The text is not fixed at the start: each step
chooses the next line among the kinds the code tells apart (blank or comment,
`LABEL`, `EXEC path`, `MODULE path`, anything else, a line with a NUL in it) and
records it in `text`, so every text up to the bound is covered. A file of the zip is its
size and whether `zip_file_extract()` succeeds. Pointers are real addresses,
the sizes of the structs are the ones of a 32-bit build.

`live` (what is in use: the zip, the text, the list header, images, structs
with their names), `claims` (what `claim()` granted) and `refused` (Open
Firmware answered -1) only observe; no guard reads them except that Open
Firmware's own bookkeeping is `claims` plus the regions it held before.
`prom_claim` and `PROM_ERROR` are external: they are modelled from how the code
in `drivers/prom.c` and `brd_pegasos2.c` uses the firmware.

`Roomy` names the machines the fixed addresses suit: no sum wraps around and,
where `no_claim()` decides, the zip with the text behind it and every file at
`exec_addr` end at or below `KICKLIST_ADDR` and lie apart. The theorems about
memory are for those machines; two of the violation runs show what happens on
others.

### How PciSetup corresponds to the code

`EnterFunction` is `setup_pci_device()` up to its loop, then `NoBar`, `MapBar`
and `CannotFit` are one trip each, with `addr_for_bar()` inside; `SouthBridge`
is the early returns of the AmigaOne's slot 7 and `Absent` the one for an empty
slot; `Advance` is the loops of `amigaone_setup()` and `sam460_setup()`. `Board`
selects the interrupt routing and the special slots. Addresses count in units
of four bytes, so Word is 2^30 and the windows are the boards' own; what a BAR
reads as after all ones were written is abstracted to kind and size, a size of
0 being the lower half of a 64-bit BAR of 4 GiB or more.

### How MemProbe corresponds to the code

`ProbeHit` and `ProbeMiss` are the loop, `LookFurther` the recursive call,
`NoMore` the return, `InfoSet` the assignment (and the cap of the G5 build) in
`amigaone_init()`. Since the code only adds the inner result, the stack of
calls is kept as the sum of what its frames found.

### How Boot corresponds to the code

One action per stage of `start()`, in its order: which board the registers
stand for (`StartSam460`, `StartAmigaOne`, `StartOF` with `prom_init()`,
`CheckModel`), `cfg_init`, the console's drivers, `Setup`, where the archive
is (`FindInitrd`), `ZipKick`, the command line (`ArgsFromOF`,
`ArgsFromLoader`), the jump and the ways back. Without an entry point every
call of the client interface answers -1, which is modelled where
`call_prom()` does it. Addresses and lengths of the archive are unsigned numbers
modulo `AddressSpace`, 2^32 in the program. The firmware's answers are external: any property may
be missing, a claim refused, a read short. A refused claim is used as the
address of the command line, as in the code.

### How Pegasos2Pci corresponds to the code

Two buses with `bases_for_bus()` (`NoRanges`, `BasesForBus`), then a node per
`check_one_bus()` iteration (`SkipNode`, `EnterNode`), a BAR per step of its
first loop (`AssignBar` with `addr_for_bar()`) and of its second (`WriteBar`),
and the property that is set at the end (`NodeDone`). The window variables are
static in the code and keep their values from bus to bus here as well, for a
window that the ranges of a bus do not state; a stated 0 is stored. The slot of
the south bridge has the reserved I/O area on either bus; the second one has
none of it, so that an I/O BAR there is refused. A tree is given: what a firmware
may have assigned, which windows a bus states, which nodes cannot be read or
written.

### How SamMap and SamInterrupts correspond to the code

`SamMap` executes the writes of `setup_tlb()` word by word on the 64 entries,
starting from QEMU's single entry that the code runs from, and those of
`setup_pom()` register by register on a bridge with arbitrary old windows. The
table is the one of the source; memory sizes vary. `SamInterrupts` executes the
register writes of `setup_uic()` and `setup_timer()`; between any two of them
asserted lines are latched according to the current polarity and the
decrementer counts, also between the write that starts it and the one that
enables auto-reload. The controllers, the decrementer and the bridge are
external.

### How Fdt corresponds to the code

The structure block is not fixed: each step reads any token that fits the
format or breaks it (`seen` records it), and moves `depth`, `in_target` and the
pointer as `fdt_find_prop()` does; the three getters are operators on what was
found.

### How Zip, Huffman and Puff correspond to the code

`Zip` works on the records of an archive at their byte offsets, with the real
sizes of headers; the two searches for the end record, `zip_readdir()`,
`zip_file_find()` entry by entry and `zip_file_extract()` are its steps.
`Huffman` runs `bits()` and `decode()` in any order on one stream; `decode()`
goes bit by bit with its own copy of the bit buffer. `Puff` takes the next
bits or symbol as a choice, so one behaviour is one stream and all streams are
covered; each read that would pass the end is the longjmp to error 2. The
deflate constants (code lengths, tables, alphabet) are parameters, so that TLC
can use small ones; `Calls` are the lengths of the buffers and the types of
block a run looks at, which the proofs leave open. `tokens` records what the stream said and is only read by
properties.

### How Cfg, Console, Uart and PciConf correspond to the code

`Cfg` grows a string of the documented format, then trims and queries it.
`Console` takes one call of a driver per step, so drivers are told apart at
every point of a text. `Uart` takes one poll per step beside a transmitter and
a receiver that may do nothing; `i` counts modulo `Wrap` as an unsigned long
does, so that the loops end with the values the code's tests see. `PciConf`
separates the write to the address register from the access to the data port.

## Runs

| Run | Question | Result |
|---|---|---|
| `load` | the second configuration of every text of up to 5 lines on 15 machines; directories, codes and streams | nothing overwritten, the list sound and the one asked for; files found and extracted, symbols decoded, output right and bounded; inflating ends |
| `kick_refusing` | does a refused claim end the boot? | no: -1 is used as an address on the Pegasos2 |
| `kick_long_zip` | is the space behind the zip free? | no: a zip that reaches `exec_addr` has its text overwritten |
| `kick_low_stack` | is the top of memory left to the stack? | no: `no_claim()` grants it |
| `sam460` | device trees, TLB, PCI windows, interrupts and timer, 512 buses | the node's property is read, the code always mapped, nothing stale, interrupts and the timer arrive; BARs apart, aligned, in the windows, refused only when there is no room; the scan ends |
| `fdt_subnode` | is only a property of the named node itself returned? | no: a subnode's is, if the node has none |
| `amigaone` | memories of one or two DIMMs, 343 buses | the right size is found; every BAR is dealt with, decoding matches what is mapped; both end |
| `pci_big_bars` | are oversized BARs refused? | no: the sum wraps for 1 GiB |
| `mem_any_size` | does the probe end for any multiple of 16 MiB? | not for three or more bits |
| `mem_g5` | is the G5's memory capped to 360 MiB? | no: to 1 GiB |
| `start` | every start; options, texts, serial bytes, configuration accesses; 610 device trees of a Pegasos2 | one archive, a complete hand-over; options as documented, no byte lost without a time-out, calls return, the bridge implements an array of bytes; BARs apart and in the window of their bus, tree and registers agree, a firmware's addresses stay |
| `pegasos2_one_range` | is a bus that lacks a window refused? | not the second one: it uses the window of the first |

The runs expected to fail are the entries under `findings`, each against the
comment, message or document it contradicts.

### Bounds

* `MaxLines` 5 with the second configuration: two labels, the loader, a module
  and one more line of any kind, so a full list can be followed by another
  label, a bad line or a failing claim, and lines of the first configuration
  can come before it. 4 with the first configuration in the runs that fail.
* Sizes and name lengths: a file of 101 bytes (not a multiple of 4), a name of
  28 characters (36 + 28 + 1 is one more than a multiple of 32), a path that ends in `/`,
  and machines whose zip has a file that does not extract or lacks one.
* Memory sizes: chosen so that in turn the text, the list header, the loader,
  its struct and the first module are the claim that fails.
* Buses: three or eight slots instead of 32 (the loop does nothing else for
  the rest), with BARs from nothing to half a window, so that windows fill up,
  alignment leaves gaps and BARs fit exactly.
* Memories: every combination of two powers of two from 16 MiB to 2 GiB, with
  and without init RAM at 1 GiB (`amigaone`); powers of two from 64 MiB to 2 GiB
  for the TLB and the windows.
* Starts: the registers of each of the three loaders with and without archive
  and command line, and all device trees over a few values, empty and missing
  properties included.
* Device tree: 6 tokens and depth 3 are enough for the node, a subnode in it, a
  node before or behind it and properties in all of them.
* Pegasos2: the five functions of the VT8231 with their BARs and every pair of
  cards out of sixteen, which fill the I/O window and part of the memory window; first
  buses that lack a window, state 0, are unknown or have no ranges; a card in the
  south bridge's slot of the second bus.
* Archives: up to four entries with and without extra field, comment, long
  name, bad data, wrong count of entries, unknown length, a stored zip inside.
* Codes: 4 symbols with up to 3 bits, bytes of 2 bits (so that a code spans
  three bytes), 3 bytes of input.
* Streams: 24 bits for stored and fixed blocks, 28 for stored and dynamic ones,
  two literals, two lengths, two distances; spaces of 4 and 3 bytes, less than
  such a stream can put out. `MaxStored` 2.
* Strings of 7 characters (two settings with options, blanks at both ends and
  between), texts of 3 characters and 2 texts per driver, 3 bytes in each
  direction of the serial port with time-outs of 2 and 3 polls, one write to a
  patterned configuration space of two devices with 8 registers each.

`KickLoad` and `PciSetup` scale nothing else: with Word at 8192 the loader's
addresses are small, but no property depends on their size except through
`Roomy`, and the proofs hold for every Word.

Every property has a mutant: an operator next to the one it replaces (such as
`module_clen_bug`, `alist_add_tail_pred`, `Behind_reuse`) that is the code with
a plausible slip. TLC finds the property violated with it.

### Fairness

* `PciSetup!FairSpec`, `MemProbe!Spec`, `Puff`: weak fairness of the
  whole next-state relation. BBoot is the only thing that runs, never waits for
  an event in these functions and is not interrupted, so as long as it can take
  a step it does.
* `Console`: of `WriteLine` and `putchar`, the two loops of `puts()`; nobody
  has to print anything.
* `Uart`: of the code while a call is under way. The port has no fairness at
  all, so that `AllCallsReturn` covers one that is stuck forever.
* `SamInterrupts`: of the code's writes, of the decrementer, of latching an
  asserted line, and of AmigaOS answering a tick. Without the last one the
  timer's interrupt would be seen only once.

### Limits the instances respect

Some behaviours are in the modules as the code has them, but the instances of
the passing runs are chosen so that they do not occur. They were looked at
with TLC and are limits of the code rather than of the model:

* An I/O BAR on the VT8231's modem function shares addresses with other
  functions after the rewind, and a memory BAR of 2 GiB wraps the sum in
  `addr_for_bar()` (`BarsApart` does not hold). An I/O BAR that is refused is written
  with 0 minus the window's base. The second bus states both of its windows
  (`OwnRanges`); `pegasos2_one_range` is the case outside.
* With more than 2 GiB `setup_tlb()` maps more than what `sam460_init()` takes for
  the end of the mapping; the stack is still in mapped memory.
* If the processor is held up for a whole tick between the write that starts
  the decrementer and the one that enables auto-reload, the timer stops for
  good. The `sam460` run has this case: `TimerTicks` demands the first tick in any
  case, and that they go on only if the decrementer is still running when
  `setup_timer()` is done.
* A function with a BAR that was refused may decode the space of that BAR, which
  still has the ones it was sized with. `DecodesWhatIsMapped` demands that nothing
  but the spaces of its addresses is decoded only of functions without a refused BAR.
* A comment in the central directory hides the entries behind it, an entry with
  a name longer than 255 ends the search, and an archive of unknown length with
  a stored zip inside is read up to the inner end record. `FindsFiles` says so
  in its conditions, and the instances contain all three.
* A code without symbols passes `construct()` as complete though `decode()` fails
  with it (the comments of `zip/puff.c` say both).
* `TreeRead` leaves open what `fdt_find_prop()` returns when the node does not have
  the property but a subnode has; `fdt_subnode` is about that.
* A line end inside the configuration string does not separate settings.
* On the G5 `SizeIsRight` demands no more than that the size reported is not above
  the memory there is nor, where it is capped, below the 360 MiB that the comment
  calls usable; that it is capped to these is the matter of `mem_g5`.
* `uart_rx_byte()` reads the data register after a time-out too. What it returns
  then is not looked at: nothing in the repository calls it.
* What stands in front of an empty configuration string decides how far
  `cfg_init()` goes back; `Cfg` does not have those bytes.

## Proofs

Every theorem holds for every value of the constants that satisfies the
assumptions of its module, which give constants their types and state facts of
the tables in the source (such as: every distance symbol has an entry in
`dists[]`). TLC evaluates the assumptions in the runs. Where a theorem has a
further hypothesis it names a definition, explained below; the run of the same
property uses instances that satisfy it.

| Theorem | States | Under |
|---|---|---|
| `KickLoadProofs!TypeCorrect` | types | - |
| `Disjointness`, `Containment`, `InMemory` | `LiveRegionsDisjoint`, `WritesWithinClaims`, `ClaimsWithinMemory` | `Roomy`, the last two not `refused` (in the properties) |
| `Walkable` | `KicklistWellFormed` | `Roomy` |
| `MatchesText` | `ListMatchesText` | `Roomy` |
| `Refinement` | `KickListSpec` | always `Roomy` and not `refused` |
| `PciSetupProofs!TypeCorrect` | types | - |
| `Disjointness`, `Windows` | `BarsDisjoint`, `BarsInWindow` | `SizesFit` (in the property) |
| `Alignment` | `BarsAligned` | - |
| `Refusals` | `RefusedOnlyWhenFull` (an action property) | `SizesFit` |
| `Completeness` | `EveryBarVisited` | - |
| `Decoding` | `DecodesWhatIsMapped` | `SizesFit` |
| `Pegasos2PciProofs!TypeCorrect` | types | - |
| `InWindows` | `BarsInWindow` | `OwnRanges`, `RangesFit` |
| `Kept` | `FirmwareKept` (an action property) | `OwnRanges`, `FirmwareFits` |
| `Agreement` | `TreeMatchesRegisters` | all three |
| `Apart` | `OrdinaryApart`: BARs outside the reserved area never overlap | `OwnRanges`, `RangesFit` |
| `ApartOnVT8231` | `BarsApart` | and `HasVT8231` |
| `ApartWithFirmware` | `BarsApart` | and `SouthbridgeDone` |
| `StartProofs!TypeCorrect`, `OneInitrd`, `HandOver` | types, `InitrdFromOneSource`, `HandOverReady` | - |
| `LeavesNothingStale` | `NothingStale` | - |
| `CodeMapped` | `CodeStaysMapped` | - |
| `MemoryIsMapped`, `EveryAddressMapped` | `MemoryMap`, and `AllMemoryMapped`: the same for every address instead of the ends of pages | `SamSize` |
| `PciIsReachable`, `EveryBarReachable` | `PciReachable`, and `AllBarsReachable`: the same for every address a BAR may get | memory sizes in `BankSizes` |
| `TreeIsRead` | `TreeRead` | - |
| `ArchiveProofs!TypeCorrect`, `Bounds`, `Inflates`, `ReturnsRight` | types, `InBounds`, `OutIsExpansion`, `ReturnIsRight` | - |
| `ZipFindsFiles`, `ZipExtractsWanted` | `FindsFiles`, `ExtractsWanted` | `LaidOut` |
| `HuffmanProofs!DecodesCode` | `DecodesCanonicalCode` (an action property) | - |
| `IoProofs!TypeCorrect`, `NoLoss` | types, `NothingLost` | - |
| `AnswersAsWritten` | `OptionsAsWritten` | - (the string is of the documented format) |
| `TextsArrive` | `AllTextsArrive` | - |
| `Refinement` | `ImplementsSpace`: every step is one of `PciSpace` or a stutter | - |

### The hypotheses

* `Roomy`: the machines the fixed addresses suit, see `KickLoad` above. The
  violation runs `kick_long_zip` and `kick_low_stack` are outside it.
* not `refused`: Open Firmware answered every claim with an address.
  `kick_refusing` shows what the code does otherwise: it goes on with -1, and
  then no list in memory is promised.
* `SizesFit`: the end of the window plus twice the size of a BAR is below 2^32,
  so the sum in `addr_for_bar()` cannot wrap. `pci_big_bars` is the case outside.
* `OwnRanges`: the second bus, if it has ranges, states both windows in them. The window
  variables are static and keep the first bus's values otherwise, which is what
  `pegasos2_one_range` shows.
* `RangesFit`: the windows of a bus that is walked hold the reserved I/O area
  and end in 32 bits, and the end of a window is a multiple of the size of any
  BAR on the bus (the machine's memory windows end at 0xc0000000 and
  0xe0000000, its I/O windows are 64 KiB, and sizes are powers of two).
* `FirmwareFits`: what a firmware has assigned is on a bus that is walked, with
  I/O addresses not below the window. The setup turns such an address into a
  register value by subtraction.
* `HasVT8231`: no firmware has set up the south bridge, and its IDE, two USB and
  the sound function are found in this order with the I/O BARs a VT8231 has, which are
  what the reserved area was laid out for; cards of any kind and number may lie before,
  between and behind them. The area is at the addresses of the code, the first bus has
  the first memory window and the second one does not have it.
* `SouthbridgeDone`: on a bus with the first memory window no function in the slot of the
  VT8231 has an I/O BAR left to assign, as with the original firmware. TLC evaluates that every tree of the run satisfies
  one of the two (`MeantTrees`).
* `LaidOut`: what a zip file is. It starts with a local header, its directory
  lies without gaps between the place the end record names and the end record
  itself, which is less than `MaxZip` away, names are as long as they say and a local
  header belongs to the file whose entry points to it. What is in the archive is open: how
  many entries, comments, extra fields, long names, data that does not inflate, a
  wrong count, another zip inside. TLC evaluates `LaidOut` on every archive of the
  run (`ArchivesLaidOut`).
* `SamSize`: more than 1 MiB and at most 2 GiB of memory, which is where the
  static table has room for it. The default of `sam460_init()`, 512 MiB, is one.
* `BankSizes`: the powers of two from 32 MiB to 2 GiB, the sizes QEMU's Sam460ex
  can have. The size of the inbound window is a mask of address bits, which does
  not cover every page of another size.

### The arguments

*Induction over lists and streams.* The provers cannot instantiate an induction
scheme, but `MemoryProofs!IntervalInduction` needs none: a set that contains 0
and with k also k + 1 contains all of `0 .. n`, because otherwise the missing
numbers could be moved down by one into a smaller set (the pigeonhole theorem
on finite sets). What a recursive function computes step by step, such as the
walk `ForwardAt` along the kicklist or the `Expansions` of a deflate stream, is
proved with it.

*KickLoad.* `LiveRegionsDisjoint` is not inductive: that two uses are apart says
nothing about the next claim. `KickInv` adds where the claims are (`IsText`,
`IsExec`, `IsKick`: the text behind the zip, the loader at `exec_addr`, all else
between `KICKLIST_ADDR` and `avail`), that every use lies in a claim, that
before the label of the configuration nothing was claimed but the text, and
that the loader is only loaded while the list is empty, since a second image at
`exec_addr` would overlap the first. `GrantedAtAvail` and `GrantedAtExec` say
where a granted claim can be, on either kind of board, and `ClaimsGrow` turns
that into the invariant of the next state. For the list, `OrderInv` adds how far
the text was read (`ReadInv`), that the nodes form one chain whose pointers
agree in both directions and whose ends are the two nodes of the header
(`ChainInv`; the structs are apart by `KickInv`, so that linking one in changes
no other), and that the chain follows the lines of the configuration in order
(`FollowInv`). The walks are then the chain, and the refinement maps each step
to appending a module, handing over, giving up or nothing.

*PciSetup.* `PciInv` says that what is mapped ends at or below the allocator and
the allocator lies within its window; the rounding lemmas bound what alignment
adds. Alignment is a separate invariant, as it needs no bound. `ScanInv` relates
the position of the scan to what was done: functions ahead are untouched, those
behind are done, those under way up to the current BAR, and nothing but real
BARs was written. `DecodeInv` ties the command register to the spaces mapped.

*Pegasos2Pci.* `OwnInv` (the bus at work uses its own windows, given `OwnRanges`) is
needed by all the others, since the variables outlive a bus. `RangesInv` adds that devices
ahead are untouched, that the allocators are between the reserved area and the
end of their windows, and that everything placed lies in its window.
`KeptInv` follows what the firmware assigned through the write of the same
value; `AgreeInv` adds what the write loop has done so far (`WrittenInv`) and
that devices behind are settled; `ApartIInv` that the allocators are above what
they gave out. That does not hold for the reserved area, which is rewound: there
`SouthInv` follows the allocator through the functions of the VT8231 (`Heads`), each
BAR goes to its own place (`Slots`, the last two of the sound function into the gap in front
of the first USB function), and all other I/O BARs are behind the area. On the
other bus the allocator of the area starts at the end of the window and gives
nothing out (`ElsewhereInv`).

*Boot.* `BoardInv` says which board each stage can be on and that Open Firmware
is only used where it is there, `ReadyInv` what has been done on the way.
`UnsignedEnd` is the arithmetic of start, end and length modulo 2^32.

*Puff.* `BoundsInv` adds to `InBounds` that what a copy has yet to write fits too,
that the header of a block was read (so that a finished stream has consumed at
least a byte), that the counts of a dynamic block are checked before lengths
are read, and that the codes of a block have been accepted. For the output,
`OutputInv` says that outside of a copy the output is the expansion of the
tokens, and that during a copy each byte of the expansion still to come equals
the one `dist` before it (`Periodic`). This is why copying byte by byte, from
bytes it has just written as well, gives what the abstract definition says
with a remainder (`CopyApplied`, from `RemainderBack`).

*Huffman.* Sums such as `Kraft` (the code space that the codes up to a length take) are
recursive functions; `Linear` shows that such a function exists and `Along` carries a
property along it, both by induction over an interval. `LeftOver` is Kraft's
equation: what `construct()` has left over and what the codes take are the
whole code space. `SymbolOf` is the table: behind the offset of a length come the
symbols of that length in their order, since for each rank there is one
(`RankTaken`) and the ranges of the lengths are apart (`Offsets`). `Reading` says
where in the stream `decode()` is: its copy of the bit buffer is the unread rest
of the last byte, of which it may use no more than make a longest code, and the
old bit buffer began at the end of a byte, which is why `bitcnt` can be computed
from it modulo 8 in the end. `Matching` says that `first` is the first code
of this length and that the bits read lie behind the code space of all shorter
codes. A failure after `MAXBITS` bits then means that they lie behind all codes, which
with a complete code is no place at all.

*Zip.* `LengthInv` says that the length is the archive's own once the search for the end
record is through, unless a stored zip inside has an end record of its own.
`CursorInv` and `FoundInv` keep the cursor on an entry, and on the one of the
name asked for once it is found. That none is missed needs to know what was
passed: `WalkInv` says that the entries at or in front of the cursor (`Passed`) do not
have the name and that their number is the count the code keeps, so that the
walk cannot end on the count before it has passed all of them. `LaidOut` puts the
next entry right behind this one, with nothing in between.

*SamMap.* `TlbInv` gives the TLB in closed form: how many of the three words of an
entry are written (`Words`) follows from the position in `setup_tlb()`, and the
entry is new in those words and old in the others. At each position an entry is
then named that maps the code; entry 0 only goes when the first page of the memory is there.
That no address is mapped twice in the end is arithmetic on the table and the
pages behind it. `PcixInv` says the same of the bridge: a window is off from the
writes that switch both off until all four of its other registers are written.
`StackInv` is the sum that places the stack.

*SamInterrupts.* `PolarityInv` and `LatchedInv`: behind the write of PR of a controller its
polarities are right, so behind the second clearing of SR what is latched is
asserted. `TimerInv`: DEC stands still between its clearing and its reload, and
TSR is cleared in between.

*Fdt.* A tree is the tokens read so far. `Depth` counts nodes that begin and end,
`Openers` are the beginnings of the nodes below the root a token lies in, and
`DepthGrows` and `NodeGrows` say what one more token does to both. `Walking` relates this to
the code's two variables: `depth` is the depth, `in_target` implies being in the node,
and the converse holds at the node's own level until a subnode has ended. The
code clears `in_target` there, which is why the invariant is no equivalence; it is
enough because properties come before subnodes (`LastIs`, `LastIsOne`).

*Uart.* `InitInv` follows the seven writes of `uart_init()`: the divisor latch is
selected exactly while the divisor is written. `SentInv` says that what went out
and what is on its way is what was given, unless a time-out passed.

*Cfg.* `CfgInv` says that the string is well formed and that the options are the
source, trimmed (`Trimmed`), once `cfg_init()` is through. `Remaining` turns this into
positions: the options are the characters from `b` to `b + n` of the source and
all that is outside is blank. A search then finds in the options the one place of
the setting, which is the one in the source shifted by `b` (`SettingFound`), and stops
where the letters behind it end. `strspn()` and `strcspn()` are least elements, which
exist by induction over an interval (`LeastExists`).

*Console.* `FlattenIs` unfolds the fold that joins lines, and `Upto(t, k)` is what the first k
characters of a text come out as. `ConsoleTold` says that a driver has every text but
the last and `Upto` of that one: up to `Goal`, the end of the piece that is being
written, if its turn was already, and up to `p` if not. A driver that is not in the
list was told nothing. So whatever the order of calls, each driver is at most one
piece ahead of another and none is skipped.

*PciConf.* `LaneOfRegister`: the byte of the data port and the word in the address
register name the register that was asked for, for each width.

### Only model-checked

* All liveness (`ScanEnds`, `SetupEnds`, `InterruptsAndTimer`, `AllCallsReturn`,
  `InflateEnds`): fairness and ENABLED are outside the prover's logic.
* `SizeIsRight`: TLC goes through every memory the board can have, so there is
  nothing a theorem could add.

## Not modelled

* `libc/printf.c`: third-party formatting, used for messages only.
* `libc/*.S`, the inline assembly that moves to a new stack, `setjmp`/`longjmp`
  as such (their effect on `puff()` is modelled).
* `bboot.fth`, which runs in the firmware before BBoot does.
* `setup_isa()`, `setup_fdc()`, the USB register quirks, latency timers and cache
  line sizes: constants written to the chipset that nothing in BBoot reads.
* The constants in `bd_t`, the type bits of BARs and the offset of ROM BARs, the
  name property of `/rtas`.
* The functions of `drivers/prom.c` that nothing calls.
* Printing is left out everywhere.

## Plan

1. `Memory`, `AosList`, `KickLoad` with `KickList`, their runs and proofs (done).
2. `PciSetup` with proofs, `MemProbe` (done).
3. `Boot`, `Pegasos2Pci`, `SamMap`, `SamInterrupts`, `Fdt`, `Zip`, `Huffman`, `Puff`,
   `Cfg`, `Console`, `Uart`, `PciConf` with `PciSpace` (done).
4. Proofs about `Boot`, `Pegasos2Pci`, `Huffman`, `Puff`, `Zip`, `SamMap`, `SamInterrupts`, `Fdt`,
   `Cfg`, `Console`, `Uart`, `PciConf`, and about the loader's list (done).
5. Not proved: liveness and `SizeIsRight`, see above.
