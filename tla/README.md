# A verification of GI-StaticParser

`mhydump` reads `GenshinImpact.exe` and `global-metadata.dat`, neither of which
it can trust to be whole or of the version it knows, and writes `dump.cs`. It is
a sequential program without shared state; what is hard about it is that its
tables carry no lengths, no counts and no checksums. Where a table ends, how many
methods a type has, which of several candidates is the header: the code infers all
of it. This directory models those inferences, the walk that uses them and the
file it writes, checks them with TLC on small instances, and proves with TLAPS that the inferences,
the records and names read with them and the listing written from them are right
for every input.

Source paths below are relative to `src/src/`.

## 1. Inventory

### How the parts work together

    main.rs  dump_cmd
      |  read both files -> decrypt/file.rs load -> create out -> dump_all -> flush
      |
      |- decrypt/file.rs  load
      |     |- pe.rs                 sections, RVA/VA -> file offset, BSS
      |     |- find_embedded_header  which "MHY\0" in .rdata is the header
      |     '- resolve_tables        three pointers -> three tables, .rdata window
      |
      '- dump.rs  dump_all(w)
            |- class_model.rs        type records, names, parents
            |- method_counts         a pass over all types, before any is written
            |- field_default_values  a scan of a table without a length
            '- per type: header, field_meta.rs, method_meta.rs
                  |- typenames.rs        type_name, recursive over the image
                  |- metadata.rs, mem.rs addresses, reads that answer 0
                  |- default_values.rs   "= value" of a constant
                  '- decode_str.rs       every name

Everything is one thread. Parts call one another and return values; nothing is
shared but the immutable input bytes, and the only effect is on the output file.

### The parts

| Part | State | Operations | What makes it hard | What makes it correct |
|---|---|---|---|---|
| method count inference (`dump.rs` 17-38) | `starts`, `sorted`, `counts` | one pass over the type table, sort and dedup, one lookup per type | starts shared, missing, out of order, unreadable; the sentinel `u32::MAX`; no entry after the last | end-to-end layouts are recovered; ranges of different starts never overlap; no index wraps |
| field default table (`dump.rs` 42-67) | the map, `prev` | one row at a time until a row looks wrong | the table has no length: only its order tells where it ends | exactly the longest prefix that looks like a table; no default is overwritten |
| dump walk (`dump.rs` 71-206) | place in the request, counters, `Write` | skip or write a type: namespace, header, fields, methods, brace | counts from all types used for some; requests out of order or repeated; a write may fail between any two | what is written is the listing the metadata defines, or a beginning of it; the totals are those of what was written |
| embedded header search (`decrypt/file.rs` 105-159) | `pos` | find the magic, validate, resume | candidates that do not validate, near the end, in a truncated file | the first header that validates, whole, and an end to the search |
| loader (`decrypt/file.rs` 33-103) | none kept: a chain of checks | check, parse, search, read three anchors, place three tables, validate | offsets of a truncated or overlapping image; checks whose order matters | tables are inside the file and where the image maps them |
| PE image (`pe.rs`) | section list | `rva_to_file`, `is_bss`, `va_to_rva`, `va_to_file`, imports | `u32` wraps, raw size unlike virtual size, overlaps | the maps agree with each other and with the section table |
| type names (`typenames.rs`) | recursion depth | `type_name`, `generic_inst_name` | cycles, array structs read as types, records cut off | it ends, with the name the chain of elements gives; only a negative table base can make it panic |
| field table (`field_meta.rs`) | the fields so far | the chain to `foff_start`, the fields of a type | negative bases and indices as `usize`, skipped entries | every field has its own offset; only damage can panic |
| method table (`method_meta.rs`) | the methods so far | methods of a type, parameters, `method_rva` | caps of 0x4000 methods and 64 parameters, indices that wrap | each method has its own parameters, return type and RVA; nothing shifts when an entry is skipped |
| class model (`class_model.rs`, `dump.rs` 86-152) | record base | `type_def`, `name`, `parent_type_def`, `short_name`, the head of a type | some reads bounded by `TYPE_COUNT`, some by the body, some by neither; a base below zero | the types listed are those of the table; a head is what parent and flags call for |
| table bases (`metadata.rs`, `mem.rs`) | 10 bases | header fields to bases, `va_to_image_off` | biases that make a base negative | what is reported inside is inside |
| strings (`decode_str.rs`) | key | packed index to bytes | lengths rounded up to 8, truncation | a string in the body is what was written there, one outside is empty |
| default literals (`default_values.rs`) | the bytes so far | `dv_literal` by kind, `fmt_net` | index -1, short blobs, signs, three layouts of a number | the literal encodes back to the bytes; a number's text reads back |
| imports (`pe.rs` 131-205) | descriptor and thunk due | two nested walks with `?` on every read | one bad entry discards all; `u32` sums of values of the file, a `u64` sum over any ImageBase; two caps | all of the table or nothing; sums overflow at the tops of the two address spaces only |
| output (`main.rs` 79-91) | output file, `BufWriter` | create, buffered writes, flush, drop | partial and failing writes, a panic, a kill, errors lost in a drop | success means a whole file; otherwise the old file or a beginning |
| other subcommands (`main.rs`) | none | print | none | none |

Nothing runs concurrently and nothing is persisted but the output, so there are
no data races, no messages and no recovery. The hazards are those of inference
over unchecked data: boundaries, early ends, order, skipped entries, and the one
effect that can be interrupted. `PROJECT.json` lists them at their lines.

## 2. Modules

| Module | Models | Kind |
|---|---|---|
| `MethodCounts` | `method_counts` | state machine |
| `DefaultScan` | `field_default_values` | state machine |
| `DumpSpec` | what `dump_all` promises its caller | abstract specification |
| `DumpWalk` | `dump_all`, with the two above as its first passes | composes `MethodCounts` and `DefaultScan` by `INSTANCE`, implements `DumpSpec` |
| `DumpCmd` | `dump_cmd`, `BufWriter`, the output file | state machine; `BufWriter` and the system calls are external |
| `HeaderScan` | `find_embedded_header`, `header_validates`, `img_len` | state machine |
| `PeImage` | sections and address maps of `pe.rs` | operators |
| `Loader` | `load`, `resolve_tables`, `va_to_image_off` | state machine over `PeImage` |
| `TypeName` | `type_name`, `generic_inst_name`, `short_name` | state machine: the recursion as a way down and a way back |
| `Memory` | `Buffer`'s checked reads, and how an address is computed | operators; the constants its users share |
| `FieldTable` | `fields`, `foff_start` | state machine over `Memory`, `usize` arithmetic as residues |
| `MethodTable` | `methods`, `method_rva` | state machine over `Memory` |
| `ClassModel` | `type_def`, `name`, `parent_type_def`, and the head `dump_all` writes | state machine over `Memory` |
| `TableBases` | `DecodedMetadata::new`, the report of `header-dump` | state machine over `Memory` |
| `DecodeStr` | `decode_str`, `decode_at` | state machine over `Memory` |
| `DefaultLiteral` | `dv_literal` | state machine over `Memory` |
| `FmtNet` | `fmt_net` | one step, judged by reading its result back |
| `PeImports` | `imports`, `parse_imports` | state machine over `PeImage` |
| `NaturalLemmas` | none: least and greatest elements of sets of naturals; induction; functions defined step by step | lemmas |
| `TablesProofs` | theorems about `MethodCounts` and `DefaultScan` | proofs |
| `FmtNetProofs` | theorems about `FmtNet`, and about the composition `MCTables` | proofs |
| `DumpCmdProofs`, `TypeNameProofs` | theorems about the module they are named after | proofs |
| `LoaderProofs` | theorems about `Loader`, `PeImage`, `PeImports` and `HeaderScan`, and about the composition `MCImage` | proofs |
| `DumpWalkProofs` | theorems about `DumpWalk`; cites `TablesProofs` for the two passes it instantiates | proofs |
| `RecordsProofs` | theorems about what is read through `Memory`: `TableBases`, `FieldTable`, `DecodeStr`, `MethodTable`, `ClassModel`, `DefaultLiteral`; and about the composition `MCRecords` | proofs |
| `MC*` | small instances for TLC | constants |
| `MCTables`, `MCImage`, `MCRecords` | several components in one instance | composition, see below |
| `MCParts`, `MCData` | what those instances share: the variable `part`, tables written as sequences | constants |

One action is one iteration of a loop, one write, one call that may fail, or one
straight piece of code between two of these. A `Mutant:` comment marks an operator
that is a wrong form of the one after it; no specification uses it. It is there to
show that a property tells the two apart.

### How state and actions correspond to the code

`MethodCounts`. `records` is the readable part of the type table, consecutive records:
a body ends somewhere, and with a negative base in a build that wraps it begins later
than the table does. `starts`, `sorted` and `counts` are the three vectors, `tdi` the
loop index. `Collect` is line 18-21 with the sentinel for a record `type_def`
refuses; `SortStarts` is the filter, sort and dedup of 22-24, whose result
`SortDedup` is a constant constrained by `SortDedupAssumption` (the ascending
vector of a set), so that the module stays free of recursion; `SkipSentinel` and
`CountMethods` are the two ways through 26-36. `NextPositions` is
`binary_search(&(ms + 1))` with both its results, `Ok` and `Err`, as the position of
the next larger start; `Gap` is the saturating subtraction with 0 at the end.

`DefaultScan`. `rows` are the rows the body has (unreadable is past its end),
`Takes` the five comparisons; `StopAtBadRow` and `StopAtEnd` are the two breaks.

`DumpWalk`. `db` is what the decoders can make of the body: which types have a
record and a name, which fields and methods are readable, which are constant,
which literals render. `wpc` runs through the writes in their order; every write
may fail (`WriteFails`), and then the totals are never returned. `written` holds
lines as records, not text. `at` is the place in the request, which may name types
twice, out of order, or past the table.

`DumpCmd`. Bytes of the dump are numbered, so a lost, repeated or stale byte can
be told. `BufferPiece`, `FlushForPiece`, `WritePieceDirectly` are the three cases
of `BufWriter::write_all`; `write(2)` takes any positive part of what it is given
and any call may fail. `DumpPanics` unwinds through the drop of the writer, which
flushes once more and ignores errors; `Kill` may come at any point.

`HeaderScan`. An image is its length, the file end its section table implies
(`img_len`), the place and size of `.rdata`, and for each occurrence of the magic
what its header would say of the string section. `ResumeAt` is `pos = at + 1`.

`Loader`. `lpc` runs through the checks in their order, `err` is the error
returned. `chain` holds the VAs read at the three anchors, `placed` the offsets
found. A pointer is read only inside the image (`InImage`). The header search is
the flag `embedded`, true when `HeaderScan` would find one in the whole of
`.rdata`; `ImgFits` is its reason to fail in a truncated file.

`PeImage`. `RvaToFile` is the loop: the first section that covers the address
decides, though it may have no bytes for it. `va - image_base` is taken modulo
`U32_RANGE`, and so is the end of a section.

`TypeName`. `cell[o]` is what can be read at offset `o` both as a type record and
as an array struct. `Descend` is a recursive call, `Wrap` the suffix added on
return, `NoElement` the array or pointer whose element does not map. A name is a
word and the suffixes after it. `PanicAtParameter` is the sum of line 139, which a build
that checks sums (`nchecked`) cannot do for the indices `Overflowing`. `short_name` adds
to a base as well, but `dump_all` has done all of those sums before (`CountTypes` of
`ClassModel`).

`FieldTable`. Every address is computed as the code does, modulo `USIZE`.
`fchecked` says whether the build checks for overflow: Cargo's debug profile does,
its release profile does not; both are checked. `ReadRow` reads at `+8` and asks
for `+0xC`, as the code does.

`MethodTable`. A method record is three words after its keys are removed: where
its parameters start, its return type, their number. `BeginMethod`, `TakeParam` and
`TakeMethod` are the outer loop, the inner loop and the push at its end; `ParamsEnd`
is the count, the cap of 64, or the `break` at an unreadable one. `MethodPanic` is
each sum that a build with overflow checks panics on, in the order of the code. The sum
of `method_rva` over the ImageBase is none of them: `load` maps fixed anchors before, so
the ImageBase is not above those.

`ClassModel`. `Texts` is `decode_str` for every index, so a name is what the words of
its record decode to, also where the record is outside the body and its words are
zero. `Header` is the chain of `if`s from line 93 to 152 of `dump.rs`; the record base
`cbase` is the signed sum before the cast. `CountTypes` stands for the call of
`method_counts` in line 77: it asks `type_def` for every type, so a build that checks sums
panics there (`CountsPanic`), before the first head, or not at all. `HeaderByParent` states
the head a second time, from the record in whole numbers: its kind, modifier and base
clause, for a parent in the table, beyond it or outside of the body, whose name is then
read as zero.

`TableBases`. `Subs` and `Xors` are the two ways of decoding a header word. `Validate`
is what `header_validates` asks of the strings base before, `Resolve` the ten bases of
`new`, `ReportLine` one line of `header-dump`.

`DecodeStr`. The key stream is abstracted to the fact that a byte is readable only
with the key of its block of its string: a block decoded with another key, or read
as zero, gives `Garbled`. Two strings lie in the body, so an offset into the middle
of either is among the indices.

`DefaultLiteral`. A number is the sum of its bytes, each times its
`Weight`; TLC gives a byte one bit, so every width has all its values. `ReadLength`, `ReadByte`, `FinishString` are the string
branch; `GiveUp` is every `return None` after the type was read.

`FmtNet`. The digits and the exponent are what `format!("{:e}")` returns; a character
that is no digit is a negative number. The properties read the text again: `Num` is the
value of a text of digits, `Decimals` how many of them stand behind the point, and
`LeftOut` how many digits of the mantissa are not written because they are zeros.

`PeImports`. `Fields` are the three words of a descriptor, read with `?` in their
order: a sum after an unreadable one is never computed, which is what
`DescOverflows` says. `Fail` is `unwrap_or_default`: one unreadable entry and there is
no import at all. `Slot` is summed up in 64 bits over an ImageBase that nothing has
checked, for `pe-validate` parses an image without loading it: modulo `U64_RANGE`, or a
panic (`SlotPanics`).

### Several components in one instance

`MCTables`, `MCImage` and `MCRecords` put components side by side whose code shares
nothing it writes: they read the same immutable bytes, or none in common. The
variable `part` says which one a behaviour is about; the others stay in an initial
state. An interleaving of two such parts shows each of them exactly what it shows
alone, so nothing is lost, and the states add up instead of multiplying. That a
behaviour of the composition is one of every part is proved
(`RecordsImplementParts`, `TablesImplementParts`, `ImageImplementsParts`), so the
theorems about a part are about the specification that its run checks. Components
that do depend on one another are composed for real: `DumpWalk` runs `MethodCounts`
and `DefaultScan` and uses their results.

## 3. Runs

| Run | What it shows | Bounds |
|---|---|---|
| `tables` | counts, default map, literals and numbers are right for every input of the bounds | see `MCTables` below |
| `last_type_count` | **disagreement**: the last type with methods gets none | 4 types, `U32_MAX` 6 |
| `header_scan` | the first valid header, whole, always an answer | magic 2, header 4, header check 3 bytes; regions 0 to 6 bytes, files to 8 |
| `short_header` | **disagreement**: a valid header with fewer than 0x600 bytes behind it is refused | the same |
| `dump_walk` | `DumpWalk` implements `DumpSpec`: the exact listing, totals, an error that wins | 3 types, 448 databases, 4 requests |
| `dump_cmd` | success means a whole file; always a beginning of the dump or the old file; bad inputs cost nothing | buffer 3, up to 3 writes of 1 to 4 bytes |
| `type_name` | ends within its depth; the name is that of the chain; panics only where a parameter's address overflows | 3 offsets, 25 kinds of record, `MAX_DEPTH` 3, both builds |
| `arity_stripped` | **disagreement**: a plain class keeps its arity | the same |
| `unreadable_name` | **disagreement**: an unreadable record still has a name | the same |
| `image` | tables in the file and where the image maps them, two maps that agree, BSS is what has no bytes; all imports or none, no panic but at the two tops | see `MCImage` below |
| `records` | types, heads, fields, methods, bases and strings are what whole numbers say; panics need a negative base | see `MCRecords` below |
| `generic_parent` | **disagreement**: a class with a generic parent has no base clause | 3 types, as in `records` |

Why these bounds are enough to be interesting:

- `tables`. Counts: four types give two that share a start, one out of order and one
  sentinel at once; 6 is both the sentinel and one past the largest gap. Defaults:
  `MAX_ROWS` 3 with 4 rows reaches the cap and a row past it; the eleven kinds of row
  fail each comparison on its own. Literals: every kind 1 to 15, every value of eight
  one-bit bytes, cut off after any of them; type and data indices from -2 on.
  Numbers: `SIG` 4 binary digits, exponents -7 to 7, so both bounds (`MIN_EXP` -2 and
  `SIG`) are met and passed, and an exponent has two digits or three.
- `header_scan`: two candidates fit, one may begin inside the other's header, and
  a candidate may lie across `HDR_LEN` from either end, of the region or the file.
- `dump_walk`: the databases combine shared, unordered, missing and unreadable
  starts, at the end of the table and at its beginning, with skipped fields, nameless types, default tables that break off and
  more methods than `MAX_METHODS`; the requests repeat, reverse and overrun.
- `dump_cmd`: a write smaller than, as large as and larger than the buffer, in
  every order of three.
- `type_name`: three records make cycles of length 1, 2 and 3 and chains longer
  than `MAX_DEPTH`. Three generic parameters: one unreadable, one whose address
  overflows and is readable where sums wrap, and `u32::MAX`.
- `image`: a range of 18 makes wrapped sections and VAs 2^32 away reachable with
  small numbers; the second section overlaps the first, follows it, wraps around
  or is empty. Imports: a section in the middle and at the end of the address
  space; two descriptors with and without names of their own, one of them
  unreadable or outside; `MAX_THUNKS` 1, so that two thunks pass the cap and a
  third does not; `U64_RANGE` 36, so that slots lie below it, on it and past it.
- `records`: `USIZE` 128 and `U32_RANGE` 16. Table bases lie before, inside, across the
  end of and past the body, and -1 and -2 are among the indices. Types: three
  records of every combination of name, parent and flags the head depends on,
  parents that are plain, generic, beyond the table or cut off. Methods: three
  slots of four records, parameters up to the last `u32`, `MAX_PARAMS` 2 and
  `MAX_METHODS` 4 both passed, code pointers around both ends of the code. Strings:
  two of one to three blocks, every index. All in both builds.

Deadlock checking is off in every run: each of these programs stops when it has
its result.

### Fairness

There is one thread and it is always scheduled, so weak fairness on the whole
next-state relation (`WF_vars(Next)`) is what the code gives, and all that is
assumed. It is used by `SearchEnds` and `NamingEnds`, whose loops advance by hand and by
recursion; the `for` loops of the other parts end with their ranges. `DumpCmd` has no
liveness property: a process may be killed, and a write may block for ever.

### Disagreements found

- `dump.rs:35`: comments at 14-16 promise a count for every type and 0 for
  sentinels only; the types with the largest `methodStart` get 0 as well and their
  methods are left out of `dump.cs`.
- `decrypt/file.rs:118`: the comment at 105 speaks of the first `0x200` bytes; the
  code takes and requires `0x600`.
- `typenames.rs:106`: the trait says its callers strip the arity; one of the two
  does not.
- `class_model.rs:155`: the trait says `None` when unreadable; the implementation
  names the record from the zeroes it reads.
- `dump.rs:97`: the comment at 94 sends generic-instance parents through `type_name`;
  the code gives them the empty name, and the base clause is missing.

Two more were met and have no run of their own. `decode_str.rs` 40-41 says `decode_at`
returns `None` so that "no string" can be told from `""`: it returns `None` for both
(`TextAsWritten` states it). `class_model.rs` 134 calls the result of
`parent_type_def` a concrete type definition: it looks at the kind alone, and an
index beyond `TYPE_COUNT` is passed on to `name`, which has no bound either: the parent
is then named by whatever lies where its record would be, as `HeaderByParent` states.

## 4. Theorems

All are about every value of the constants, under the named assumption of the
module, which TLC evaluates in the runs. A listed theorem that names a property
proves what a run checks on a small instance.

| Module | Theorem | States |
|---|---|---|
| `TablesProofs` | `CountsInvariant`, `CountsTypeCorrect` | the inductive invariant, types |
| | `LayoutRecovered` | `RecoversLayout` |
| | `StartsPartition` | `OneStartPerMethod` |
| | `NoWrap` | `NoIndexWrap` |
| | `ScanInvariant`, `ScanTypeCorrect` | the inductive invariant, types |
| | `LongestTable` | `DefaultsAreLongestTable` |
| | `DefaultsKept` | `NoDefaultReplaced`, an action property |
| `DumpWalkProofs` | `WalkInvariant` | the inductive invariant |
| | `IndicesInRange` | `IndexInRange` |
| | `WalkImplementsDump` | `ImplementsDump`, the refinement of `DumpSpec` |
| `DumpCmdProofs` | `CmdInvariant` | the inductive invariant |
| | `CompleteOnSuccess` | `SuccessIsComplete` |
| | `PrefixAlways` | `FileIsPrefix` |
| | `BadInputHarmless` | `BadInputKeepsFile` |
| `LoaderProofs` | `HeaderInvariant`, `HeaderTypeCorrect` | the inductive invariant of the header search, types |
| | `FirstHeader` | `FirstHeaderFound` |
| | `HeaderCaptured` | `HeaderInsideFile` |
| | `SearchAdvances` | the search has less before it with every step |
| | `LoadInvariant`, `LoadTypeCorrect` | the inductive invariant, types |
| | `TablesStayInFile` | `TablesInFile` |
| | `MapsAgree` | `MappingsAgree` |
| | `PlacedBehindAnchors` | `LoadedAsMapped` |
| | `BssOrBytes` | `BssIffNoBytes` |
| | `ImportsInvariant` | the inductive invariant of the import walk |
| | `ImportsAllOrNothing` | `AllOrNothing` |
| | `NoOverflowBelow` | `PanicsAtTheTops` |
| | `ImageImplementsParts` | `MCImage` behaves as each of its parts |
| `RecordsProofs` | `BasesInvariant` | the inductive invariant |
| | `ReportIsRight` | `OobIfOutside` |
| | `FieldInvariant`, `FieldTypeCorrect` | the inductive invariant, types |
| | `FieldsListed` | `OwnOffsets` |
| | `FieldPanicsExplained` | `PanicsOnNegativesOnly` |
| | `DecodeInvariant`, `DecodeTypeCorrect` | the inductive invariant, types |
| | `TextDecoded` | `TextAsWritten` |
| | `MethodInvariant`, `MethodTypeCorrect` | the inductive invariant, types |
| | `MethodsListed` | `OwnMethods` |
| | `ClassInvariant`, `ClassTypeCorrect` | the inductive invariant, types |
| | `TypesListed`, `HeadsByParent` | `TableListed`, `HeaderByParent` |
| | `LiteralInvariant` | the inductive invariant of `dv_literal` |
| | `LiteralsReadBack`, `LiteralIfDefault` | `LiteralIsTheBytes`, `NoneIfAbsent` |
| | `RecordsImplementParts` | `MCRecords` behaves as each of its parts |
| | `RecordsTypeCorrect` | `RecordsTypeOK` |
| `FmtNetProofs` | `FmtInvariant` | the inductive invariant |
| | `FloatsReadBack`, `FloatsHaveOneText` | `ReadsBack`, `OneText` |
| | `TablesImplementParts` | `MCTables` behaves as each of its parts |
| `TypeNameProofs` | `NameInvariant`, `NameTypeCorrect` | the inductive invariant, types |
| | `NameIsRight` | `NameIsWhole` |
| | `NamingAdvances` | the naming has less before it with every step |

### The arguments

- **Counts.** A property of the result says nothing of the loop half way, so
  `CountsInv` adds what the loop has established: `sorted` is the ascending vector of
  the real starts from the sort on, every type below `tdi` is `Counted` (its count
  reaches to the least larger start), every type from `tdi` on still has 0.
  `NextEntry` shows that in an ascending vector the entry after `m` is the least
  above `m`; the three properties follow from `Counted` alone.
- **Defaults.** `DefaultsAreLongestTable` speaks of the end. `ScanInv` says of every
  `i` that the map holds exactly rows `0 .. i - 1`, that they look like a table, and
  that `prev` is the key of the last; so a key taken next is larger than all, which
  is why nothing is replaced.
- **Walk.** `DumpSpec` allows a listing to be written line by line or to break off.
  That the lines come in order is not enough to show that the next one is the one
  due: `WalkInv` says for every place of the walk exactly which lines are written
  (`LinesInv`: a line is written if and only if it is not `Due`), that the decoded
  vector holds what the type has left (`TodoInv`), and that the counters are the
  numbers of lines of each section (`TotalsInv`). The invariants of the two passes,
  instantiated at the walk's variables, are conjuncts of it, so `PassAssumptions`
  and `CountedMethods` are all the walk needs to know about them. `NextImplements`
  then maps every step: a step of a pass, the decoding of a vector and the skipping
  of a type are stutters, a write is a step of the listing, a failing write the end.
- **Output file.** The properties speak of the file alone. `CmdInv` holds because the
  buffer and the large write under way always continue the file where it ends
  (`InOrder`), and because without an error nothing of what `dump_all` has written
  is missing from the three (`NothingLost`); a kill cuts all of it short and leaves
  the file a beginning. `ends`, the byte each write ends at, never changes and
  does not fall from one write to the next, so no sum over a sequence is needed.
- **Header.** `HeaderInv` adds that no valid header lies before `pos`. A refused
  candidate is the first hit from `pos` on, so moving one past it passes over no
  header.
- **Loader.** `TablesInFile` is not inductive, for placing a table checks nothing.
  `LoadInv` remembers that the header was found, and that is possible only in a
  file as long as its section table says; so every offset the map gives is inside
  it. It also remembers at which anchor each VA was read and where each table was
  placed, from which `LoadedAsMapped` follows. `MapsAgree`, `PlacedBehindAnchors`
  and `BssOrBytes` are about well-formed section tables (`WellFormed`: no two
  sections share an address and none reaches the end of the address space): TLC runs
  through the others too, in which the two maps may differ.
- **Imports.** `ImportsInv` says that below the top of the address space (`~NearTop`)
  the walk stands at descriptor `n` and thunk `i` of the table, that nothing before
  them was unreadable, and that what it has collected are the imports up to there.
  The expected table is a concatenation of one list per descriptor; the
  `Flatten` lemmas say what appending one more list to it does. A slot that is
  summed up is one of that table (`SlotInTable`), and a table is returned when all of
  its slots were: so the walk panics over a slot only if the table has one beyond 2^64,
  and never returns a table that has.
- **Addresses.** Everything in `RecordsProofs` rests on one fact: a residue below the
  length of a body is the whole number itself, because no body is longer than
  `LONGEST` and no base and index of 32 bits reach further than `USIZE`. A negative
  base becomes a residue near `USIZE`, so a read at it fails or, once the index has
  brought the sum above zero again, is the read at the whole number.
- **Fields, methods, types.** The invariants say that the entries so far are exactly
  the readable ones below the loop index, in order, each with its own offset
  (`FieldInv`), parameters and code (`MethodInv`), or place in the request
  (`ClassInv`, which counts the types due before a place). A skipped entry leaves
  both sides as they are: that is why nothing shifts. Once `method_counts` has gone
  through, no head can panic (`WalkIsSafe`): its sums have been done, or the base is so
  negative that no record of the table is in the body.
- **Strings.** `DecodeInv` says that after `k` blocks the key has moved `k` times and
  the buffer is the text's first `k * BLOCK` characters; the cut at the `NUL` and the
  truncation to the length then leave the text.
- **Literals.** `LiteralInv` says that the walk through `dv_literal` has a literal to
  return exactly if nothing it takes is missing (`Gives`), and of a text that the
  bytes so far are the first ones behind its length. That a number encodes back is
  arithmetic: `NumberRange` keeps a number of `n` bytes below `Weight[n]`, so that
  dividing it by that weight leaves the next byte alone (`HighestByte`), and a byte
  added above changes none below it, its weight being a multiple of theirs
  (`WeightMultiple`, `LowerByte`). A signed value is the number or the number less
  the range of its type, and both leave the same residue.
- **Floats.** `FmtInv` is short, for there is one step: what is written of a number is
  its `Layout`. The work is in reading that text. Each layout is four parts in a row,
  any of which may be empty: a sign, digits, a point with digits, an exponent
  (`ScientificShape`, `PaddedShape`, `PointedShape`, `FractionalShape`). `Marks` finds
  the point and the `E` in such a text, and `TextReads` what the properties read off
  it. `NumJoined` gives the value of two runs of digits one behind the other, so
  zeros in front count nothing (`ZerosText`) and the zeros `Trimmed` takes off the
  mantissa are the power of the base in `ReadsBack`.
- **Termination.** That the two loops end needs fairness, which the prover has no
  rule for. What does not is proved: every step of the header search and of
  `type_name` lowers a natural (`SearchLeft`, `NamingLeft`). So there is no infinite
  run for any input, also on a cycle of types, and also when a candidate is
  refused. That the loops do not stop too early is left to TLC, for all of it takes
  `ENABLED`; for the search, `SearchAdvances` also says that there is a first hit to
  look at as long as there is any.
- **Composition.** The parts of an instance write nothing of each other's, so each step
  is a step of one part and a stutter of the others. `RecordsTypeOK` speaks of
  several parts at once and follows from theirs.
- **Names.** `NameInv` says the call at depth `n` is at the `n`-th type of the chain
  (`Passed`), the stack holds the suffixes of those before it, and on the way back
  what is written is the innermost name with those that were popped. Cycles need
  no case of their own, since `Passed` may repeat. A panic is at the last type of the
  chain, a parameter that overflows, and no name is returned from there.

Recursive definitions (`Passed`, `Weight`, `Number`, `Num` and `Power` of `FmtNet`, the
concatenation in `PeImports`) are not unfolded by the provers. `IterationExists` in
`NaturalLemmas` shows once that a function on the naturals given by a first value and
a step exists; with it the equations of such a definition become lemmas
(`PassedSteps`, `NumberSteps`). Induction is done over sets: the invariant of a loop,
or `SetInduction`, for which a lemma's statement about `n` is made the set of the
naturals it holds for.

### What is assumed

- Table sizes, strides and caps are naturals; records hold words of their width.
- `SortDedupAssumption`: the vector of `sort` and `dedup` is the ascending vector of
  its set.
- A buffer is no longer than `LONGEST` (`isize::MAX`, Rust's own bound); a base is an
  `i32` less an `i32` bias; a stride times any 32-bit index fits a `usize`
  (`FitsUsize`), which 64-bit addresses and strides of at most a few hundred bytes
  justify.
- `MethodTableAssumption`: `params` plus `PARAM_STRIDE` times 2^32 lies behind the end
  of the body, so that the wrapped index of a parameter is not read twice. That
  bounds the body at some 28 GiB. `IsMethodInput`: `CODE_LEN` above the ImageBase is
  still a `u64`, which holds for every file that `load` accepts, for it maps the anchors.
- `ImportsAssumption`: what a read of the file gives is a `u64` at most, and so is the
  ImageBase; a thunk is read as a `u64` and its lower half taken, as in the code.
- `TypeNameAssumption`: a cell's element is an offset of the image or unmapped, its
  kind one the code distinguishes. `Overflowing` may be any set.
- `LiteralAssumption`: `default_value_blob` is a `u32`, the two indices are `i32`s, and
  `typearr` is an offset in a buffer.
- `FmtNetAssumption`: the least exponent written out is not above 0, and every exponent
  has at most three digits, as those of a `f64` have in base ten.
- `CmdAssumption`: a dump is a sequence of write ends that does not fall.
- `LoaderAssumption`: an executable is of the shape `IsExe` says: naturals, sections of
  `u32`s, a `u64` at every offset.
- `WellFormed` and `NearTop` are no assumptions: they stand in the properties
  themselves, and TLC is given images that satisfy them and images that do not.

### Only model-checked

- Liveness: `SearchEnds` and `NamingEnds`. The prover has no rule for weak
  fairness and `ENABLED`; that no run is infinite is proved, see above.
- The disagreements, which are counterexamples.

## 5. Not modelled

- Arithmetic keys (the key stream of `decode_str.rs`, XOR and bias constants of the
  record fields, `keys` and `mkey`): data without control. That the right fields are
  decoded with the right keys is for tests against real files.
- Words of modifiers and visibilities (`method_modifiers`, `field_modifiers`): a table
  from flags to words, without state. Layout of lines.
- Rounding of a float to its digits, which `format!` does.
- Parsing of the PE headers, which `pelite` does. `iat_slot` looks up the result of
  `imports`; `read_cstr` and `read_slice` of `Buffer` have no caller.
- What `pe-validate` and `decode-one` print of the parts above.
- Allocation failure and stack depth (`type_name` is at most nine calls deep).

## 6. Plan

Done, in this order: `MethodCounts`, `DefaultScan`, `HeaderScan`, `DumpSpec` and
`DumpWalk`, `DumpCmd`, `TypeName`, `PeImage` and `Loader`, `FieldTable`, then over
`Memory` `DecodeStr`, `ClassModel`, `MethodTable`, `DefaultLiteral`, `TableBases`, with
`PeImports` and `FmtNet`. Every part whose control the code in `src/` holds is
modelled, and every invariant and action property of the passing runs is proved, as
is the refinement of `DumpSpec`.

Left: the liveness properties, once the prover can reason about `ENABLED`; the
theorems `SearchAdvances` and `NamingAdvances` are the greater part of their proofs. The keys of the fields (section 5) would be the next part to model if
they were to change.
