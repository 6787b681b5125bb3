# TLA+ models of go-codec-dagpb

A verification development for the DAG-PB codec in `src/`: the generated assemblers a node is built
with, the decoder that drives them, the encoder, the views a node is read through, and what each of
them is held against.

## 1. Inventory

S is `src/ipldsch_satisfaction.go`, U `src/unmarshal.go`, M `src/marshal.go`.

| component | code | state | operations | how it interacts |
|---|---|---|---|---|
| assembler tree of PBNode | S 811–1157, 1839–2005, 2412–2750 | per struct assembler: `m`, `state`, bit set `s`, field index `f`, `cm`, children; for the list: `w`, `m`, `state`, `cm`, `va` | `BeginMap`, `BeginList`, `AssembleKey`, `AssembleEntry`, `AssembleValue`, `AssignX`, `AssignNode`, `Finish`, `Reset`, `Build` | three levels by shared pointers: the list reports to the node through `&ma.cm`, each row to the list through `&la.cm`, leaves write through `w` into the node itself |
| representation assemblers | S 1307–1672, 2097–2263, 2876–3207 | the same | the same | the same, but `valueFinishTidy` does not disconnect children |
| generic `AssignNode` | S 528–, 887–, 1925–, 2507–, and their representation twins | that of the assembler, and the position of another node's iterator | loops over the iterator | calls the assembler's own methods from inside, three loops deep |
| builders of the other types | S 110–131, 315–336, 520–541, 789–810, 1839–1860, 3312–3333 | the assembler's, with a `w` and an `m` of its own | `NewBuilder`, `Reset`, `Build` | `Build` returns the pointer the assemblers write through |
| node views | S, `Lookup*`, `MapIterator`, `ListIterator`, `Length`, both levels | `idx`, and `end` at the representation level | iteration, lookups | read by the encoder and by `AssignNode` |
| decoder | U | `remaining`, `haveData`, `haveLinks`, `links`; per link `haveHash`, `haveName`, `haveTsize` | `Decode`, `DecodeBytes`, `unmarshalLink` | calls the assembler tree; reads fields with protowire, CIDs with go-cid |
| encoder | M | `enc`, `pbLinks` | `Encode`, `AppendEncode`, `pbLinkLess` | converts through `Type.PBNode`, reads the typed node, sorts a copy of the links, writes once |
| registry, chooser | `multicodec.go` | go-ipld-prime's global tables | `init`, `AddSupportToChooser`, four deprecated names | — |
| generator | `gen.go` | — | run by `go generate` | declares the schema and writes the three `ipldsch_*` files |

External, modelled only as `src/` uses them: protowire (fields, varints, sizes), go-cid (`CidFromBytes`,
`Bytes`), `sort.Stable`, the reader and the writer, nodes of other implementations.

What is hard here. Nothing runs concurrently inside the package; what is hard is protocol order. A
caller holds up to six assemblers at once that share memory, may call any of them at any time, may
recover from a panic and go on after an error, and one assembler object builds all rows of the list
with a reset that clears only a part of it. The decoder and `AssignNode` are such callers and stop
halfway whenever a message or a node is bad. Correctness, component by component:

* assemblers, builders: what can be built satisfies the schema, never changes afterwards, and no field
  was written twice;
* `AssignNode`: exactly the nodes that conform to the schema are taken, as what they stand for;
* views: iterators, `Length` and lookups tell of the same entries, and loops over them end;
* decoder: exactly the DAG-PB messages are accepted, as the node they denote, and every call returns;
* encoder: one canonical message per node, or an error with nothing left behind; decoding inverts it,
  down to the bytes.

Every hazard with its line and the properties that cover it is listed in `PROJECT.json`.

## 2. Modules

| module | models |
|---|---|
| `PBValues` | the data model of `ipldsch_types.go`: nodes and links as records, an absent optional field as `Unset` |
| `PBAssembler` | the assembler tree, type level or representation level by the constant `Level`; properties and the invariant `AssemblerInv` |
| `PBAssemblerProofs` | its theorems |
| `Builders` | the builders of PBLinks, PBLink, Link, String, Int and Bytes: `AssignNode` and through it `PBAssembler`, cut off above the type of the builder |
| `BuildersProofs` | its theorems |
| `Schema` | the schema as a judgement on nodes of any implementation |
| `AssignSpec` | abstract service of `AssignNode` on a PBNode builder |
| `AssignNode` | the loops of `AssignNode`, composed with `PBAssembler`, and a caller that mixes them with calls of its own; implements `AssignSpec` |
| `AssignNodeProofs` | its theorems |
| `ViewSpec` | abstract reader of a map or list |
| `NodeViews` | iterators, `Length` and lookups of both levels; implements `ViewSpec` and is tied to `Schema` |
| `NodeViewsProofs` | its theorems |
| `PBWire` | a block as the fields protowire parses; the two conversions that lose information (`CidOf`, `TsizeOf`) |
| `DagPB` | the format: which messages are DAG-PB and what node each denotes |
| `DagPBProofs` | lemmas about it: what one more field does to a message that is or is not DAG-PB, and to its meaning |
| `DecodeSpec` | abstract service of the decoder |
| `DecodeBytes` | `Decode`, `DecodeBytes`, `unmarshalLink`: composes the decoder's loops with `PBAssembler`, one assembler call or one consumed field per step, and implements `DecodeSpec` |
| `DecodeBytesProofs` | its theorems |
| `EncodeSpec` | abstract service of the encoder |
| `AppendEncode` | `Encode` and `AppendEncode`, one step per link read and one per link written; implements `EncodeSpec` |
| `AppendEncodeProofs` | its theorems |
| `LinkFraming` | the bytes: lengths the encoder announces, and the decoder that cuts the block up by them |
| `LinkFramingProofs` | its theorems |
| `MC…` | values for TLC |

Definitions commented "Faulty" are single plausible bugs. No specification uses them: each is meant to
replace the definition it sits in front of, and some property then fails (`PROJECT.json`, "mutants").

### PBAssembler and the code

`node` is `w`; `na`, `la` and `va` are `_PBNode__Assembler`, its `ca_Links` and that one's `va`, with the
fields of the structs. `s` is a set of field names instead of bits and `f` a field name instead of an
index. The Maybe pointers are resolved: `ca_Links.m` is `&na.cm`, so that it is `na.cm`; `va.m` is
`la.cm`; `ca_Hash.m` is `va.cm`; `ca_Data.m`, `ca_Name.m` and `ca_Tsize.m` point at the field's own
Maybe, so that they are "the field is not `Unset`". `la.w` says whether `ca_Links.w` is non-nil;
`va.hash` is the number of the row `ca_Hash.w` points into, 0 for nil and `Stray` when the slice was
replaced meanwhile. `append` may move the rows to another array, and a write through an older
`ca_Hash.w` is then lost or not: both outcomes are allowed.

Each method is one action with all its outcomes: success, error, panic (`res`). A panic in the middle of
a method keeps what was assigned before it (`LinksBeginList` through a nil `w`). `Maybe_Null` and
`allowNull` are left out: no field of the schema is nullable, nothing stores `allowNull`.

The two levels differ in one respect. `valueFinishTidy` of the type level sets `ca_Links.w` and
`ca_Hash.w` to nil, that of the representation level does not (`LinksReleased`, `LinkTidied`).

The caller makes any call on any assembler it has been handed (`Given`, `NodeHeld`, ...), finished or
not. Two kinds of handle it gives up: those obtained before `Reset`, and those of a row once its row is
over, because the same object then builds the next row. Handles of `Links`, `Data` and of a row's `Hash`
stay usable after their value is finished. Nodes of this package's own types, which `AssignNode` copies
whole, are assumed to satisfy the schema (`TypedAssumption`).

### Builders and the code

`Type.PBLink.NewBuilder()` is the row assembler with a `w` and an `m` of its own; the same holds for the
other types. `Builders` is the tree of `PBAssembler` cut off above `root`: the state of the assemblers
above is the one they have while a value of that type is being assembled (`Rooted`), no call reaches
them, and theorem `RootConsistent` shows that they never move. `built` is what the last `Build` returned;
since that is the pointer itself, `HandedOutStays` compares it with what the pointer shows now. The caller is
the one of `AssignNode`: it calls the assemblers, assigns nodes of any implementation to the list or the link
(`RootAssign`, `RootStep`), and may `Build` at any time but inside a loop, also after one that failed. What
the properties say holds of a careful caller (below); section 4 says what another can do. `AssignNode` to a builder of
a leaf has no loop and is one of its other calls. The type
level only: the representation builders of PBLink and PBLinks add the stale handle of finding 1.

### AssignNode and the code

A foreign node is a record of what its methods show: kind, entries of its iterator, whether the iterator
ends with an error. `todo` is the stack of loops under way; each step is one method call or one `Next()`,
made with the action of `PBAssembler`, and an error or a panic clears the stack as the chain of
`return err` does. The loops begin at `AssembleKey`: like the code they call neither `BeginMap` nor
`BeginList`, and look at no `m`.

A careful caller (`Careless = {}`) gives up two things. After an AssignNode that failed in its loop it makes no
call but `Reset` (or `Build`, of the builders). And it assigns to an assembler (`Proper`) when that is fresh
or finished, not between other calls; to a finished one anything, except a map or a list where the value was
assigned whole: the one case the code lets through instead of refusing. Then everything proved or checked
for direct callers holds. `Careless` names the assemblers, among node, list and row, where the caller does
not keep to that; section 4 says what is lost of each. A failed loop leaves its rows behind: `AssignSpec`
calls the builder "spoilt".

### NodeViews and the code

`idx` and `end` are the fields of the iterators. At the representation level three pieces of code deal with
absent fields: `MapIterator` computes `end` from the trailing ones (`LinkEnd`, `NodeEnd`), `Next` skips those
it meets (`Ahead`), `Length` subtracts them (`LinkLength`, `NodeLength`). `ViewSpec` knows only the entries
that show; the refinement makes the three agree. `ReprCopies` ties the views to `Schema`: what a
drained representation iterator gave is a node that `Schema` accepts, as the same node. A lookup of the wrong
kind (`LookupMisused`) is an error.

### DecodeBytes and the code

`pc` says which loop runs, `calls` lists the assembler calls up to the next test, and `Call` makes the
first of them with the action of `PBAssembler`; an error or a panic ends the decode where it stands, as
`return err` does. The flags are `have`, `links`, `lhave`. A field is one record: number, wire type,
whether its value is cut off, and its value. The caller resets the builder between two decodes or does
not.

### AppendEncode and the code

`inNode` stands for the typed copy as well: the copy shares the links' array with the caller's node.
`pbLinks` is the private slice that is sorted, `enc` the buffer. A node that the conversion through
`Type.PBNode` rejects is `NonConforming`: one that `Schema` does not accept, which `AssignNode` shows to be
refused. `EncodeSpec` fixes the order of links by a permutation (`StableOrder`), `AppendEncode` by
`pbLinkLess` and the contract of `sort.Stable`. The encoder keeps nothing between calls, so a behaviour is
one call.

### LinkFraming and the code

The same encoder and decoder on bytes, for nodes that are known to encode: `LinkSize` sums the sizes up as
`AppendEncode` does (M 129–142), `LinkBody` is what it then appends. `Varint` is any encoding that gives
numbers below 128 one byte and in which none begins with another. Where the decoder would
return an error there is no step, so that `Arrives` says it meets none.

## 3. Runs

| run | instance | states | shows |
|---|---|---|---|
| `pbassembler_type` | type level, 2 rows, 2 hashes, one value each of the other fields, one typed node, one typed link | 17,209 | `FinishedComplete`, `FinishedIsFinal`, `WriteOnce`, `RowFieldsRecorded`, and `AssemblerInv`, the inductive invariant of the proofs |
| `pbassembler_repr` | the same at the representation level | 139,083 | `NodeFieldsRecorded`, which stale handles cannot break (its types are theorem `TypeCorrect`) |
| `pbassembler_repr_final` | the same | violation | finding 1 |
| `builders_type` | the six other builders, two values each, 2 rows; five lists and six rows to assign, some bad, some broken | 45,857 | `BuiltConforms`, `HandedOutStays` |
| `assign_nodes` | representation level; nodes with every kind of link (maps of up to three entries over six, broken or not), every kind of list, every kind of map | 44,558 | `AssignServes` |
| `assign_mixed` | type level; three nodes, three lists, four rows between direct calls, 2 rows | 26,245 | `FinishedComplete`, `FinishedIsFinal`, `RowBitsTrue`, `AssignedOnce` |
| `assign_again` | `AssignNode` again into a builder that holds a whole node | violation | finding 3 |
| `views` | every link, nodes and lists of up to one and two of them, both levels; lookups of every field, an unknown one and indices from -1 to 3 | 8,389 | `DoneExactly`, `ReprCopies`, `ReadServes` |
| `decode` | representation level; messages of up to three fields of nine kinds and of four well-formed ones, one link of up to three fields of eleven kinds or of four; then up to two of six messages, with and without Reset | 48,474 | `DecodeServes`, `NeverRefused`, `IsACaller`, the invariants `Outline` and `ReadsOn`; Tsize beyond int64 |
| `encode_nodes` | every single link, lists of up to three over six links, with and without Data and prefix | 20,130 | `EncodeServes`, `RoundTrips`, the invariant `Underway` |
| `encode_decoded` | nodes decoded from the links of `decode` | violation | finding 2 |
| `framing` | single links around every boundary between lengths of one and two bytes, pairs of them, Data of 0, 127 and 128 bytes | 1,703 | `ReadsBack`, `Arrives` |

Every run with a type invariant checks it as well.

Bounds. `MaxLinks`: two rows show everything one row can leave to the next, and the proofs need no bound.
`RowsPerCall` keeps one `AssignNode` within it. `MaxInt64 = 1`: one positive, one negative half, zero and the largest
varint. Four fields are one more than a link can have and enough for links, Data, links and one more. Three
links show ties in the sort on either side of a smaller name. `MaxCalls`: a decode can follow a success, a
failure or a Reset, and another one that. In `framing` the bytes of every value look like the tag of a link,
and a hash of 34 bytes with names of 86 to 90 makes links of 126 to 130. `CHECK_DEADLOCK FALSE` is set where
the caller stops after its last call.

`DecodeServes`, `EncodeServes`, `AssignServes` and `ReadServes` are refinements: the abstract module is
instantiated with a mapping (`BuilderIs`; the buffer as the caller sees it; the entries that show) and checked
with its fairness, so they include that every call returns. `IsACaller` says that the decoder keeps to the
calls `PBAssembler` allows, so that the theorems about those hold for every decode.

Fairness. `WF(DecodeStep)`, `WF(EncodeStep)`, `WF(AssignStep)`, `WF(FramingNext)`: all run in the goroutine of
their caller and wait for nothing, a reader, writer or iterator that never returns excepted. `WF(ReadOn)`: a
loop over an iterator goes on while it is not `Done`, as every loop of the package does. No call is assumed to
be made.

## 4. Findings

1. `pbassembler_repr_final`. At the representation level a caller that kept the assembler of `Links`
   replaces the links of a finished node: `Finish` of the node has cleared the `cm` the list's check reads,
   and its `w` is still set. The check's text is "cannot assign into assembler that's already finished"
   (S 2138). The type level is immune (theorem `BuiltFinal`).
2. `encode_decoded`. A Tsize varint of 2^63 or more decodes to a negative integer (U 251), which
   the encoder refuses (M 112); `src/fuzz_test.go:39-41` treats that as a failure.
3. `assign_again`. `AssignNode` of a `PBNode` sets `m` but not `state` (S 2516–2527). Another `AssignNode`, of
   any map, then starts at `AssembleKey` in the initial state and writes into the node that `Build` has
   returned. The check of the other branch says "cannot assign into assembler that's already finished" (S 2514).
   The builders of PBLink (S 904, 911) and PBLinks (S 1937, 1944) do the same: see below.

Observed without a run of their own (the property named, checked alone):

* `builders_type.cfg` with `Careless = {"list"}` breaks `HandedOutStays`: after `AssignNode` of a `PBLinks` and
  `Build`, `AssignNode` of any other list appends its rows to the list that was returned (finding 3 for lists).
  It breaks `BuiltConforms` too: a row without a Hash is an error, but stays in that list.
* `assign_mixed.cfg` with `Careless = {"row"}` breaks `FinishedComplete`: `reset` of the row assembler (S 824) does
  not clear `cm`. A row that was assigned whole takes a map as well, as in finding 3; when that map's iterator
  fails after its Hash, `cm` stays set, and the next row is finished with `AssembleEntry("Hash")` and no link
  assigned, so that a node is built whose link has no Hash. `src/gen.go:37` declares Hash neither optional nor
  nullable, and `Finish` has a check for a value that is still being assembled (S 1068).
* An index below zero panics in a lookup (S 1767); `ViewSpec` allows just that.
* Data of a decoded node is a slice of the reader's own bytes (U 26).
* The bytes after a CID in a Hash field are ignored (U 197), so an accepted block need not be the encoding
  of its node; `cid.Undef` encodes to a Hash that does not decode (`ReadableLinks` in `RoundTrips`).

## 5. Proofs

`PBAssemblerProofs`, for all values of the constants, any number of rows and any values, from
`ValuesAssumption`, `TypedAssumption`, `LevelAssumption` and `BoundAssumption`. At either level:

* `TypeCorrect` and `NodeRecorded`: the types, and that the node's bit set tells its fields. They need only a
  part of the invariant below, the part no stale handle can break.

With `Level = "type"`:

* `Consistent`: `Spec => []AssemblerInv`. The invariant joins `NodeInv` (what the node's assembler state
  says of the node), `ListInv` (the list's `w` is set only while Links is being assembled, and every row but
  the one in progress has its Hash) and `RowInv` (between rows nothing of the shared assembler is left but `f`;
  its `cm` and `ca_Hash` are set only while Hash is being assembled; and a row that is finished is its list's
finished value, with every field its bit set says). None of the three is inductive alone:
  a step of a row changes what the list says of the last row, and `Finish` of the node relies on the list
  being finished. One lemma per group of calls (`NodeCallKeeps`, `LinksCallKeeps`, `LinkCallKeeps`), in each one
  step per method.
* `BuiltComplete`, `RowsRecorded`: consequences of the invariant.
* `BuiltFinal`: in a finished state no handle reaches the node: `la.w` is nil, `va.hash` is 0, and Data, if
  it was handed out, has its value.
* `WrittenOnce`: no call changes or clears what has a value, by the same case analysis on the invariant.

`BuildersProofs`, for the same caller and the same nodes as `AssignNodeProofs` below: `RootConsistent` shows that
`AssignInv` holds of the tree cut off above `root`, that the part above stands still (`Standing`), that no loop
runs there (`Below`), and that what could be built when a loop failed conforms (`RootInv`). The lemmas about
calls and loops are those of `AssignNodeProofs`; new are `AboveStands` and `StepStands` (what moves the part
above), and `Conforming`. `BuildsConforming`, `BuildsFinal` and `RootTypeCorrect` follow: once the root's Maybe
is set, every call and every step of a loop is refused or changes nothing (`CallRefuses`, `StepRefuses`).

`AssignNodeProofs`, at the type level and for a careful caller (`Careless = {}`), for nodes of any implementation
and any length, from `SourcesAssumption` (a struct of the package's own type came out of its builders, a node of
another kind holds a value of that kind) and `AssignAssumption` besides those above:

* `AssignConsistent`: `AssignSystem => []AssignInv`. A loop calls neither `BeginMap` nor `BeginList`, so that `m`
  is still Absent on the assembler it runs on, and `AssemblerInv` fails of the tree as it is. It holds of the tree
  as those calls would have left it: `Hat` is an instance of `PBAssemblerProofs` with that tree in place of
  `na` and `la` (`naHat`, `laHat`), and every step of a loop is a step of a caller of `Hat` (`NodeLoopCalls`,
  `RowLoopFinishes`, `LoopBegins`, `LeafAssigned`, ...) or none, so that `HatKeeps` takes over its lemmas. Which
  assemblers those are is read off `todo`, of which `Stack` says that each call is further down the tree than those
  that wait for it. `Ready` carries what the caller took care of to the first step of its AssignNode. After a
  failed loop only what the caller sees is kept, until `Reset`.
* `AssignedComplete`, `AssignedRowsRecorded`, `AssignedOnlyOnce`, `AssignedFinal`, `AssignTypeCorrect`: what
  `assign_mixed` checks on its nodes. The tree's lemma about a caller's call (`CallKeeps`) does not ask
  which caller, so that it serves the builders too. For a careless caller `FinishedComplete` and
  `FinishedIsFinal` fail (section 4).

`NodeViewsProofs`: `DoneCorrect` (the iterator has given exactly the fields up to `idx` that show, and `end` is
the last of those), `ViewTypeCorrect`, and `ViewImplements`, the safety part of `ReadServes`: initial states map
to initial states and each step to a step of `ViewSpec` or a stutter. `Length` needs the cardinality of what
shows, field by field. `ReprIsCopied`: what an iterator gives is at its places in order, each once (`Placed`, by
counting), so the entries of a drained representation are a struct of the schema, and `Field` finds in it what
shows, and `Unset` for the rest.

`LinkFramingProofs`, for strings of any bytes and lengths, from `VarintAssumption` (a byte per seven bits, so no
varint begins another), `BytesAssumption` and `NodesAssumption` (every link has a Hash; lengths fit a uint64):

* `SizeIsLength`: the number announced in front of a link is the number of bytes appended for it.
* `BlockReadsBack`: `Divided` says that the block is the frames of the links so far, one after the other; and once
  it is read, that what is left begins where a link of the node begins, or its Data, and what is left of a link
  where one of its fields begins. It refers to the block by its `Tails`, one for every link, because neither the
  encoder nor the decoder keeps them. `NumberRead` (the varint that was written is the one that is read, whatever
  is behind it) and `ChunkRead` carry it over each field. That the decoder never finds less than it looks for
  there is `Arrives`, which is liveness and stays with TLC.

`DecodeBytesProofs`, at either level, for any messages and any number of decodes, from `WireAssumption` (int64
values are the Tsizes, a CID that can be read is a hash) and `DecodeAssumption` (messages are sequences of fields)
besides those above:

* `Outlined`: `DecodeSystem => [](DecodeTypeOK /\ Outline)`. `Outline` says, for every list of calls the decoder
  may still have to make, what the assemblers are like: `NodeOpen`, `NodeKeyed`, `NodeExpects`, `NodeTakes`,
  `ListOpen`, `RowNew`, `RowOpen` and so on, each with the set of fields begun so far, which is what `have` and
  `lhave` say of the message. It is inductive together with `DecodeTypeOK` because it says everything the guards
  of the next call ask for; stale handles have no part in it, so it does not depend on the level. One lemma per
  assembler call (`KeyAsked`, `ListBegun`, `RowAdded`, `HashTaken`, ...) and one per test in the loops
  (`DataFieldKeeps`, `EndOfLinkKeeps`, ...).
* `DecoderIsACaller`, `DecoderNeverRefused`, `DecodeTyped`: what `decode` checks on its messages.
* `DecodedComplete` and `DecodedFinal`: `FinishedComplete` and `FinishedIsFinal` hold of every decode, at the
  representation level too, where a caller with stale handles can break both.
* `DecodeReadsOn`: `ReadsOn` relates the loops to the format. What has been read of the message, and of the link
  in hand, is a beginning that DAG-PB allows; `have`, `links` and `lhave` say what it contains; and the builder
  holds the meaning of as much of it as the calls made so far have delivered: all, all but the last field, or
  all with the last link only up to where it has been read. It is inductive together with `Outline`, which says
  where a call puts its value.
* `DecodeImplements`: the safety part of `DecodeServes`. A call of the assemblers is a stutter of `DecodeSpec`.
  The tests of the loops accept a field when what has been read stays a beginning of some DAG-PB message
  (`FieldFits`, `LinkFieldFits`), and refuse it only when no message that begins so is DAG-PB (`FieldRefused`,
  `LinkFieldRefused`); at the end what is delivered is the meaning of the whole (`MessageAccepted`). The lemmas
  about messages are those of `DagPBProofs`.

`AppendEncodeProofs`, for any nodes, prefixes and names, from `EncoderAssumption` besides those above:

* `StableSorts`: what `sort.Stable` returns for any list. The place an element goes to is how many come before
  it; places are pairwise different (`RankOrder`), so by counting each is taken once (`FS_Injection`), and the
  elements are at their places in order of their names, ties in the order they had.
* `EncodeUnderway`: `Underway` says how far the call has got: which links have been read and that the rest of the
  copy is zero, then that the copy is the links under one order `p` that `EncodeSpec` allows, and that the buffer
  is the prefix and the first links under that `p`. With `EncodeTypeOK` (`EncodeTyped`) it is inductive; without
  `p`, fixed by the sort and kept to the end, the message would not be known to be canonical.
* `EncodeImplements`: the safety part of `EncodeServes`. A step within a call is a stutter of `EncodeSpec`; the
  answer is an encoding of the node behind the prefix, or an error with nothing changed.
* `EncodeRoundTrips`: `Underway` also says that a message that was written complete consists of the fields of the
  links under `p` and of Data (`HasEncoding`). `FieldReadBack` and `LinkReadBack` build the link a decoder makes of
  such fields one by one, `LinksReadBack` and `EncodingReadBack` the node; since its links are sorted already, the
  order that changes nothing is the one under which it encodes to itself.

Model-checked only: the refinement `AssignServes`, `AssignNode` at the representation level, and what
other callers than the decoder can do there beyond `TypeCorrect` and `NodeRecorded`, and
everything temporal beyond safety (fairness and ENABLED are outside the prover).
`Schema` defines what is meant and is related to the loops by TLC; `DagPB` is related to the decoder by
`DecodeImplements`, `StableOrder` to the sort by `StableSorts`.

## 6. Not modelled, and what is left

Not modelled: `multicodec.go` (two registrations, one condition, four forwarding functions), `gen.go` beyond
the schema it declares, `doc.go`; accessors of leaf nodes and of Maybe types, methods that only return "wrong
kind"; basicnode and the assemblers of other packages a decode may drive; how a byte slice aliased with the
caller's buffer changes under it (U 26): one assignment, about which a model could only repeat the code.

Left for later: the refinement `AssignServes` as a theorem, which needs an invariant about what a loop has read
of a foreign node, as `ReadsOn` is about messages.
