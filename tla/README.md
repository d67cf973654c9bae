# protobufkdb in TLA+

Protobufkdb is a shared library that q loads to convert between kdb+ objects
and protobuf messages: to and from serialized char arrays, and to and from
files. This directory models it in TLA+, checks the models with TLC and proves
theorems about them with TLAPS. Paths below are those of the repository.

## 1. Inventory

| Part | State it keeps | Operations | Hard to get right |
|---|---|---|---|
| `src/MessageParser` | none between calls; in a call a message, a file stream, bytes read | serialize, parse, save, load, debug variants, arena variants | a save or load is many steps on a file other processes use, and may fail or die between any two |
| `src/MessageFactory` | import paths, the importer's pool, a second pool filled on demand, the list of imported files | add a path, import a file, list types, create a message | an import reads several files while they are edited; it can fail half way; types come from three places |
| `src/MessageFormat` | none between calls; in a call, local references to kdb+ objects | message to list or dictionary and back, recursively | oneofs, empty and absent values, flip tables that q builds and slices; who frees what when a check throws |
| `src/ScalarValues`, `src/RepeatedValues` | none | fields to atoms and lists and back, with type checks | unsigned integers in signed types, GUIDs, strings that stop at a NUL |
| `src/MapValues` | as MessageFormat | map fields to dictionaries and back | keys and values must stay together; entries ignored, duplicate, or in a flip table; keys that become one symbol |
| `src/KdbTypes`, `src/TypeCheck.h` | none | the kdb+ type of a field; exceptions for what does not fit | a type specifier that does not fit its field |
| `src/ProtobufKdb` | none | entry points: check argument types, forward, query a type | a type is looked up anew by every call, while files outlive the process and `.proto` files change |
| `q/init.q` | none | names the entry points; fixes `use_field_names` | – |
| libprotobuf, `k.h`, file system | (external) | wire format, reflection, importer, kdb+ objects, files | – |

How they interact. An entry point of `ProtobufKdb.cpp` checks its arguments and
calls the singleton `MessageParser` or `MessageFactory`. `MessageParser` asks
`MessageFactory` for an empty message of a type, has `MessageFormat` fill it from
a kdb+ object (or the other way round) and libprotobuf write or read it.
`MessageFormat` goes through the fields of the message and hands each to
`ScalarValues`, `RepeatedValues` or `MapValues`, which call back into it for
sub-messages. All of them ask `KdbTypes` which kdb+ type a field takes, and
throw `TypeCheck` exceptions, which only `MessageParser` catches. The singletons
(one of each class) are created by their first use. A q process runs one call at a
time, unless it has threads (`peach`); they would share the singletons. Processes share
nothing but the file system.

What makes each part correct:

- MessageParser: pieces of a save land in their places whoever else writes;
  an undisturbed file holds a prefix of the last save, and all of it once the
  save succeeded; a load sees one version of a file, and loading equals parsing.
- MessageFactory: a type, once known, is known for ever by the same definition;
  what is listed can be created; an import ends; there is one factory.
- MessageFormat and the value modules: what parsing returns can be given back
  and yields the same message; what is serialized can be parsed; of several members given
  for a oneof the last wins; every reference that is taken is given back or returned.
- ProtobufKdb: a type means the same to every call of a process; what was saved under a
  type loads under it; a call that is refused touches no file.

The hazards, each at its line and with the property that covers it, are in
`PROJECT.json`.

## 2. Modules

```
KdbTypes <- KObjects <- ScalarValues <- MapValues <- MessageFormat <- MessageTrees
MessageTrees <- Wire, MessageFormatProofs
MessageParser <- MessageParserProps <- MessageParserProofs
                        ^-- MCFiles
RoundTrip (EXTENDS MessageParserProps, MessageTrees)
      ^-- RoundTripProofs (EXTENDS MessageParserProofs, MessageFormatProofs)
      ^-- Transfer (EXTENDS Wire) <- Descriptors <- MCRoundTrip, MCSaveLoad
                ^-- TransferProofs (EXTENDS RoundTripProofs)
MessageFactory <- MessageFactoryProps (INSTANCE TypeRegistry) <- MessageFactoryProofs
                        ^-- MCFactory
ProtobufKdb (EXTENDS MessageFactory, INSTANCE MessageParser)
      ^-- ProtobufKdbProps <- ProtobufKdbProofs, MCProtobufKdb
KReferences <- KReferencesProps <- KReferencesProofs, MCKReferences
Singletons <- SingletonsProps <- SingletonsProofs, MCSingletons
```

**MessageParser** is the state machine of q processes and shared files. The
state of a process is where it is in an operation (`pc`), the arguments of the
operation (`job`), the bytes it is writing or has read (`buf`, `pos`) and what the
last operation returned (`result`). Array operations touch nothing shared and are
one action each. The file operations are cut where others can come between:

| Code | Actions |
|---|---|
| `SaveMessage`: create the message, open (and truncate) the file | `SaveMessage` |
| `SetMessage`, laying out the output | `SaveConvert` |
| `SerializeToOstream` | `SaveChunk`, `SaveStreamFails`, `SaveStreamed` |
| the stream's destructor, `return (K)0` | `SaveChunk`, `SaveClose` |
| `LoadMessage`, `LoadMessageDebug`: create, open | `LoadMessage` |
| reading to the end of the file | `LoadChunk` |
| parsing what was read, `GetMessage` or the debug text | `LoadParse` |
| `ParseFromIstream` finds the stream failed | `LoadStreamFails` |
| the process dies at any point, and is started again | `Crash` |

`last` and `dirty` are history: who opened a file for writing last and what became
of it, and whether during a load the file changed or a read failed. Nothing in the code depends on
them, and no guard reads them. The conversions are constants, so that the file
operations can be checked and proved for any conversion.

**MessageFormat** and the modules under it are the conversions, as operators: a
kdb+ object is a record with its type code, a message a function from field names
to values, a schema a sequence of field descriptors for each type. Exceptions are
values; a loop that an exception ends is `AppendAll` where the calls do not depend on
one another, and `SetItem` where they do. The functions of
the code keep their names. `KObjects` and `Wire` hold what is external: what q does
to lists it builds and slices, and how libprotobuf lays out, splits and merges
fields.

`GetMessage` and `SetMessage` call themselves for sub-messages. TLAPS does not take recursive
operators, so MessageFormat calls the constants `GetSub` and `SetSub` there, and
**MessageTrees** assumes what they are: for any collection `Messages` of messages of any depth, the
same operators (`RecursionAssumption`). `Nested` gives the messages inside a message; that it is
finite and that no message is inside itself (`NestedAssumption`) is what ends the recursion.
`SchemaAssumption` and `MessagesAssumption` say what descriptors and messages are like: a field
name is used once, a value has the type of its field, a oneof has one member set at most.
Descriptors closes the recursion with recursive operators for TLC, which evaluates all these
assumptions over the messages of the run.

The recursion of tables is treated the same way. A list of messages becomes a table; a column
of that table with a sub-message in every row is a list of dictionaries itself, which q makes a
table too (`Collapse`), and a row of the outer table then has a row of the inner one (`Slice`, `RowItem`).
`Groups` are the lists of messages that q makes tables of, `TablesOf` a table and those nested in
it (`GroupsAssumption`), and `RowsAssumption` says of their rows that `SetMessage` treats them as it treats
messages, and that `SliceSub`, which `Slice` calls for an inner table, is `Slice`.

MessageTrees also says what "comes back" means: `FlatRows` are the rows of tables, and of tables nested in
them, that q makes simple lists or tables of, so that `SetMessage` rejects them; `LooksUnset` the oneof members that read as
unset, `Back` the spelling a string comes back in, `Restored` what a field has to be, `Exact` and
`KeysKept` which messages come back as the same message, or read the same.

**RoundTrip** puts these conversions in MessageParser's place for its constants
(`InPlaceAssumption`), and states what the two together promise.

**Wire** is written like MessageFormat: where `Records`, `Merge` and `Parses` call themselves for
sub-messages they call the constants `RecordsSub`, `MergeSub` and `ParsesSub`, of which
`WireAssumption` says that they are these operators. It also says that a field number is used
once in a type. Records are in the order of the field numbers: `ByNumber` gives each field the
place its `Rank` is. **Transfer** puts the wire format in place of MessageParser's `Serialize` and
`Parse` (`TransferAssumption`: for what is serialized, and every prefix of it), and states what of a
message comes through. `CanBeParsed` describes the messages libprotobuf parses by the message
alone, by its text and its height (`Height`, `HeightAssumption`), and not by records.

**MessageFactory** is the state machine of one q process's message types. An
import is `ImportProtoFile`, then `ReadProto` and `BuildProto` for each file
it needs, then `ImportReturns`; `EditFile` is anyone who changes a `.proto` file.
`pool` is the importer's pool, `desc_pool` the one filled from it on demand.
The importer is external: it is modelled as far as the code relies on it (a file is
built when all it imports is; what is built stays; nothing that is built is read
again). The order in which it reads files is left open.

**TypeRegistry** is the abstract specification: a table of types that only
grows, a list of types that are all in the table. `MessageFactory` implements it
with `known` mapped to the definitions `CreateMessage` would use and `listed`
to the types of the imported files.

**ProtobufKdb** composes the two state machines into one q process. Every entry point
is a disjunct of `Call` and has its name: it is `Refused` for the first argument
of the wrong type, in the order of the code, or looks the type up in the factory (`Accepted`)
and hands the definition it found to the action of MessageParser (whose "message
types" are here definitions, `Unknown` among them). The factory and the parser are never
both busy (`Ready`), as q waits for a call to end; `Edited` and `Restart` come at any
time. A restart is also a `Crash` of the parser if a save or load was in progress.
`told`, `called` and `wrote` are history: with which definitions a type was used,
under which type the running call was made, and under which each file was last saved.

**KReferences** leaves out all values and keeps the references. A frame stands for a
function in progress: what it reads (`on`), what only its local variables refer to
(`own`), and how many fields or items it still has to do. On the way in (`SetMessage`, `SetItems`,
`SetTable`, `Slice`, `SetRow`, `FreeSlice`) objects of q are read and slices of
tables are made and freed; on the way out (`GetMessage`, `GetItems`, `GetMap`,
`Built`, `MessageBuilt`) objects are made, and become part of others. `Throw` leaves all
functions at once, as in the code, where nothing is freed on the way. Which objects
a message contains is left open, so that all nestings and
all lengths up to the bounds happen.

**Singletons** is `MessageFactory::Instance()` with its accesses of the static pointer as
steps of their own. `Construct` may become visible to other threads before or after `Publish`:
the accesses are not ordered, so that this is an outcome the build can produce. Any thread may
call at any time; `raced` is history and remembers whether a call began while the first one was
creating the factory. No guard reads it. Two guarantees are for the behaviours in which it is
false, as when the main thread calls the library once before it starts others. The third,
`RaceIsOver`, is for the others: however many factories the racing threads create, from some time on
all threads use one of them. What was imported into another is lost, which the code does not
prevent and its documentation does not exclude.

## 3. Runs

Runs that pass:

| Run | What it checks |
|---|---|
| `files` | two processes saving and loading one file, with failed writes and reads, crashes, rejected and oversized objects: `TypeOK`, `PiecesInPlace`, `UncontendedPrefix`, `SavedIsOnDisk`, `LoadIsSnapshot`, the inductive invariant `Inv`, and the action property `LoadIsParse`; `EveryCallReturns`: a process always gets out of a save or load, however often others write to the file it reads |
| `round_trip` | `ParsedConvertsBack`, `SerializedParsesBack`, `LastSpecifiedWins` over every kind of field, in both modes, with right, unusual and wrong objects, and truncated or overlong input; `ParsedConvertsBack` says exactly when an object is rejected (tables nested in tables included), what each field is afterwards, and when the message is the same or reads the same |
| `save_load` | `LoadedIsPartOfSaved`: with real conversions, what a load returns from a file that a save left incomplete is part of the message being saved, never something of an earlier one |
| `factory` | `PoolsAgree`, `ImplementsRegistry` (refinement of `TypeRegistry`), `EveryImportReturns` |
| `process` | `SameDefinition`: as long as q runs a type has one meaning, whatever is edited and imported; `LoadsWhatWasSaved`: between save and load as well; the inductive invariant `ProcessInv`; `ImplementsParser`: the process with all its entry points, wrong arguments, unknown types, imports and restarts implements `Spec` of MessageParser, so that all that is checked and proved of files holds for it |
| `references` | `OwnedOnce`, `ReadsLive`, `ArgumentKept`, `NothingLeft` and the inductive invariant `Inv`, with exceptions at every point |
| `singletons` | `OneFactory`, `NothingForgotten` and the inductive invariant `Inv`, if the first call was over when the next began; `RaceIsOver`: if it was not, the threads still agree on one constructed factory in the end, and keep it |

Runs that find a disagreement between the code and what it says of itself:

| Run | Finding |
|---|---|
| `rejected_save` | A save whose object is rejected has already emptied the file. |
| `flip_table` | A flip table that parsing returned is rejected when given back, if a row of it, or of a table nested in it, has atoms of one type only: q slices it to a simple list. |
| `empty_oneof` | In list form a oneof member set to a message without fields reads as the empty list, which means "not active" when given back. |
| `stale_import` | Importing a file again after it was edited succeeds, but the types added to it are not known. |
| `slice_leak` | An object that is rejected inside a flip table leaves the temporary slice of its row allocated. |

### Bounds

- `files`: two processes and one file are enough for every interleaving of two
  operations on a file; operations on different files touch different state. The
  longest output allowed has two pieces (`MaxLen`), so a save can be cut, overlaid
  and overtaken in the middle; one object is longer and one is rejected. `StreamBuf = 1`
  lets the last piece stay in the stream's buffer. The run checks liveness and therefore
  uses no symmetry. It has no char arrays to parse: that is the subject of `round_trip`.
- `round_trip`: operations without files do not interact, so that one process is enough.
  The schema has each kind of field that the code treats on its own: the signs,
  bools, strings, bytes, GUIDs, time types, repeated and map fields of scalars and
  messages, oneofs with scalar and message members, a recursive type, types with no field
  and with one, and a specifier that does not fit. `Path`, `Step` and `Twin` are for tables nested in
  tables, as a map of sub-messages with sub-messages makes them (`map_depth` in
  `proto/tests_proto3_dynamic.proto`): columns in which all sub-messages are set, or some, one table
  in another twice, flat rows of the inner one, and a row that is itself a table. Integers have two bits
  (`IntModulus = 4`), which is what it takes for a sign bit to matter. The objects given
  are the images of all messages, and about thirty that are unusual or wrong; every
  prefix of one output is parsed. The messages over which the assumptions of MessageTrees are evaluated are
  those that the arrays parse to, what these are converted back to, once more, and all that is
  nested in them (`AllMessages`). Two strings differ only after a NUL and one is not
  UTF-8. `RecursionLimit` is 3 and stands for the 100 levels libprotobuf parses: one type nests
  deeper. `IntRange` stands for 2^32: an array longer by two, which the run
  has, is received as one of length two. Since such an
  operation depends on nothing that happened before it, `MCSpec` has one call from the
  initial state, and stutters after it; `flip_table` and `empty_oneof` use it too.
- `save_load`: one message type with a repeated field, a sub-message and a map, two
  messages, outputs of at most two records of two pieces each, so that an output can be cut
  within a record and between records. No step reads the result of an earlier
  operation, so `VIEW WithoutResults` identifies states that differ only in results; the
  property looks at the result of the step that returns it.
- `factory`: two files that may import each other, of five contents: two versions of a
  type, a user of a type only the new version has, a circular import, and a compiled in
  type. One directory and at most one path: which directory a file is found in
  changes only what is found there, which `EditFile` leaves open anyway. Two successful
  imports: a first one, and one that meets its result. `MaxPaths` and `MaxImports` are
  guards of `AddProtoImportPath` and `ImportProtoFile`.
- `process`: one process, as other writers are the subject of `files`; one
  `.proto` file and two versions of what it defines: a new definition of an imported
  type, and an imported definition of a compiled in one. Two imports let the second meet what the
  first built; files that import others are the subject of `factory`. One save has one
  piece: what prefixes do is the subject of `files`, what matters here is whether a save is
  complete and which definition it used. A message names its definition, so that a load
  with another one would show. `WithoutResults` hides the last answers and,
  between calls, `dirty`, which no guard reads.
- `references`: calls five deep (`MaxDepth`), which is a table in a row of a table in a
  message, the least at which two functions lend the same object to `k()`; two items (`MaxItems`), so
  that a second slice follows a freed one; six objects. A process whose objects or
  stack are used up ends (`Exhausted`), so that the bounds exclude no behaviour below them.
- `singletons`: three threads and memory for three factories, so that each could
  create its own; one type, which is or is not in the factory that a thread uses. The run checks
  liveness and therefore uses no symmetry.

No run has a deadlock: a process can always call again (or stutter, in `MCSpec`, and after the one call of `references`); no configuration switches the deadlock check off.

### Fairness

`FairSpec` of MessageParser assumes weak fairness of the steps of an operation in
progress, for each process, and nothing of calls, failures and crashes. The code
justifies it: nothing between the entry and the return of an operation waits for
anything; no lock is taken. The same holds for `FairSpec` of MessageFactory and the steps
of an import. Nobody is assumed to stop editing or writing files. `FairSpec` of Singletons assumes
weak fairness of the steps of a call in progress, for each thread: `Instance()` waits for nothing
either. A thread need not call.

## 4. Proofs

All theorems hold for every value of the constants that satisfies the
assumptions next to them.

**MessageParserProofs** assumes that what accepted objects serialize to are
sequences (`ConversionAssumption`), that the bounds are natural numbers
(`BoundAssumption`), and that names for "nothing" are not mistaken for values
(`NameAssumption`). There may be any number of processes and files, and the
conversions can be anything.

- `TypeCorrect`: `Spec => []TypeOK`.
- `InvHolds`: `Spec => []Inv`, from which `NothingIsShifted` (`PiecesInPlace`),
  `FailuresLeavePrefix` (`UncontendedPrefix`), `SaveIsDurable` (`SavedIsOnDisk`) and
  `LoadsAreSnapshots` (`LoadIsSnapshot`) follow.
- `LoadingIsParsing`: `Spec => LoadIsParse`.

None of the guarantees is inductive alone. That a file holds a prefix of a save says
nothing about the next piece to be written. `Inv` adds what ties the
writer to the file: its buffer is the output of an accepted object
(`BufferIsOutput`); as long as nobody else opened the file, it is the writer that
opened it last, the file is as long as what it has written, and its buffer is
what `last` remembers (`OnlyOwnerWrites`); and while it writes, the save has no
outcome yet (`OpenIsNotOver`). `LoadIsParse` then follows from the invariant in the state
before the load returns: what was read is a prefix of the file, the load is at its
end, so it is the file, and the file is what was saved.

**MessageFactoryProofs** assumes `ProtoAssumption`: a `.proto` file names files and types,
and the markers for no file and no import are not mistaken for one. Any number of
files, directories, contents and types.

- `PoolsAlwaysAgree`: `Spec => []PoolsAgree`. The invariant is inductive: building a
  file keeps the pool linked because it checks that all imports are built and no
  type is defined twice; copying keeps the second pool linked because it
  brings every file with all its imports (`WithImportsClosed`, `CopyAgrees`).
- `FactoryIsRegistry`: `Spec => ImplementsRegistry`. Each action maps to an action of
  `TypeRegistry` or to a stutter; that types have one definition, which `PoolsAgree`
  contains, is what makes a lookup in the second pool find what the first defines.

**ProtobufKdbProofs** has the assumptions of both machines, for any number of types,
files and definitions.

- `ProcessInvHolds`: `ProcessSpec => []ProcessInv`, and from it `OneMeaning`
  (`SameDefinition`). That told definitions are the one the factory has now is
  inductive only with `PoolsAgree`, cited from MessageFactoryProofs: every step of
  the factory keeps the definition of a known type.
- `ParserIsImplemented`: `ProcessSpec => ImplementsParser`. Each entry point maps to
  the action of MessageParser or a stutter, for the file operations also when the type is
  unknown, and `Restart` to `Crash`. The theorems of MessageParserProofs therefore
  hold for the process.
- `LoadingGivesWhatWasSaved`: `ProcessSpec => LoadsWhatWasSaved`. A call in progress still has
  the definition of its type (`CallHasDefinition`), a file was last saved with
  the definition its type still has (`WroteDefinition`); the rest is `LoadIsParse`.

**KReferencesProofs** assumes that the bounds are natural numbers, nothing else: the
theorems hold for any number of objects, depth of calls and length of lists.

- `EveryReferenceCounted`: `Spec => []Inv`, and from it `AddedIsOwned` (`OwnedOnce`), `NoUseAfterFree`
  (`ReadsLive`), `CallerKeepsItsObjects` (`ArgumentKept`) and `SuccessLeavesNothing`
  (`NothingLeft`). That what is read is alive is not inductive alone: a function reads a
  slice that a caller owns, so `Inv` adds who owns what (`OwnedOnce`), and that what
  is read is q's or owned by a function further down the stack (`Readable`), which outlives
  its reader because calls return in reverse order.

**SingletonsProofs** assumes that the null pointer is not an address; any number of
threads. `FirstCallFirst`: `Spec => []Inv`; from it `OneFactoryForAll` and
`ImportsAreShared`. The invariant says that, unless calls raced, only one thread is in the
library until the factory is published and constructed, and after that nobody creates one.

**MessageFormatProofs** begins with theorems about the conversions of values, for integers of
every width and every setting of the string encodings: `AtomComesBack`, `ScalarComesBack`,
`ListsMatchScalars` and, for lists of any length in repeated fields and in the keys and values of
maps, `ListComesBack`. For messages it assumes what MessageTrees does (above). Its result is
`MessageComesBack`: for every schema and a message of any depth, if `GetMessage` makes an object
of it, `SetMessage` accepts that object in the same mode, unless one of the rows that q slices, from
a table or from one nested in it, is flat, and then only throws; all fields are `Restored`; the message is the same if it is `Exact`,
and `GetMessage` makes the same object of it if its `KeysKept`. The argument has four parts:

- A field. The loops over lists, maps and fields are recursive functions and folds; what each
  has after `n` rounds is shown by induction over `n` (`Induction`, from the well-foundedness of
  `<`), e.g. in `AppendLoop` and `EntriesAdded`. `SingularScalar`, `SingularMessage`,
  `RepeatedScalar`, `RepeatedMessage` and `MapField` show that a field of each kind comes back if
  its sub-messages do; `SkippedComesBack` what an empty list or `::` leaves. Map keys that become one
  symbol are the hard case: the value of the new key may be any of the old ones', not a mixture
  (`OneOfEach`).
- A row. A row that q slices from a table is not the object `GetMessage` made of the message: where
  that has a table, the row of an outer table may have a row of it, and a list may have become
  simple. `RowsAlike` shows that `SetMessage` does the same to both, or rejects the row exactly if it,
  or a row of a table nested in it, is flat: by induction on the messages nested in those of the
  table, with `FieldAlike` for one field and `ItemsAreSet` for the loop over them.
- A message (`OneLevel`). `AllSteps` follows `SetItems` through the fields: no step disturbs
  what another has set, as at most one member of a oneof is not skipped (`Exclusive`).
- A tree. A message with the fewest messages inside it that does not come back would have only
  sub-messages that do (`SubsAreMessages`, `PartIsNested`), against `OneLevel`.

**RoundTripProofs** combines this with MessageParser, for any number of processes and files.
The inductive invariant is `AllExplained`: a result of status `object` is what `MessageToK` made of
the bytes it is listed with, which are an array that was received or the content of a file, and an
`array` is of an object that was accepted.

- `ParsedComesBack`: `Spec => []ParsedConvertsBack`, if `Parse` makes of any content of a file a
  message that is among `Messages`, or fails (`ParsesToMessages`). For char arrays
  `InPlaceAssumption` says so, and TLC evaluates it; over all contents it cannot.
- `LastOfOneofIsSet`: `Spec => []LastSpecifiedWins`, if no conversion yields the marker `Unset` for
  a oneof member (`OneofsGetValues`), which is an assumption about the marker. Here the objects are the
  caller's, with any number of members of a oneof, unknown names for `::`, names given twice.
  The loop invariant (`LastIsSet`) says that after `n` items of an object exactly the member that
  was specified last among them is set.

**TransferProofs** adds the wire format, with the assumptions of Wire and Transfer (above).

- `ArraysParseBack`: `Spec => []SerializedParsesBack`. From `AllExplained`, an array is the output
  for the object it is listed with and no longer than q can keep; the rest is `OutputParsesBack`.
- `LoadsArePartsOfSaves`: `Spec => LoadedIsPartOfSaved`. From MessageParser's `Inv` in the state
  before the load returns, what was read is a prefix of the last output (`LoadReadsPrefix`); the rest
  is `PrefixIsPartOf`.

Both rest on what libprotobuf does to a list of records, for schemas with any number of fields and
messages of any depth:

- `RecordsMergeBack`: merged into a new message, the records of a message give it back, and its first
  `n` records a part of it. The records are the concatenation of those of each field (`Flattens`,
  `Layout`), each field has its place (`EveryFieldByNumber`), and the records of one field add up to
  its value (`FieldAddsUp`). The invariant of the merge (`MergedTo`) says that, after `n` records,
  fields before the one that record `n` belongs to are complete, that one has what its
  records so far add up to, and fields after it have their defaults.
- `RecordsParse`: all records of a message are parsed exactly if it `CanBeParsed`. Here the depth that
  is left is counted on the way down, against the height counted on the way up (`FieldsCan`).
- Sub-messages are covered in both by `TreeInduction`: what is true of a message if it is true of the
  messages in it is true of all.
- `OutputParsesBack` and `PrefixIsPartOf` add the chunks: a prefix of output is whole only
  between records, and is then the output of the first of them (`RecordsAreChunked`,
  `PrefixIsWhole`).

Only checked by TLC:

- liveness (`EveryCallReturns`, `EveryImportReturns`, `RaceIsOver`), which the provers do not reach;
- the five disagreements of section 3, which are counterexamples;
- that the recursive conversions of the runs satisfy `RecursionAssumption` and the other
  assumptions of MessageTrees, RoundTrip, Wire and Transfer: TLC evaluates them for the messages of `round_trip` and
  `save_load`, for all schemas they are assumed.

## 5. What is abstracted, and what is not modelled

- Bytes: output and input are sequences of pieces; a piece of a record
  does not parse on its own, whole records do, as in the wire format.
- Strings are values; a table says which strings contain a NUL, are GUIDs, and so on.
- Lists of messages without fields are left out of schemas (`SchemaAssumption`): q makes no table
  without columns of them, and what it does make the source does not say.
- The arena variants free messages differently and convert the same way; they share
  the actions of the plain ones. Texts of errors and the debug output are left out.
- Columns of maps, in a table, whose values are messages and that have the same strings as keys in
  every row: q makes a table of such a column as well. `RowsAssumption` leaves them out, so that the
  theorems say nothing of messages with them, and no run has one. Columns of maps of scalars are covered.
- Groups, required fields of proto2, closed and unknown enum values are not modelled.
- MessageFactory: nested types, packages and public imports; the list is a set.
- The 32-bit length of a char array is modelled modulo `IntRange`; arrays whose length turns
  negative are received as empty, and rejected by libprotobuf where it checks for them.
- The text of an error is kept in a static buffer that `krr()` refers to. Texts are not
  modelled, and so neither is that threads may overwrite each other's.
- KReferences has no values: which slices belong to which message is left to
  `RoundTrip`. An object `k()` returns because q is out of memory is rejected by the
  type check where a slice is read (`Throw`); where a list was to be made a table it would become
  part of the result, which is not modelled. How many objects an exception leaks
  on the way out of `GetMessage` is not stated as a property, as nothing in the repository
  claims otherwise.
- Singletons: only the factory has state that tells two instances apart; what threads do to
  one factory at the same time is libprotobuf's concern and q's, and not modelled.
- `init`, `version` and `versionStr` keep no state; nor does `q/init.q`, of which only the fixed
  `use_field_names` of the list and dictionary variants is modelled (`UseFieldNames`).
- The build, recipes, examples and tests have no run-time behaviour.

Three more things the models contain, for which no run stands because no property states them:

- A save whose last bytes cannot be flushed when the stream is destroyed still returns generic
  null (outcome `lost` of `SaveClose`; `SavedIsOnDisk` promises nothing of it).
- Importing a file that defines a compiled in type puts that type on the list of imported
  ones, while messages are created from the compiled in definition (`CreateMessage`).
- Threads that make the first calls at once may be given different factories (`raced`).

## 6. Plan

Done, in the order of what matters most: MessageParser with its files; the conversions; the two
together; MessageFactory and its abstract specification; the entry points, composing
MessageFactory with MessageParser; references to kdb+ objects; strings with NULs, text
that is not UTF-8, nesting and lengths at their limits; the creation of singletons by
threads; theorems about each state machine, about the conversions of scalars, lists and messages of
any depth, about both together, and about what comes through the wire format.

An abstract specification of files (a save replaces or leaves a prefix, a load returns
one version) was planned and dropped: `UncontendedPrefix`, `SavedIsOnDisk` and `LoadIsSnapshot`
say the same of MessageParser directly and are proved.

Left, should the project go on: import errors by their kind, packages and nested types in
MessageFactory.
