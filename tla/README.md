# A verification of wiregen

wiregen is a Go library: a program registers its wire types, endpoints, events, enums and unions and calls
`Registry.Generate`, which type-checks the registered packages and writes TypeScript types, decoders, validators,
optionally events, constants, an HTTP client and fast-check arbitraries, and OpenAPI documents. Nothing of it runs
in a server. It is one sequential call whose promises are hard in two places: what it leaves on disk when something
stops it, and whether five renderings of one registry say what `encoding/json` does.

This directory holds TLA+ models of the parts where a mistake would be hard to see in a test, the TLC runs that
check them on small instances, and TLAPS proofs of their main properties for every instance.

## The system

| Component | State | Operations | What makes it correct |
| --- | --- | --- | --- |
| Writing the outputs (`outputs.go`) | the tree, one pending file per output | `outputs`, `locate`, `same`, `writeFiles` | a reader finds whole files only; a staging error changes no target; no temporary file outlives the call; an error of the configuration writes nothing |
| Field resolution (`ast_engine.go`) | the field list of each struct | `resolveStructFields`, `resolveEmbeddedField`, `dedupJSONFields`, `resolveInto` | the fields are those `encoding/json` writes, each once, optional exactly when it may be absent |
| Request walk and components (`ast_engine.go`, `openapi.go`) | the uses of each type, the types that differ | `reach`, `refuseUndecodable`, `spreadDiffers`, `usedDirections`, `componentSchemas` | no undecodable field in a request, an `Input` form exactly where the two schemas differ, every `$ref` resolves, the walks end |
| Presence rules (`presence.go`) | none, pure rules on a field | `optional`, `absentOut`, `nullOut`, `nullIn`, `nullElem` | the TypeScript, the decoder and both schemas admit what the server writes and sends |
| Unions (`unions.go`) | the cases of a tagged struct | `resolveUnion`, `resolveCase`, the decoder | the decoder and the case schemas take every output of the server |
| Registry (`wiregen.go`) | the registered names | `registerNames`, `registerTypes`, `validate` | one type per bare name, the registry closed under what it names |
| Identifiers (`names.go`) | the claimed identifiers | `claimIdents` | no two bindings of the generated modules share a name |
| Endpoints (`endpoints.go`) | routes, paths, the error catalog | `validateEndpoints`, `resolveArgs` | one endpoint per route, one status and extension set per error code |
| Enums (`ast_engine.go`) | the members of each enum | `checkEnumKind`, `memberNames` | the members are what `encoding/json` writes for the constants, each of one value |
| Bounds (`bounds.go`) | the limits of a type | `namedBounds`, `misfit`, `refusesNull` | a limit fits its field and is the same in decoder and schema |
| Arbitraries (`emitters.go`) | the reachability of types | `arbForType`, `reachableFrom` | a draw ends and passes the decoder |
| Document (`openapi.go`) | the JSON document | `renderOpenAPI`, `checkRefs` | every `$ref` names something |

`Generate` calls them in one order: the options and the registry are validated (names, outputs, identifiers,
endpoints, OpenAPI info), the packages are loaded and every type resolved, requests are walked, the endpoint
arguments are resolved, every file is rendered in memory, and only then `writeFiles` touches the disk. The engine's
field lists are the shared state: types, decoders, arbitraries and schemas all read them. There are no goroutines,
so what interleaves is outside: other processes that generate into the same tree, a user who edits it, and the
operating system that fails a call or kills the process.

Hard behaviours: partial failure and kills in the write protocol, two processes in one tree, the time between the
check of the tree and the writes, recursive and embedded types, fixed points over cyclic references, and the
agreement of renderings that are written apart. `PROJECT.json` lists each at its line under `hazards`.

## The modules

| Module | Models |
| --- | --- |
| `Publish` | what a reader of the targets is promised: outputs replaced one by one, whole, in order |
| `WriteFiles` | `outputs` and `writeFiles`, with concurrent passes, failures, kills and a user |
| `MCWriteFiles` | its instances: a tree of five paths and two target lists |
| `WriteFiles_proofs` | its theorems, and that it implements `Publish` |
| `Locate`, `MCLocate`, `Locate_proofs` | which outputs are one file, and where the writes of an accepted set land |
| `FieldRules` | the loop bodies of `dedupJSONFields`, and the dominance rule of `encoding/json` |
| `DedupFields`, `DedupFields_proofs` | the two loops of `dedupJSONFields`, and their theorem |
| `Promotion`, `MCPromotion` | the flattening of embedded structs, with those loops at each, against the rule the docs state |
| `Promotion_proofs` | its theorems: what each call has listed, and what the root keeps |
| `SchemaRefs`, `SchemaRefs_proofs` | the request walk and the components of the OpenAPI document |
| `Document`, `MCSchemaRefs` | those and then the check of every `$ref` in the document |
| `PresenceRules` | the rules of `presence.go` and, apart from them, what `encoding/json` writes |
| `Fields` | from the Go type of a struct field to its plan, beside what `encoding/json` does with the type |
| `Presence`, `MCPresence` | one field from its declaration to the wire, through decoder, schemas and arbitrary |
| `Enums` | the members of an enum, beside what `encoding/json` writes for its values |
| `Unions`, `MCUnions`, `Unions_proofs` (`PresenceRules`' theorems too) | the resolution of a tagged union and of its tag's enum, and its values on the wire |
| `Bounds` | how bound methods are read, and what the check, the schema and the arbitrary make of them |
| `Arbitraries`, `MCArbitraries`, `Arbitraries_proofs` | drawing a value of a recursive type, and of a bounded field |
| `Idents` | what every generated module binds and imports, and what is claimed beforehand |
| `Register` | the names of a registry: one type per bare name |
| `Endpoints`, `MCEndpoints`, `Endpoints_proofs` (`Register`'s lemmas too) | the registration of names, the checks of the events and the endpoint table, its operations in the document, a request's arguments |

### WriteFiles

`disk` maps each path to nothing, a directory or a file, a file being who wrote it, which output it is and whether
it is whole. Each pass has a program counter and the index of its running loop. `Check` is everything `Generate`
does before it writes, reduced to what touches the disk, the refusals of `outputs`; any other error there is a
fault. `MakeTSDir`, `Stage`, `Write`, `Commit`, `Cleanup` and `Return` are `writeFiles` in its order, one action per
call that can fail or be interleaved. `pending` is the Go slice of pending files by what became of the temporary
file of each. A pending file is package `atomicfile`, which is not in the repository: `NewPendingFile` creates
the parents and refuses a target that is a directory, `Commit` is a sync, a rename and a sync of the directory, and
`Cleanup` removes what was not committed. The model takes from it what `outputs.go` relies on: the rename is atomic.
A cancelled context fails the next call, so it is one of the faults. Paths are names of files: that two paths may
name one file (symlinks, hard links, letter case) is `Locate`'s matter. No directory is removed, by the user or by a
pass.

`Faults` lets any call fail and any pass be killed. A failed `MkdirAll` leaves any outermost part of what it had to
make. `MaxEdits` bounds the user's edits.

### Locate

The tree is seen as the program sees it, through `Stat`: `look` maps a directory and a name in it to what is found
there once symlinks are followed, compared by identity as `os.SameFile` does. A symlink to a directory, a hard link and
two spellings on a file system that ignores case are then two entries that lead to one file. `Stat` takes one step of
`outputs.go`'s `walk` and `below` for one path, `Claim` and `Refuse` compare an output with those before it
(`target.same`: the same file, or the same existing directory and the same missing rest in any letter case), and the
writes of an accepted set make directories and files and rename over them. `EachReadsItsOwn` follows each path again
when all is written.

Left out, each a single condition: a dangling symlink, which the walk takes for a missing name; and, for
`RefusedIsOneFile` alone, a TS directory that climbs, since `below` joins paths by text and so cleans `..` before it
looks. On a tree that tells letter case apart, two outputs that do not exist yet are refused if they differ in case
alone, as docs/configuration.md says; that is why `RefusedIsOneFile` speaks of the other trees. The model has the tree
quiet between the check and the writes: what a concurrent user does is `WriteFiles`'.

### DedupFields and Promotion

`FieldRules` has the body of the first loop (`Consider`) and, apart from it, the rule: of the fields of a name the
shallowest stand, of those the tagged ones if any is tagged, and the name is kept if one field is left.
`DedupFields` runs the two loops step by step over a raw list. `Promotion` keeps the calls of `resolveStructFields`
under way as a stack: each has its struct, the index of its next member and its raw fields, and `visited` holds their
structs. `TakeField` is `resolveNamedField` for the innermost call's member, `PassMember` a member that is skipped or
embeds a struct on the path, `EnterEmbed` the call for an embed, `Deduplicate` hands the list of a call that has read
its members to the loops of `DedupFields`, and `Return` adds what they keep, promoted, to the caller's list, with the
deferred `delete`. What the root keeps is compared with the rule applied once to all fields below it: a field is a path
of embeds through no struct twice (`Paths`) and a member of its last struct. A member's type plays no part here. A
member with a bad tag name is refused elsewhere and left out.

### SchemaRefs and Document

A registry is an order of types, the types each one's fields name, the types whose two schemas differ by
themselves, the types with a field `encoding/json` cannot decode, and the uses in endpoints, events and the error
envelope. `reach` recurses; its calls are the frames of `stack`, and `Walk` runs the call on top for one field. The
phases are the functions in the order `Generate` calls them: `refuseUndecodable`, `spreadDiffers`, the two loops of
`usedDirections`, `componentSchemas`. Parameters hold scalars only, so no `$ref` leaves them. The components of a
union's cases carry a dot and are one with the union's here. Sorting the types changes the order of loops and no
result, so one order serves both lists.

`Document` goes on where `SchemaRefs` ends, with its variables unchanged: `CheckRefs` is `checkRefs` over the rendered
document, whose `$ref`s are those wiregen writes for the components and one a Mappings Schema may give. A document is
the function from positions to objects, arrays and scalars, and text is a sequence of symbols, since the pointers'
escapes and encodings are what the property is about. `ResolvesIn` translates the code's way from a `$ref` to a value;
`At` is the pointer the code writes of a position in its messages; `EveryRefNamesOne` says that the two are inverse. A
struct field named `$ref` on the wire is left out: the check takes the `properties` object that holds its schema for a
reference that is no string and refuses the document, though JSON Schema means a property there.

### PresenceRules, Presence and Unions

A field is its kind, its pointers, its omit options, whether it came through an embedded pointer, and for a
collection its least Count and its element. `PresenceRules` holds the methods of `presence.go` beside
`encoding/json`: the states a Go value of that field can be in, and which of them are omitted or written as null.
`PresenceIsExact` compares the two, and is proved for every field.

`Fields` starts before that, at the Go type: a record of its constructor (basic, pointer, slice, array, map, alias,
interface, struct, named) and, of a named type, the marshalers on its value and its pointer, the unmarshalers, its role
in the registry and whether it is mapped. `ResolveInto` is translated from the code with what it refuses, for a
response or for requests only, and `Quote` is the `,string` option. Apart from it stands what `encoding/json` does with
the same type: `Written`, the JSON forms a value of it may take, addressable or not, and `TakesBack`, whether it reads
them again. `FieldIsWireForm` compares the two.

`Presence` sends one field through everything that is generated for it. `Resolve` plans it, `Respond` marshals any Go
value, `Decode` is the generated decoder, `Resend` what the client sends after decoding, `Request` any value the
request schema admits, `Receive` is `Unmarshal`, and `Draw` a draw of the field's arbitrary. The renderings are
translated one by one: `DecodeField` is `emitFieldDecodes` with `emitOptionalField`, `ElemDecoder` is `elemDecode` with
the order in which it tries null and empty, `FieldSchema` and `ObjectSchema` are those of `openapi.go`, `MemberAdmits`
is the TypeScript member. A scalar and a struct are zero or something else; a mapped type, whose three expressions the
user writes, stands with the scalars, and its form on the wire is the user's. A field that may be absent and is absent
is held to no Count, in the code as in the model. A type with `UnmarshalText` but no `MarshalText` whose kind is no
string is written plainly and cannot be read back; no rule of the code or its documents speaks of it, and
`FieldIsWireForm` excepts it by name (`oneWay`). `encoding/json/v2` has other rules and is out.

`Unions` runs `resolveUnions` over the declarations of one struct and, for an accepted one, puts any value of the
struct on the wire: the server may leave a field of another case set. The decoder's switch and `refuseKeys`, the
case schemas under `oneOf` and the arbitrary are translated apart, as they are written. What a field's value
decodes to is `Presence`'s matter. The tag may be an enum: `DiscoverEnums` comes first, as in the code, and `Enums`
computes the members from the constants of the type's package (a repeated value once, constants of other types not,
one that `Wire` refuses no member) beside what `encoding/json` writes for a value, by the codec of the type. The cases
must be the members, and the server tags with a constant: that the two meet is a property, not an assumption.

### Arbitraries

A draw of a type is a draw of one record and then of the types its fields tie to. The model follows any one of them,
so a draw that never ends is a behaviour that never ends. `depth` is fast-check's counter under the shared
identifier: `fc.oneof` takes a type's leaf once it has reached `maxDepth`, and may before; it stops at the cap, where
it has no further effect. A type that cannot do without a value of itself has no Go value either and is no input.

A field may be of a type with limits. `Bounds` reads the declarations of the four methods (`namedBounds` and what it
refuses), fits them to a kind, and has the decoder's check, the schema's keywords and the arbitrary apart from each
other. `int64` is scaled to -16 .. 15, with JavaScript's greatest safe integer at 7 and `MaxInt32` at 4, so that every
limit has values on both sides. A Range wholly past the safe integers, for which `fc.integer` has no values, is no
input. An unsigned type whose Range starts below 0 is a schema with that minimum in place of 0; what its values are is
bounded by their type. Regular expressions are opaque.

### Idents, Register and Endpoints

A binding is an identifier and what it is of, so that two claims of one thing do not clash and two things of one
identifier do. `Idents` has, from the emitters, what each module binds or imports, and from `claimIdents` what is
claimed; nothing in the code relates the two. `Register` lists every mention of a type in the order the code meets them
(the types listed, those of endpoints, events, unions and the error envelope, then the enums) and has what one mention
does to the names recorded; the generator's grown list of types is the domain of `typeNames`.

`Endpoints` runs the validation in its order: one `RegisterName` per mention, `validateEvents`, `claimIdents`,
`validateEndpoints`, `validateEndpointTypes` and the paths of `renderOpenAPI`, one action per endpoint of each loop.
`taken`, `paths`, `routes` and `catalog` are the maps of those functions. The document is always rendered. Spelling is
left out: methods, error codes, header names, media types and path characters are valid in every input, a path is a
sequence of literals and placeholders, and `pascal` and `enumConstName` are functions over the names in use. The checks
of one endpoint have no order in the model, as any of them refuses the table and which one speaks is wording. `tsName`
sanitizes an override and no Go name; that matters for unexported types only, as no reserved word starts with a capital.

## The runs

All runs set `CHECK_DEADLOCK FALSE`: every model stops when `Generate` has returned.

- `WriteFiles` (138,591 states): two passes share the target `gen/t`; besides, one writes `gen/sub` as a file and the
  other a file below it. Faults, kills, one edit, and every starting tree of five paths. Two passes and two outputs
  are where commits interleave, a pass overwrites the other's output between its own two commits, and a failure falls
  before, between and after commits. One edit suffices to put a file or directory in the way of any step; more only
  repeat it. Fairness: weak fairness of each pass, for `EveryPassReturns`. `Generate` waits for nobody, so a live
  process takes its next step; nothing is assumed of the user or of faults.
- `WriteNested`, `PromotionTies`, `ArbitraryCounts`, `EndpointConstants`: the disagreements below.
- `Locate` (421,543 states): 51,744 trees and output lists over a base directory, one in it, one in that and two files,
  with every choice of what three names lead to, two of them differing in case only, on trees that tell case apart and
  trees that do not; up to three outputs below the TS directory or beside it, with `..`. Two paths can meet through an
  alias above the last existing directory, at it, or at the file; three levels have each.
- `Promotion` (2,218,807 states): 53,751 declarations of `T`, `A`, `B` and the unexported `c`, at most two members
  each, all fighting over the name X, with every call and the loops of its deduplication. Two members per struct give diamonds,
  cycles, a tie inside an embed and a rival beside it; three fields of one name in the list are the first case of a
  tie that a later field undoes.
- `SchemaRefs` (377,519 states): three types that reference each other in every way of up to two references, with
  self references, cycles, unreached types, a type used both ways, one reached as parameters only, and a type whose
  TypeScript name ends in `Input` and clashes. Weak fairness of the whole: it is one goroutine. For one registry, every
  `$ref` of up to four symbols below one key, into three values: keys that hold what a pointer escapes, an array of
  eleven, an array in an object. Four symbols are a step into an array and a two-digit index, or two escapes.
- `Presence` (376,390 states): every kind, up to two pointers, each omit option, direct or through an embedded
  pointer; collections of these, and collections of those with an element that is never null, is text for nil, has
  a pointer, or is any JSON. Besides, in every place a type can stand, named types with every set of marshalers and
  unmarshalers, each role in the registry, mapped or not, with and without limits, and as the key of a map: 36,238
  members. Two pointers are the first case in which null and a pointer to nil differ; a second level of nesting is where
  an element is itself a collection, and a third repeats it. `MaxItems` is 1: elements do not depend on each other.
- `Unions` (421,599 states): a tag that is a string, an enum or unfit, two other fields over fourteen shapes, every
  assignment of lists of names, right or wrong, to two tag values, and two declarations for one struct. Two fields
  are needed for one that belongs to one case only beside one that belongs to both. For one pair of fields, every enum
  of up to three constants, of each kind and codec, with and without `Wire`, with texts that repeat or fail.
- `Arbitraries` (157,713 states): three types that tie to each other by value, pointer, optional or required
  collection, and unions of two cases, with a depth cap of 2; besides, one type with a field of each kind under every
  declaration of the bound methods at the edges of each limit. Three types give a cycle with an entry from outside.
  Weak fairness of the whole: fast-check draws until it is done. No recursive collection has a lower Count here;
  `ArbitraryCounts` is the run that has them.
- `Endpoints` (178,329 states): 12,802 registries in seven families, one for what each of the checks looks at. Three
  endpoints over two methods and three paths, two of which differ in a placeholder's name, for routes; two endpoints
  with up to three listings of two codes for the catalog; one endpoint of each kind, status and body for the statuses;
  one with all sets of up to two fields and headers for the arguments; two endpoints, overrides, events and arbitraries
  with names chosen to meet each other's suffixes for the identifiers; two packages' types of one name, listed,
  referenced and as enums, for the names; and events, unions and the envelope. Every clash is between two endpoints, two
  mentions or an endpoint and the registry, so two show it; the third of the routes comes after two that were accepted
  together.

Every passing property has a mutant in `PROJECT.json`, a plausible bug (a dropped guard, an off-by-one, a missing
reset) under which the same run finds it violated. The mutant operators stand before the definition they replace.

### Disagreements of the code and its documents

- `WriteNested`: README.md says "A configuration error stops it before any file is written". `target.same` refuses
  two outputs that are one file, but an output that names a directory above another output passes. Staging the lower
  one makes the directory, the commit of the upper one fails on it, and the outputs before it stay replaced.
- `PromotionTies`: docs/type-mapping.md says embedded structs are flattened with the promotion rules of
  `encoding/json`. `resolveStructFields` deduplicates at every struct, so a name that ties inside an embedded struct
  is forgotten there; if a sibling embed has the name deeper, or at the same depth without a tag, wiregen generates
  it, and `encoding/json`, which compares all of them at the root, writes none. `ExactWithoutNestedTies` shows that
  this is the only difference, and `NoDominantFieldLost` that it only ever adds fields.
- `ArbitraryCounts`: docs/arbitraries.md says "the drawn values pass the generated checks" and lists a slice within
  its `Count`. The leaf of a recursive type is drawn with its required collections empty, whatever their Count, so
  with a lower bound of one the drawn value is refused by the decoder.
- `EndpointConstants`: the comment of `Generate` says it refuses "two generated identifiers of one name". Two
  constants of one `TSName` are accepted and written as two exports of that name: no constant claims its name.

## The proofs

TLAPS checks each theorem for all values of the constants that satisfy the named assumptions.

- `WriteFiles_proofs`, from `PassAssumption` (the user is no pass), `TargetsAssumption` (each pass lists a non-empty
  sequence of paths), `TreeAssumption` (being above is transitive and irreflexive) and `BoundAssumption`. None of
  the safety properties is inductive. `IInv` adds, for each step of a pass, what its pending files are (all whole while
  staging, a committed prefix while committing), how many outputs it has committed and whether it holds an error
  (`PassInv`), and that the committed prefix is on disk until somebody else writes (`SoloInv`). `WholeFiles` needs
  the first: a rename publishes a whole file only because every pending file is whole in the commit loop. The
  refinement maps files to what a reader sees, forgets directories and temporary files, and shows `Stage`, `Write`
  and `Cleanup` to be stutters, and a `Commit` to be a `Put` if the file was renamed, whatever its error, and a
  stutter if it was not. `ErrorsWriteNothing` is the counterpart of the run `WriteNested`: undisturbed, a pass that
  lists no target above a later one writes nothing when it fails, since what was staged can still be renamed
  (`StagedAreFree`). Listing a target above a later one is therefore the only way the README's promise is broken.
- `Locate_proofs`, from the assumptions of `Locate`: a world is a tree with any links, in which letter case may or may
  not matter, and the path of a TS output is local and clean, so it holds no `..`. Its `IInv` has three parts.
  `TreeInv`: a file has no entries, and a tree that ignores case finds one thing under all spellings of a name.
  `PathsInv`: what `fis` holds of a path is what the path leads through, name by name; where it ended, the next name
  leads nowhere and does not climb; no two finished paths are the same. `WritesInv`: the directories staged so far are
  there, and each committed output is at the end of its own path. The argument is `Located`: two accepted paths end in
  different directories, or in one with rests that differ in more than case. A new entry moves on exactly the paths
  that end before it, which shortens their rests alike, so they stay apart; from this come `AcceptedStays` and
  `OwnFileIsRead`. `RefusedAreOne` starts from two paths that meet somewhere and have the same rest there in any case,
  and follows both to their ends. That is an induction along the path, done with the least element of a set of
  counterexamples (`WFMin` on the naturals), as the induction theorems themselves take an operator.
- `DedupFields_proofs`: `BestInv` says that after any prefix of the list the entry of a name holds a standing field
  of the prefix, with count 1 exactly when it stands alone. The induction over the list is the induction over the
  loop.
- `Promotion_proofs`, from `StructAssumption` (there are finitely many structs) and `DeclsAssumption` (members have
  their type, two of one struct differ in name unless one is ignored, and an embed that flattens names a struct). Both
  theorems speak of any number of structs that embed each other in any way. The properties say nothing before the last
  step, so `FlattenInv` says for each call under way what it has listed: every field of its list is one below a member
  it has passed, once, with the flags of its path from here on (`ListedIsRead`), and every field below such a member is
  listed or has a rival, through the same embedded struct, that it ties with or loses to (`Lost`, in `ReadIsListed`).
  The call stack is itself a path, so entering an embed extends one, and returning through it moves every field one
  step up its own path (`PromotedUp`). `CallsInv` ties `visited` to the stack; without the deferred `delete` the
  fields of a second embed of one struct would be neither listed nor lost. Inside a call `IInv` of `DedupFields` holds.
  `DominantResolved`: a field that is lost has a rival that is not weaker, so it does not dominate. `ExactResolved`: a
  field that is kept and does not dominate has a rival that nothing beats, which then was lost below some embedded
  struct to another of its rank; both stand below that struct alone, as a path there that enters the prefix again has
  a shortcut (`Shortcut`), so that struct has a tie.
- `SchemaRefs_proofs`, from `RegistriesAssumption` (registries have their type, and list every type). `FramesInv`
  and `ReturnedInv` say that a use is either of a call still running, which has recorded the references it has
  passed, or of one whose references are all recorded. When the stack is empty the uses are therefore closed, and
  hold all that the roots reach; `RootsInv` bounds them from the other side. Reachability is defined without
  recursion, as the least closed set.
- `Unions_proofs` begins with `PresenceRules`, from no assumption: for every field, with any number of pointers,
  `AbsentOut` and `NullOut` hold exactly if some Go value of it is omitted or written as null, and requests may do
  whatever responses may. Of unions, from `StructsAreFields` and `ValuesNamed`, its invariant says that `union`, once set, has passed
  every check of `resolveUnion` against the fields, and has a case for each member of its tag's enum. `ConstIsMember`
  and `ConstIsOneValue` say of any enum `discoverEnums` accepts that what `encoding/json` writes for a constant is a
  member, and of one value only. From this the decoder takes the values and the draws that fit a case, and either keeps
  what was sent or refuses. `WireIsSound` says what `encoding/json` may have made of each field, by `PresenceRules`;
  under it, what one case's schema admits has the keys and nulls that case's branch of the decoder takes
  (`AdmittedIsDecoded`), what the decoder returns has the members of the case (`DecodedIsMember`), and a value of one
  case fits that case's schema and, as the tag is a constant in each, no other (`WireFits`).
- `Endpoints_proofs` begins with the lemmas of `Register` on one mention: after it the names recorded are those of the
  mentions so far, which agree with each other, and a mention that is refused disagrees with one before it. `NamesInv`
  carries them along the list. It goes on from `RegistriesAssumption` (a registry lists what it holds, and an endpoint
  without a Params type has no parameters), `TypesAssumption` (`registerTypes` has made wire types of what endpoints
  and events name) and `HelpersAssumption`. The loop compares an endpoint with what the maps hold, and the promises
  compare endpoints with each other. `Prefix(n)` bridges them: after n endpoints the maps hold exactly what those n
  hold, and they are sound together. A refusal is then a proof that the table is unsound, and at the end of the loop
  the whole table is sound. `DocIs(n)` says the document has the operations of the first n endpoints and no others,
  which needs `PairSound`: two endpoints of one path differ in method. `OneMeaning` follows from `BindingsAreClaimed`,
  module by module. `NamesMeanOne` is `NamesInv` at the end of the list of mentions. `BodiesAlwaysAgree` follows an
  endpoint from its operation in the document to what its function decodes: both read the kind and the response type,
  and the checks leave the status 204 to JSON without a response type. `ArgumentsAlwaysReach` needs that every
  endpoint past `resolveArgs` has distinct arguments, and parameters that are the placeholders of its path.
- `Arbitraries_proofs`, from `MethodsAssumption` (a Range and a Count return two integers), `ValuesAssumption` (a text
  has no fewer bytes than code points), `RegistriesAssumption` and `LimitsAssumption` (the greatest safe integer is
  odd, as one below a power of two). `NumberKeepsOrder` says that two numbers, read as JavaScript reads them, may
  become one but never change places: so the decoder, which compares after rounding, takes all that is allowed, and of
  what JavaScript counts to nothing else. `AppliedBounds` reads off the refusals which limit a kind may have. The
  invariant `IInv` says that past the refusals every field is applied and what was last drawn is fine, or is one of
  the empty collections of `ArbitraryCounts`; `DrawsAreFine` shows them to be the only ones, and `DrawsPass` assumes a
  registry without them.

Only model-checked:

- liveness (`EveryPassReturns`, `AlwaysReturns`, `DrawEnds`), which TLAPS cannot prove under fairness;
- `Presence` with its `Fields`, whose types, values and schemas are recursive operators, but for the rules of
  `PresenceRules`: TLAPS knows nothing of what a recursion computes;
- `EveryRefNamesOne`, for the same reason: a pointer is written and a number is read by recursion over their text.

The `TypeOK` of `SchemaRefs` and of `WriteFiles` are only proved. `ConfigErrorWritesNothing` is stated for instances
without faults, checked where it fails and proved where it holds.

## Not modelled, and the plan

Left out for good: the text of the generated files (layout, escaping, comments), `go/packages` and `go/types`, and
the validators' TypeScript, which is external code in a string except where a decoder's rule is modelled. The order of
an enum's members is their order in the output and plays no part in what is checked. The parsing of a struct tag's text
and of a bound method's syntax tree are each one outcome of a small set.

Planned, in this order:

1. `EveryRefNamesOne`: that the functions behind a pointer and its tokens exist, by the least length at which one does
   not, and then that escaping and splitting undo each other.
2. The scalar part of `Presence`: fields without elements need no recursion.
