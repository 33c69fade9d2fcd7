# A verification project for litharness-contracts

TLA+ models of `litharness-contracts`, TLC runs that check them on small
instances, and TLAPS proofs of what can be shown for every instance. Source
paths below are relative to the repository root.

## The system and its parts

The repository is a library of data contracts that several sibling projects
(BookWorldState, LongRangeContext, ContinuityEvaluation, RevisionPropagation,
LitHarness) use *instead of importing each other*. It has no server and no
threads of its own. What makes the exchange hard is that every party runs **its own minor
version** of the library, that artifacts are parsed and re-serialised by several
parties in turn, and that revision ids and evidence spans are content addresses,
so that a payload may not change by a byte without anybody noticing. Beside the
library there are generated files (golden books and schemas) with the tools that
write them, tests that notice when they are stale, and a wheel that ships them.

| Part | State | Operations | Interacts with | What is hard | What makes it correct |
|---|---|---|---|---|---|
| Contract catalogue (`ids.py` … `conductor.py`, `__init__.py`) | none: dataclasses, enums, registries | none | read by codec and schema generator | additions must be invisible to older readers and to older payloads | every addition is optional with default `None`; every enum has `unknown` |
| Codec (`_serde.py`) | none | `to_jsonable`, `from_jsonable`, `schema_major`, `declared_schema_version`, `parse_artifact` | used by every producer and consumer, and by the fixture builder | nested types, bool as int, defaults, `None` omitted, unknown keys and members | what is accepted is well typed; re-serialising is lossless upwards |
| Exchange (README, "Compatibility rules") | the payload on the wire | produce, relay, refuse | siblings, through JSON | mixed versions in any order; old relays drop what they do not know | drift is accepted; readers never see what was not said; other majors are refused |
| Schema generator (`_schema.py`) | `defs`, the recursion | `json_schema`, `type_schema`, `dataclass_schema` | reads the catalogue; called by `tools/generate_schemas.py` and the drift test | recursive and shared classes | the schema is self-contained and minimal; the walk ends |
| Fixture builder (`fixture_build.py`) | the definition and scene texts it has read, the artifacts built so far | `__init__`, `resolve_target`, `span`, one method per artifact, `build` | sources on disk; codec; called by the tool and by the tests | six artifacts that cite each other, built one by one; quotes that occur more than once; line ends; sources edited meanwhile | every citation resolves in the same build; versions pin texts |
| Regeneration tools (`build_fixtures.py`, `generate_schemas.py`), drift tests | files in `schemas/` and `golden/`, what the running tool has read | read, build, truncate and write each file in turn | author, tests | failure or kill between two files, edits while a tool runs, left-over files | an undisturbed run leaves what the sources give; green tests mean an exact tree; running again repairs |
| Golden accessor (`fixtures/__init__.py`) | none | `golden_root`, `golden_path` | installed package | partial installs | what it returns exists |
| Wheel check, CI (`check_wheel_fixtures.py`, `ci.yml`) | `dist/`, the results of the two jobs | test, build, check | build backend, tests, consumers | each job sees half; several wheels present | what is green is what consumers read; the wheel checked is the one built |
| Job leases, events, policy ladder | none here | none here | LitHarness | — | only the record shapes are declared in this repository |

`PROJECT.json` lists the parts with their status, and under `hazards` what is
hard to test in this code, at its line, with the properties aimed at it.

## Modules

| Module | Models | How |
|---|---|---|
| `Contracts` | every dataclass, enum and registry | types, values and fields are records; one definition per source file for its dataclasses and one for its enums. `Library[m]` is the library at minor version `m`: the classes, fields and members it declares and its `SCHEMA_VERSION` |
| `Nested` | the recursion of `_serde.py` | what a function that calls itself for the values nested in a value computes: `Fold(x)`, from what is nested where (`Keys`, `Part`) and from how the result is made of the results for the parts (`Make`). With the theorems about it |
| `Serde` | `_serde.py` | `to_jsonable`, `from_jsonable` and "well typed" are three instances of `Nested`, one operator per branch of the code, the decoder's with the minor version of the library that runs it as a parameter. A raised exception is a value |
| `Exchange` | parties that use the codec | variables: what was produced (`object`, `origin`), what is on the wire (`wire`), the oldest version that handled it (`low`). Actions: `Produce`, `ProduceFails`, `WriteForeign`, `Forward(m)`, `Refuse(m)` |
| `Compatibility` | the compatibility rules of the README and of `manuscript.py`, as assumptions on the catalogue and on the writers | `CatalogueRules`, `ProducerRules`, `WriterRules`, and the inductive invariant `WireInv` of `Exchange` |
| `ExchangeProofs` | — | the theorems about `Serde`, `Exchange` and `SchemaAgreement` |
| `Writers` | what producers and foreign writers put on the wire | sampled objects and payloads, with the rule of `manuscript.py` that a producer who sets `lock_kind` also sets `locked` |
| `SchemaGen` | `json_schema` | the recursion as an explicit stack of calls of `dataclass_schema`; each entry of `$defs` is absent, a placeholder or complete. Actions: `Refer`, `DefineEnum`, `Enter`, `Return`, `Finish` |
| `SchemaGenProofs` | — | the theorems about `SchemaGen` |
| `SchemaAgreement` | what `_schema.py` writes for each type, as a validator applies it | `Validates`, next to the decoder of `Serde`, on the payloads of `Exchange` |
| `Goldens` | the working tree: sources, goldens, `golden_path`, and the tests of `test_fixtures.py` that compare them | a golden's content is what it was rendered from: the library and the source files it uses. Tests are predicates on a tree |
| `Regenerate` | `build_fixtures.py` in a tree that an author edits | actions of the author (`EditSource`, `ReplaceBook`, `EditLibrary`, `Declare`, `DeleteGoldens`), of the tool (`Start`, `Choose`, `Read`, `Build`, `Truncate`, `Write`, `NextBook`, `Complete`, `Raise`) and `Kill` |
| `SchemaFiles` | `generate_schemas.py` and `test_schemas.py` likewise | `EditType`, `DeleteSchema`; `Start`, `Truncate`, `Write`, `Complete`, `Raise`; `Kill` |
| `Freshness` | what a regeneration tool promises (abstract) | three variables: are the files fresh, is a run under way and undisturbed, how did the last one end. `Regenerate` and `SchemaFiles` are both shown to implement it |
| `FixtureBuild` | `fixture_build.py` | one operator per helper, one for each artifact, and one that says when its method does not raise; `Read` is `__init__`, six `Build…` actions are the calls in `build`, `Raise` any exception. `EditScene`, `EditDef` and `Translate` (a checkout that converts line ends) happen at any time |
| `Release` | `ci.yml`, `check_wheel_fixtures.py`, the accessor in an installation | `Checkout`, `RunTests`, `BuildWheel`, `CheckWheel` on commits, each a tree of `Goldens` with what the build lets into the wheel. `ci` tells a runner of CI, whose `dist/` is empty after a checkout, from a working tree, whose `dist/` is not |
| `LexOrder` | the order of strings | used for sort keys and for the names of wheels |
| `RegenerateProofs`, `SchemaFilesProofs`, `FixtureBuildProofs`, `ReleaseProofs`, `LexOrderProofs` | — | the theorems about these modules |
| `MCExchange`, `MCExchangeFindings`, `MCSchemaGen`, `MCRegenerate`, `MCFixtureBuild`, `MCRelease` | — | instances for TLC; `MCSchemaGen` also builds the graph of the real catalogue from `Contracts` |

`Exchange` and `Writers` extend `Serde`, which extends `Contracts`;
`SchemaAgreement` extends `Exchange` and `Compatibility` extends both. The objects
and payloads of `Exchange` are constants, which `MCExchange` takes from `Writers`.
It also extends `Compatibility`, so that TLC evaluates the rules for the
catalogue of this repository and for the sampled writers. `MCExchangeFindings`
does without them: there a writer departs from the rules. `SchemaGen` stands
alone, so that its theorems hold for every catalogue; `MCSchemaGen` shows that the
one in `Contracts` is such a catalogue.

`Regenerate` and `Release` both extend `Goldens`: the tree that the tool leaves
and the author commits is the tree that CI tests and ships, with one definition
of the tests for both. `Regenerate` takes from the builder only which sources it
accepts (`Buildable`) and which source files each artifact depends on (`Uses`);
`FixtureBuild` has the builder itself, reading its sources in one step. That the
files are in fact read one by one is in `Regenerate`.

Operators whose comment begins with "Mutant" are deliberately wrong variants of
the definition that follows them, one for every property: replacing the
definition by the mutant makes TLC find the property violated.

### What is abstracted

- Strings that no property tells apart are `"text"`; an enum's members that
  nothing singles out are one member `"named"`. The catalogue keeps every class,
  field, type and default.
- Fields that a class declares alike are grouped. Their order decides only
  which of two faults is reported first; error messages and paths are left out.
- A JSON number is an `IntV` or a `FloatV`, since Python tells them apart.
  `MaxFloat` stands, scaled down, for the largest float; an int further from zero,
  on either side, has none (`FitsFloat`).
- `schema_major` is modelled on the version strings that occur in `LeadingInt`
  and refuses all others.
- Dict keys are strings, as they are in every payload parsed from JSON;
  `str(k)` is then the identity.
- `SchemaGen` keeps of a schema what refers to other entries, and visits fields
  in any order, which includes the order of declaration. `required`, primitive
  types and enum values are in `SchemaAgreement`, which follows references
  instead of writing them.
- The validator is taken from the JSON Schema draft the schemas name: `1.0` is an
  integer, numbers have no limit. `ValidIsDecoded` excepts exactly these two.
- In `Goldens` numbers stand for the names of books and artifacts, in the order
  of `sorted()` and of `build()`. A file that is empty or cut off is `Torn`.
- `FixtureBuild` takes SHA-256 and UUIDv5 to be injective: a hash is what was
  hashed, an id the sequence of its parts. (Joining the parts with `/` is
  injective as long as ids hold no slash, as those of the two books do not.)
  Lists whose order nothing depends on are sets. The field `invalid` of a
  definition names the artifacts for which a key is missing or a value is in no
  enum; fields that are only copied are left out. An entity is any id with the
  prefix; a few names stand for all.
- What a wheel contains besides goldens is left out of `Release`, and what the
  build backend lets in is a set that the commit carries. `CheckWheel` follows a
  build, as the job's last step does, so the tool's result for an empty `dist/` (2)
  is in `CheckWheels` and not reached.
- Of the tests on goldens, `len(resolved) == 12` is left out, as `Goldens` has any
  number of books and artifacts, and "no other file" means no other golden (the
  test globs `*/*.json`). The model's tests pass more often than the real ones,
  so what follows from their passing is not made easier.
- `SchemaGen` is about hints that `json_schema` supports. The `TypeError` for others
  ends the generation of that schema; it is in `SchemaFiles` (`Renderable`), whose
  tool it stops.
- Position keys are modelled for fewer than 1000 scenes.

### Versions

`Current` (minor 2) is the library at this commit. Minors 0 and 1 are the
library without what the sources mark as added later: the 1.1 fields of
`ManuscriptNode` and `JobRecord`, the conductor types and events, and the 1.2
member `PARKED`. `NextMinor` is hypothetical: it uses every liberty the
compatibility rules give, an optional field more in each class and a member more
in each enum, so that the present library is checked as the *older* reader too.
The codec itself is taken to be the same in all versions.

## What the runs check

**`exchange_library`** — producers and readers of minors 0 to 3; two relays;
14 of the 24 artifact types, which between them have every kind of
hint and every class that minors 1 and 2 extended. Objects are sampled: all
fields set, or only the required ones, and everything that differs from these in
one place up to two classes deep (each member of an enum, empty and two-element
lists, falsy values, `None` for an optional, an unserialisable object). Three
parties of four versions give every order of versions that matters (new–old–new
included); the defects looked for are local to a field, so one place of
difference is enough. What the sample leaves out, the theorems cover: they hold
for every artifact type, every object and any number of relays. `CatalogueRules`
is evaluated for the whole catalogue.
- `MinorDriftAccepted`: nobody refuses what a library of this major produced.
- `UpgradeIsLossless`: relays at least as new as the producer rewrite nothing.
- `ReaderSeesProjection`: each reader decodes exactly what the oldest library
  on the way, and then its own, can express; order makes no difference.
- `FrozenNeverFree`: the promise of `LockKind` that a 1.0 reader never takes a
  frozen node for a free one, for all readers and relays.
- `WireValidates`: what is on the wire validates against the schema of every
  version that is not older than the oldest party so far.

**`exchange_foreign`** — payloads no library wrote, of eight types: the full
payload of the current version with one value replaced, removed or added, up to
two classes deep, including versions of other majors.
- `AcceptedIsWellTyped`, `ForwardedIsReadable`, `ForwardedIsStable`: what is
  accepted has the declared type all the way down; once relayed it is readable
  by everyone and no longer changes.
- `MajorGated`, `UnknownFieldsIgnored`: two of the compatibility rules.
- `WireValidates` for what was relayed; `ValidIsDecoded`: a payload that
  validates against a version's schema is decoded by that version.

**`schema_gen`** — all catalogues of three classes and an enum (every graph of
mentions: self-recursion, mutual recursion, sharing, unreachable classes), from
one root. Four names are enough for a cycle that does not pass through the root
and for a class shared by two others.
- `IInv`: the inductive invariant, checked before it was proved.
- `RefsResolve`, `PlaceholdersAreActive`, `SchemaSelfContained`,
  `SchemaMinimal`, `CompleteIsFinal`, `Terminates`.

The assumption `CatalogueIsCovered` of `MCSchemaGen`, which the run evaluates, says
that the real catalogue, built from `Contracts`, is one of those that the theorems
about `SchemaGen` are about: classes and enums have different names, each of the 30
types with a schema is a class, and whatever a hint mentions is there.

**`regenerate`** — two books of two source files (`def.json` and a scene), two
artifacts (one made from both files, one from `def.json` alone), two contents per
file, one combination that cannot be built, two versions of the code, two edits
at any moment, one kill. Two books are needed for a failure in the second after
the first was rewritten, two files and two edits for a mixture of sources, two
artifacts for a kill between them.
- `IInv`: the inductive invariant.
- `CompletedRunMirrors`: an undisturbed run that ends well leaves every golden as
  the present sources and code give it, whatever state it found.
- `GoldensOfBuildable`: whatever failed or was killed, a golden that is whole was
  built from sources that the builder accepts.
- `GreenIsExact`: green tests exclude torn and stale goldens, goldens of
  removed books, and mixtures of two sources.
- `Repaired`: after failures and kills nothing is needed but to run again.
- `KeepsFreshness`: refinement of `Freshness`.

**`schema_files`** — three names, two shapes and one that `json_schema` refuses,
three edits, one kill. `IInv`; `TornOnlyByKill`: a schema is rendered before its
file is opened, so a run that raises tears nothing; `Regenerated` and
`KeepsFreshness` as above.

**`fixture_build`** — a definition of two scenes that makes every kind of citation
and reference, eleven variants of it (a duplicate scene id, an unknown record
kind, targets that do not resolve, a missing key, operations with and without a
quote …) and a book of eleven scenes; each of two files has one of four texts
(two kinds of line end, a quote that overlaps itself, a quote that occurs twice
while another is missing). Two builds, and two edits or line-end conversions at
any moment; the sources are read in one step, so an edit matters only by which
builds it precedes, and two allow both definition and text to change between two
builds.
- `EvidenceResolves`: the spans and located operations of a build resolve in the
  manuscript of that build, by version, offsets and hash.
- `TargetsExist`: each reference names something of its kind in the artifact that
  holds that kind.
- `QuotesStandForOnePlace`: whatever else a quote matches in its scene overlaps
  the span that cites it.
- `KeysFollowScenes`: position keys keep the order of the scenes, up to 99 of them;
  ten scenes are the first at which unpadded keys would fail. From the hundredth
  on the keys have four digits and the order is lost, which no document excludes.
- `SceneVersionPinsText`: what two builds call the same version of a scene is the
  same text.
- `LineEndingsInvisible`: converted line ends change no artifact.
- `IInv`: the inductive invariant.

`CountedOnce`, the closed form of `text.count(quote) == 1`, is compared with a
left-to-right count over all texts of up to five characters and quotes of up to
three, in an assumption of `MCFixtureBuild` that the runs evaluate.

**`release`** — commits with two books and two artifacts, one of them possibly
missing, torn, or of an older library; one book removed or undeclared; complete,
empty and incomplete wheels; a checker that lists one book or both; the versions
0.9.0 and 0.10.0. Tests, build and check run in any order that the jobs allow, and
other commits follow, in CI and in a working tree.
- `GreenIsShipped`: if tests and check pass, consumers of the wheel find every
  artifact of every declared and listed book, and each is current.
- `VerdictIsAboutBuilt`: the check passes exactly if the wheel that was built
  carries the listed goldens. In a working tree both hold only while no other
  wheel comes later by name (`LastByName`).
- `IInv`: the inductive invariant.

Deadlock is not checked where the system may stop: an exchange ends when an
artifact is refused or has been relayed `MaxHops` times, a walk when its schema is
done, an author when the edits are used up and the builder when `MaxBuilds` is. It
is checked for `Release`.

### Disagreements between code and documentation

Five runs are expected to fail; each checks what a document, comment or test of
the repository says, with writers that the rules of `Compatibility` exclude or
with a property that asks for more than the code gives.

- `exchange_int_for_float`, `UpgradeIsLossless`: a record "round-trips
  byte-identically" (`runs.py:95`) — not if its producer put an int in a field
  declared float, since the decoder converts it. In `exchange_library` producers
  respect the declared type.
- `exchange_absent`, `AbsentMeansUnstated`: "Absent means 'not stated by the
  producer'" (`manuscript.py:95`) — an older relay drops what was stated, in the
  trace a `tombstone_reason`.
- `exchange_event_meta`, `UnknownFieldsIgnored`: "unknown fields are ignored on
  read" (README) — a field `meta` of an event, which declares none, decides which
  major version gates it: an event of version 2.0.0 is accepted. Only this run
  has such payloads; `exchange_foreign` leaves them out.
- `exchange_embedded`, `EveryMajorGated`: "Consumers reject unknown major schema
  versions" (README) — only the outermost envelope is looked at.
- `fixture_line_ends`, `TranslationInvalidates`: "Any line-ending translation
  invalidates every content_sha256 and makes the golden fixtures fail on checkout"
  (`.gitattributes:3`) — the builder normalises line ends before it hashes, and a
  rebuild after the conversion has the hashes it had. One definition, two builds
  and one conversion. `LineEndingsInvisible`, checked and proved, says how far this
  goes: no artifact changes.

Four more statements are not true of the model as they are written. No run is
kept for them; the properties above say what does hold.

- "a test asserts they never drift" (`_schema.py:4`, of the files of `schemas/`):
  the schema of a type that was removed stays, and tool and test look only at the
  types of today. `Generated` is about those.
- a quote "must occur exactly once in its scene" (`fixture_build.py:5`):
  `str.count` does not count overlapping occurrences, so "aa" is accepted in
  "aaa". `QuotesStandForOnePlace` is what the count does give.
- "version_id (when present) pins one exact immutable version" (`ids.py:4`): the
  book's version is the same for every text. `SceneVersionPinsText` is about
  scenes only.
- "Assert a built wheel actually carries the golden fixtures"
  (`check_wheel_fixtures.py:1`): with several wheels in `dist/` the last by name
  is opened, and `0.9.0` comes after `0.10.0`. Without `LastByName`,
  `VerdictIsAboutBuilt` fails in a working tree.

### Fairness

- `Terminates`: `WF_vars(Next)` in `SchemaGen`. `json_schema` is sequential code
  that waits for nothing, so as long as it can take a step it takes one.
- `Repaired` and `Regenerated`: weak fairness of the tool's own steps, for the
  same reason, and of starting the tool while its output is stale: the drift tests
  are red then and say which tool to run. Nothing is assumed of the author's
  edits, and a kill is never required; edits and kills are bounded, which is the
  assumption that the author stops at some point.

`Exchange`, `FixtureBuild` and `Release` state no fairness: a party may never
relay, nobody has to build.

## What is proved

All theorems hold for every value of the constants that satisfies the named
assumptions: any number of names, books, scenes, files, commits, edits and kills.

**`ExchangeProofs`**, from `ExchangeAssumption` and the three rules of
`Compatibility`: `WireCorrect` (`Spec => []WireInv`), and from it one theorem for
each property of the two exchange runs: `DriftAccepted`, `UpgradeLossless`,
`SeesProjection`, `WireIsValid`, `AcceptedTyped`, `ForwardedReadable`,
`ForwardedStable`, `MajorIsGated`, `UnknownIgnored`, `ValidDecoded`, `LocksSeen`.
They hold for any catalogue, any minor versions and any objects and payloads that
keep to the rules:
- `CatalogueRules`: hints are of the kinds that `from_jsonable` supports; each enum
  has `unknown`; defaults have the declared type, and an optional field is `None`
  when absent; a later minor version only adds, and the fields it adds are
  optional; every artifact states its version in one place.
- `ProducerRules`: what a producer can send is an object of the declared type,
  with its library's version, nested no deeper than Python's recursion goes.
- `WriterRules`: other writers send JSON, of the same depth, and not a second
  version where the type declares none. This last condition excludes the payloads
  of the finding `exchange_event_meta`, for which `UnknownFieldsIgnored` is false.
- `LocksSeen` has one hypothesis more, `LocksStated`: producers who set
  `lock_kind` set `locked` with it, as `manuscript.py` asks of them.

The properties speak of what readers make of the wire, and none is inductive: a
relay changes the wire, and that the next reader accepts it depends on how it
came about. `WireInv` says what is on the wire: of a library's artifact
`to_jsonable` of the *projection* of the producer's object to the oldest version
so far; of anything passed on, the wire form of a well-typed object with a
version of this major. TLC checked it on the instances of both runs before it was
proved. A relay preserves it because decoding what was encoded gives the
projection to the reader's version (an induction on how deep a value is nested),
and because a projection to `a` and then to `b` is one to the older of the two. The
validator is tied to the decoder likewise, value by value.

These inductions go through **`Nested`**. The code's functions call themselves, but
the model's `Fold` is one function on all values nested in `x`; `FoldEquation`
proves that this function exists for every finitely nested value and satisfies the
recursive equation, and `ReachEquation` the same of what is nested. Properties
of it are proved by `NatInduct` over a set of depths: the installed provers
cannot instantiate an induction theorem that takes a predicate, but they can
one that takes a set.

**`SchemaGenProofs`**, from `SchemaGenAssumption` (enums are names that mention
nothing, roots are classes, `Root` is not a name): `WalkInvariant` (`Spec =>
[]IInv`), and from it `TypeCorrect`, `RefsAlwaysResolve`,
`PlaceholdersBreakRecursion`, `SchemaIsSelfContained`, `SchemaIsMinimal`,
`CompleteEntriesAreFinal`.

None of these is inductive alone. That a finished schema is
self-contained rests on how far each unfinished call has got
(`PropsInProgress`: what it has written and what it has yet to visit make up
what its class mentions); this survives a return only because the class that
returns is the one its caller is visiting (`CallsNest`), and survives a second
visit to a class only because no class has two active calls
(`PlaceholdersAreActive`). `DoneIsUnwound` connects the end of the walk with the
empty stack. `RefsResolve` and `SchemaMinimal` are the remaining conjuncts.
`Refer` and `DefineEnum` share one lemma (`VisitPreserves`), `Enter` and
`Return` have one each; what `Visited` and `SubSeq` do to the stack is stated
in `VisitedFacts`.

**`RegenerateProofs`**, from `GoldensAssumption`, `SentinelAssumption` and
`BoundsAssumption`: `RegenerateInvariant`, `CompletedRunIsComplete`,
`NothingFromRejectedSources`, `GreenTreeIsExact`, and the refinement
`BuildFixturesKeepsFreshness`. That a completed run leaves the tree exact is not
inductive: it needs what an undisturbed run has read (`CleanRead`: a prefix of
the files of the present book, equal to the source), what it has written
(`CleanWritten`: the books it has done and a prefix of the present one), and that
what it writes from was accepted (`ToolState`). All three are under the condition
that no edit has happened since the run began; an edit makes them vacuous and the
run "dirty" for `Freshness`. `GreenIsExact` needs no more than the types: the
three tests together imply it.

**`SchemaFilesProofs`**, from `SchemaFilesAssumption`: `SchemaFilesInvariant`,
`TornFilesComeFromKills`, `GenerateSchemasKeepsFreshness`. The shape is the same;
`TornElsewhere` says in addition that the open file is the only one the present
run has torn.

**`FixtureBuildProofs`**: `BuildInvariant`, `CitationsResolve`, `ReferencesResolve`,
`QuotesArePlaced` and `SceneVersionsPinText`, from no assumption on definitions
or texts; `KeysAreOrdered` and `LineEndingsDoNotMatter`, from
`FixtureBuildAssumption` (a file holds a sequence of characters, a definition a
list of scenes, each with one of the files). The invariant says that each artifact built so far is the
one that the sources *read* give (not those on disk, which the author may have
changed) and that its method did not raise. The properties follow when the last
artifact completes the build: one lemma per kind of citation, on what `Quotable`
and `Resolves` guarantee about `Span` and `ResolvedRef`. `SceneVersionsPinText`
adds to the invariant that versions in completed builds are made of their texts.

`LineEndingsDoNotMatter` compares two builds, of which `IInv` says too little. Its
invariant, `DeterminedInv`, says that every completed build is the value of one
function, `Artifacts`, at the definition and texts it had read. (The artifacts are
state functions in `FixtureBuild`; `At(d, t)` instantiates the module with fixed
ones.) TLC checked it on the instance of the run. What remains is that both
builds read the same texts: `ReadText` undoes `ToCrlf` for every text
(`ConvertedReadsSame`), by induction on the length, over two recursive functions
that step through different sequences; `WrittenGrows` and `WrittenStep` say where
each character of one is found in the other. `KeysAreOrdered` counts the
nodes before a scene with a bijection (`ManuscriptKeys`), which the order of
three-digit keys gives (`KeysInOrder`).

**`ReleaseProofs`**, from `ReleaseAssumption` (versions are strings):
`ReleaseInvariant`, `GreenCommitsShip`, `VerdictsAreAboutBuilt`. The invariant says
that the wheel of this commit is in `dist/` once it is built, alone if this is CI,
and that both results are about this commit. That the wheel opened is the one
built rests on the order of strings being total (`LexTotal` in
**`LexOrderProofs`**): two wheels cannot both be the last.

Only model-checked:

- liveness (`Terminates`, `Repaired`, `Regenerated`), which is out of the prover's
  reach;
- `CountedOnce` against `str.count`, over bounded texts;
- what the two exchange runs sample beyond the theorems: that this catalogue and
  these writers keep to the rules the theorems assume.

Every invariant and every safety property that a run checks is also stated by a
theorem.

## What is not modelled, and the plan

Left out for good: the scheduler, queue, leases and policy engine, of which this
repository declares only the record shapes; the prose and annotations of the two
books, which are data checked by the repository's own tests; JSON text, key
order and indentation, which `json.dumps` fixes; two tools running in one tree at
the same time, against which nothing in the repository guards or claims to guard.

What the plan has left is proof: a refinement of an abstract "compute the closure,
then emit" specification by `SchemaGen`; that `CountedOnce` is `str.count(q) == 1`
for every text, by the induction that `LineEndingsDoNotMatter` uses; and a measure
that each step of `SchemaGen` decreases, which is the part of `Terminates` that
can be stated without liveness.
