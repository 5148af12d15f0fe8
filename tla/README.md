# mkrf in TLA+

mkrf is a Ruby library that configures C extensions: a script `mkrf_conf.rb`
asks which headers, libraries and functions a machine has, and the library
writes a Rakefile that builds the extension accordingly. This directory holds
TLA+ models of it, the TLC runs that check them, and TLAPS proofs.

The library is `src/lib/mkrf.rb` and `src/lib/mkrf/{availability,generator,rakehelper}.rb`.
Most of the C code of the repository is its larger example: a copy of
libxml-ruby under `src/examples/xml`, the extension that makes libxml2 usable
from Ruby. It is modelled here as well, since it is where memory is owned,
freed and called back into. What else there is - toy projects, the trivial
example with syck - is input of mkrf and not modelled.

"The program" below is a Ruby program that uses the XML extension, "the
client" one that uses mkrf's Availability.

## The system: mkrf

| Component | Code | State it keeps | Operations |
|---|---|---|---|
| Availability | `availability.rb` | `@headers`, `@loaded_libs`, `@library_paths`, `@includes`, `@defines`; `temp_source.c` and `temp_executable` in the working directory | `include_header`, `include_library`, `has_header?`, `has_library?`, `has_function?`, `can_link?`, `with_headers`, `with_loaded_libs`, `with_includes`, `find_executable` |
| Silenced streams | `availability.rb:321-346` | the process's STDOUT and STDERR | `silence_command_line`, `silence_stream` |
| Generator | `generator.rb` | its Availability, the attributes `cflags`, `objects`, `ldshared`, `additional_code`; the Rakefile on disk | the constructor (configuration block, then `write_rakefile`), `add_define`, `abort!`, `rakefile_contents`; the `include_` and `has_` methods delegate |
| Generated Rakefile | `generator.rb:171-219` | object files and the shared object on disk, by their times | `default`, the object rule, `install`, `clean`, `clobber` |
| Extension build | `rakehelper.rb:6-15,42-68` | the Rakefile, the shared object, its copy in `lib` | `setup_extension`, `mkrf_conf`, `rake` |
| Packaging and tests | rest of `rakehelper.rb`, `Rakefile` | none | declares tasks of other libraries |

They interact as follows. The developer runs the outer rake. Its extension task
runs `ruby mkrf_conf.rb` when the generated Rakefile is missing or older. That
process creates a Generator, whose constructor yields itself to the
configuration block; the block's calls go to the Availability, which writes
probe programs into the working directory and runs the compiler on them. Then
the constructor writes the Rakefile. The outer rake runs the inner rake on it,
which compiles and links, and finally copies the shared object to `lib`. What
passes between these processes passes through files and file times.

Nothing in mkrf runs concurrently within a process. What is hard is:

* **Scopes without memory.** A probe tries a header by pushing it on `@headers`
  (and a directory on `@includes`) for its own time. The push is undone by
  subtracting the arguments from whatever the list has become
  (`availability.rb:271`), and not at all if an exception passes.
* **Probes see everything.** Each probe links against every library and
  includes a header established before. One entry that has become useless
  makes every later answer false.
* **Answers that change state.** `has_header?` defines a macro,
  `include_library` keeps its search paths whatever it answers.
* **Crashes between steps.** The Rakefile is emptied, then written; the probe
  program is written, compiled, deleted; the copy in `lib` is emptied, then
  filled. Whether a later build heals an interruption depends on file times.
* **Stale products.** rake decides by times of declared prerequisites, which
  are not all the files a product depends on.

What makes each component correct:

* Availability: an answer is right about the machine; what has been established
  stays established and stays usable; a call changes nothing but what belongs
  to its answer; macros are defined for what was found, and only for that; no
  temporary file stays; every call ends.
* Extension build: a build that succeeds has installed what is written now, as
  configured now; one that fails had a reason; nothing but the extension's own
  sources gets into the library.

## The system: the XML extension

All its C code is in `src/examples/xml/ext/xml`, one file for each class.

| Component | Code | State it keeps | Operations |
|---|---|---|---|
| Trees | `ruby_xml_node.c`, `ruby_xml_document.c`, `ruby_xml_attr.c`, `ruby_xml_tree.c` | libxml2's structs and their links | `child=`, `<<`, `sibling=`, `root=`, `remove!`, `content=`, `[]=`, `base=`, `lang=`, `copy`; the walks `child`, `last`, `next`, `prev`, `parent`, `root`, `properties`; the questions `child?`, `text?` and so on |
| Objects and the collector | the same files and `ruby_xml_ns.c` | for each Ruby object the struct it points to, `is_ptr` (whether somebody else owns it) and `xd` (the document it was obtained through) | constructors, mark and free functions, the methods that make an object, hand a node over or free one |
| Queries | `ruby_xml_xpath.c`, `ruby_xml_node_set.c` | the result of a query, which the XML::XPath owns and the Node::Set points into | `find`, `find_first`, `first`, `each`, `to_a`, `xpath`, `set` |
| Parsers, contexts, settings | `ruby_xml_parser.c`, `ruby_xml_parser_context.c`, `ruby_xml_document.c` | the source and the context of a parser, `ruby_xml_parser_count`, libxml2's global defaults | `filename=`, `string=`, `parse`, `context`, `doc`, `replace_entities=`, `default_...=`, the free functions |
| Input callbacks, SAX | `ruby_xml_input_cbg.c`, `ruby_xml_sax_parser.c` | the list from `first_scheme`, a reading context for each open file; a SAX parser's source and handlers | `register`, `add_scheme`, `remove_scheme`, match, open, read, close; `on_...`, `parse` |
| Wrappers | `ruby_xml_dtd.c`, `ruby_xml_schema.c`, `ruby_xml_xinclude.c`, ... | none of their own | one call of libxml2 each |

They interact through the structs of libxml2 and through Ruby's collector: an
object that the program cannot reach any more is freed at any time, in any
order, and its free function frees what it owns, a whole tree included. A mark
function names the objects that must stay as long as this one. During a parse
libxml2 calls back into the program, which may do there whatever it may do
anywhere: parse again, change the schemes and handlers, raise an exception.

What is hard:

* **The collector's time and order.** Each method that hands out a node of a
  tree must name an object that keeps the tree. A wrong one shows only if the
  collector comes in between.
* **Ownership that moves.** A node is owned by its Ruby object until it is
  linked into a tree, and by its document from then on. Four methods link.
* **Results that point into results.** A set's nodes live in the query's result,
  and the program sees the set only.
* **One question asked in many places.** `last?` and `last`, of nodes,
  documents and attributes, each have a switch of their own over the kinds.
* **A count of users.** `xmlCleanupParser` must come after the last context and
  document, and six places count.
* **Callbacks in the middle.** Schemes change between match, open and read;
  parses nest; exceptions jump over libxml2.

What makes each component correct:

* Trees: links make trees after any sequence of calls; walks meet what is there;
  questions agree with the methods they are about; a node tells its document.
* Objects: a struct has at most one owner, which owns a whole tree; nothing is
  freed twice; whatever the program can reach leads to what is there.
* Queries: the same, with sets and results.
* Parsers: cleanup comes last, a document has one owner, a parser that can be
  used has its context.
* Callbacks: an answer is read from its beginning in order, by the parse that
  asked; schemes are a queue each; a handler that is set is not collected.

## The modules

| Module | Models |
|---|---|
| `Toolchain` | the machine: which headers, libraries and functions there are, and which probe programs compile and link (`CanLink`) |
| `Availability` | `Mkrf::Availability`: lists, calls, probes step by step, blocks, exceptions; the properties |
| `AvailabilityContract` | what a client may rely on: a call gains exactly what belongs to its answer, in one step, and nothing else is seen to change |
| `ExtensionBuild` | the outer rake, `mkrf_conf.rb` and the inner rake, over file times |
| `XmlTree` | the links of a tree and the methods that change, walk and ask |
| `XmlOwnership` | Ruby objects, who owns which struct, marks, the collector |
| `XmlXPath` | `XmlOwnership` with queries and their sets |
| `XmlParsing` | parsers, contexts, documents, the count |
| `XmlInputs` | input callbacks, SAX parsers, the stack of parses |
| `XmlSchemes` | what input callbacks promise: a queue of classes for each scheme |
| `MCAvailability`, `MCExtensionBuild`, `MCXmlTree`, `MCXmlXPath`, `MCXmlParsing`, `MCXmlInputs` | small machines, projects, trees and sets of objects for TLC |
| `Availability_proofs`, `AvailabilityScopes_proofs`, `AvailabilityAnswers_proofs`, `ExtensionBuild_proofs`, `XmlTree_proofs`, `XmlXPath_proofs`, `XmlInputs_proofs`, `XmlParsing_proofs` | theorems and proofs |

`Availability` composes with `Toolchain` and implements `AvailabilityContract`;
`XmlXPath` extends `XmlOwnership`; `XmlInputs` implements `XmlSchemes`. `XmlTree`
and `XmlOwnership` are two views of the same methods: the first has all links
and no objects, the second all objects and of a tree only what is above what.

### Availability

Variables `attr` (the three lists that `with_stackable_attribute` handles),
`libraryPaths` and `defines` are the object's attributes; `tempFiles` is the
working directory; `blocks` is the client's stack of open `with_` blocks.
`call`, `pc`, `at`, `linked` and `ret` are the Ruby stack: the call, where it
is, which of its probes is being tried, what `can_link?` returned, and the
answer, which stays visible until the client's next step.

| Action | Code |
|---|---|
| `CallHeader`, `CallLibrary`, `CallFunction` | a client enters `include_`/`has_` methods |
| `OpenBlock`, `CloseBlock`, `AbandonBlocks` | `with_stackable_attribute` around a client's block; left normally, or by an exception or `break` |
| `HeaderAlreadyLoaded`, `LibraryAlreadyLoaded` | the early returns |
| `TryHeader`, `TryLibrary`, `TryFunction` | push, first probe |
| `CreateSource`, `Link`, `RemoveTempFiles` | `can_link?`: write, compile, `ensure` |
| `TryNextPath`, `TryReference` | pop, and the next probe: the next search path, or `simple_reference` after `simple_call` |
| `HeaderFound`, `HeaderNotFound`, `FunctionAnswered`, `LibraryAnswered` | pop, and the answer with all it changes |
| `Raise` | an exception from writing the source or running the compiler, rescued by the client outside any of its blocks |

Lists are sequences without repetitions; the comment at the head of the module
says why repetitions cannot be told apart. The macro of a header is a constant
function `MacroOf`, of which nothing is assumed, so headers may share a macro.

The constants `Overlap`, `Faults` and `Debug` open behaviours that the findings
and divergences below are about; `Windows` is the platform on which a library is never
looked for (a TODO in the code). `Overlap = FALSE` describes a client that
does not hand over what a list already holds: no search path twice, no block
around what is already pushed, and `include_` calls only outside blocks.

### ExtensionBuild

A file time is a number, 0 for a missing file, and every write takes a new one,
so a time also names a text. Files are in `stamp` (sources, header,
`mkrf_conf.rb`), `rakefile`, `object`, `so` and `lib`; an object records the
texts it was compiled from. `job` and `pc` say what runs and where it is;
`listed` holds the prerequisites as the outer rake's FileList matched them when
it was loaded.

| Action | Code |
|---|---|
| `Edit`, `Remove` | the developer; an edit may break or repair a text |
| `Clean` | `rake clean` with the patterns of `setup_clean` |
| `StartBuild` | the extension's task: configure if the Rakefile is missing or older |
| `StartByHand` | `ruby mkrf_conf.rb`, or `rake`, in the extension's directory |
| `WriteProbe`, `RemoveProbe` | the configuration block's probes; `abort!` |
| `OpenRakefile`, `WriteRakefile` | `write_rakefile`: `"w+"`, then `puts` |
| `Prerequisites` | the outer rake looks up what it listed |
| `Compile`, `CompileFails`, `Link`, `LinkFails`, `NothingToDo`, `NoDefaultTask` | the generated Rakefile |
| `CopyBegins`, `CopyEnds` | `cp ext_so, "lib"` |
| `Kill` | all processes end where they are |

A link may fail at any time (`LinkFails`), since objects that compile one by one
need not fit together; the model does not say when, so such a build ends in an
outcome of its own, "unlinked", of which `FailsForAReason` does not speak.

`StartBuild` never finds the shared object up to date. In `setup_extension` the
library has a prerequisite `"lib"`, which is declared as a plain task; rake
gives a task without a file the present time. So the inner rake runs, and the
copy is made, in every build. This is what makes `BuiltFromSources` hold after
a copy that was killed or a library built by hand: one mutant takes it away.

### XmlTree

`tree` maps each cell, the C struct of a node, to its kind, name and links
(`up`, `first`, `last`, `next`, `prev`, `props`, `doc`). What libxml2 does to
links (`AddChild`, `AddSibling`, `ReplaceNode`, `SetProp`, `CopyNode` ...) is
external; the extension decides what is called on what, and for which kinds.

| Action | Code |
|---|---|
| `DocumentInitialize`, `NodeInitialize` | `Document.new`, `Node.new` with or without text |
| `ChildSet`, `SiblingSet`, `RootSet` | `child=`, `<<` with a node, `sibling=`, `root=` |
| `ContentAdd`, `ContentSet` | `<<` with a string, `content=` |
| `PropertySet`, `PropertyUnset`, `DocumentPropertySet`, `BaseSet`, `LangSet` | `node[name] =`, with nil, of a document's root; `base=`, `lang=` |
| `Remove`, `Copy` | `remove!`, `copy` |

`ChildGet`, `HasChild` and their like, and `DocumentChild`, `AttrChild` ..., are the
walks and questions, one operator for each method with its own list of kinds.
Those of an attribute are about a record, which may be that of an attribute in the
tree (`[name]=` returns it) or a copy (`CopyProp`), which keeps parent, document and
content and has no neighbours. `properties` returns such a copy of the first
attribute (`PropertiesGet`), and crashes without one (`PropertiesCrashes`).
The program modelled hands over only nodes that are in no tree, as libxml2 asks,
and uses none that was freed.

### XmlOwnership and XmlXPath

`status` says of a cell whether it is live; `above` is the set of cells above it.
`obj` maps each Ruby object to its class, the cell it points to, whether it owns
it (`~is_ptr`), the objects it names (`xd`, `xpath`) and what a query found.
`held` are the objects the program refers to; `twice` records a second free.
`Reached(held)` is the least set that holds `held` and what marks name.

| Action | Code |
|---|---|
| `DocumentInitialize`, `NodeInitialize` | the constructors |
| `DocumentWalk`, `NodeWalk` | `child`, `last`, `next`, `prev`, `parent`, `root`: another node of the tree; from an attribute held as a node, its text and the attributes after it |
| `NodeCopy`, `AttrCopy` | `copy`; an attribute that is copied (`attr_new2`) |
| `NodeDoc`, `Namespace`, `Properties` | `doc`, `namespace`, `properties` |
| `AttrChild`, `AttrParent`, `AttrNs` | of an attribute `child` and `last`, `parent`, `ns` |
| `AttrDoc`, `AttrSibling` | `attr.doc`; `attr.next` and `prev`: in `AttributeSpec` only (run `attribute_owners`) |
| `ChildSet`, `SiblingSet`, `RootSet` | linking, with `node_set_ptr` |
| `Remove`, `Empty`, `PropertySet` | `remove!`; `content=` or `[name]=nil`; `[name]=`, for a new attribute or the one there is |
| `Collect` | the collector frees any unreachable object, with its free function |
| `Drop` | the program lets an object go |
| `Find`, `SetFirst`, `SetToA`, `SetXPath`, `XPathSet` | `find`; `first` and `each`, which copy an attribute; `to_a`, which wraps it as a node; `set.xpath`; `xpath.set` |

A copied attribute is the top of its own tree and keeps a pointer to the parent of
the original. `nodes` of its object holds that parent, so that `HeldAlive` is about it
as well: the parent must be there as long as the program has the copy.

The extension leaves four rules to the program, which the head of `XmlOwnership`
states, and the properties hold for programs that keep them: it hands over the
object that owns the node; it empties a node only while holding nothing of what
goes; it keeps an owner of a tree while it holds something there that does not
name one; and it does not call `doc`, `next` and `prev` of an attribute, which
make a second owner (see "Findings"), nor change what it has of an attribute as
an XML::Node.

### XmlParsing

`parser`, `context` and `document` are the tables of Ruby objects, `live` the
documents that libxml2 has allocated, `stack` the parses that go on, innermost
last; `count` is `ruby_xml_parser_count`, and `early` records an
`xmlCleanupParser` before its time.

| Action | Code |
|---|---|
| `ParserNew`, `FilenameSet`, `StrSet` | `Parser.new`, `filename=`, `string=` (`io=` is alike): each makes a context, which may be NULL and stays with the parser even so |
| `ParserContextGet`, `ContextDocGet`, `NodeDoc` | `parser.context`, `context.doc`, `node.doc` |
| `ParseBegins`, `ParseSucceeds`, `ParseFails` | `parse`; in between the program may be called back |
| `DocumentInitialize` | `Document.new` |
| `Collect`, `Drop` | `ParserFree`, `ContextFree`, `DocumentFree`, each with its count; the program lets go |

### XmlInputs

`schemes` is the list from `first_scheme`, `sax` the SAX parsers with source and
handlers, `alive` the blocks that exist, `kept` those the program refers to. A
parse on `stack` is asking a class (`query`), reading, or in a handler; it has
its own answer, `bpos` and `remaining`, and what libxml2 `got` of it.

| Action | Code |
|---|---|
| `RegisterInputCallbacks`, `AddScheme`, `RemoveScheme` | `register`, `add_scheme`, `remove_scheme` |
| `SaxFilenameSet`, `SaxStrSet`, `SetHandler` | `filename=`, `string=`, `on_...` |
| `SaxParse`, `Answered`, `IcRead`, `IcClose` | `parse`: `ic_match` and `ic_open` ask the class; then reads, and close |
| `Happens`, `HandlerReturns`, `CallbackRaises` | an event, and how its handler ends |
| `BlockMade`, `BlockDropped`, `Collect` | the program's blocks, and the collector with `SaxMark` |

`ImplementsRegistry` maps the one list to `XmlSchemes`'s queue for each scheme
(the entries of that name, in order) and the stack to the classes asked.

## The runs

| Run | Question | Bounds | Result |
|---|---|---|---|
| `generator_clients` | Are answers, macros and lists right for every sequence of calls a configuration block can make? Does every call end? | 3 headers (default path, elsewhere, nowhere), 3 libraries (same), 4 functions, up to 2 search paths | `TypeOK`, `StillUsable`, `FunctionAnswer`, `HeaderAnswer`, `LibraryAnswer`, `MacrosTrue`, `MacrosComplete`, `EveryCallEnds` hold |
| `block_clients` | Do nested blocks keep the contract? | 2 headers, 2 libraries, 2 functions, blocks two deep | `Scoped`, `Grounded`, `NothingLost`, `ImplementsContract` hold |
| `faults` | What is left of it when calls raise? | the same machine, blocks one deep | `NoStrayTempFiles`, `FunctionYes`, `NothingLost` hold |
| `builds` | Does success mean the present sources, and failure a reason? Does every run end? | 2 C files, edits up to time 7 | `TypeOK`, `BuiltFromSources`, `FailsForAReason`, `RunsEnd` hold |
| `killed_builds` | And with kills between any two steps? | the same, up to time 8; outer rake only | `BuiltFromSources`, `ConfiguredAsWritten`, `NoProbeLinked`, `Consistent`, `ProbeContained` hold |
| `trees` | Do links stay trees, and do walks, questions and `doc` agree with them? | 2 documents, 4 nodes | `TypeOK`, `WellLinked`, `AnswersAgree`, `WalksAgree`, `DocumentTold` hold (68,360 states) |
| `objects` | Is everything freed once, and nothing that can be reached, whenever the collector comes? | 1 document, 3 elements, 1 attribute; objects: the document's, three nodes, one more of any class | `OneOwner`, `FreedOnce`, `HeldAlive` hold (145,073) |
| `queries` | And with queries, sets and what comes out of them? | 1 document, 2 elements, 2 attributes; a node, a query, a set, one more | `OneOwner`, `HeldAlive` hold (215,771) |
| `inputs` | Are answers read in order, handlers kept, schemes queues, with callbacks that change all this? | 2 schemes, 2 classes, parses in parses | `ServedInOrder`, `HandlersAlive`, `ImplementsRegistry` hold (99,372) |
| `parses` | Does cleanup come last; has each document one owner; does a parser keep its context? | 2 parsers, contexts and documents, 3 objects for documents | `CleanedUpLast`, `DocumentsOwned`, `ContextsKept` hold (485,506) |

**mkrf.** The calls and the lists are finite without bounds: a client may call for ever.
`MaxBlocks` bounds the nesting of blocks; two of them suffice for a block whose
item another block or a probe also pushes. `MaxClock` bounds the times at which
the developer edits or cleans, or has a configuration run. A first build of two
files ends at time 6, so that after it there is time for an edit and a rebuild
(`builds`) or for two (`killed_builds`); before it there is time to break a file,
fail, repair it and build. Removals, failures and copies take no time, and the
build in progress is never cut off by the bound. These runs let the developer
stop, so they do not check deadlock. C files are interchangeable and texts and
products are compared by equality only, so `killed_builds` uses symmetry;
`builds`, which checks a liveness property, does not.

**Trees.** Two documents are needed for a node to move from one to the other;
with four nodes there are a root, its neighbour, and an attribute with its text,
or a copy of an element with its child. A parsed document holds, beside its
root, one node of a kind that the methods treat in a way of its own: a text, a
comment, an XInclude mark. Cells are interchangeable.

**Objects and queries.** Three elements make a chain, a sibling and an old root
that `root=` replaces; three node objects point to all of them; the fifth object
is a copy, an attribute, a namespace or a second document. `MaxGarbage` bounds
how many owners may wait for the collector: with two, it has an order to choose.
In `queries` two attributes let one be copied beside the other, and `MaxFound`
lets a set hold two nodes; `properties` and `attr.ns` happen in this run, not in
`objects`. Neither bound is used by the proofs.
`attribute_owners` has two elements, two attributes, a node, two objects for
attributes and two for documents, so that `attr.doc`, `next` and `prev` can each
make a second owner.

**Parses.** Two parsers and contexts let a parse go on inside another's, and a
context be freed after its document and before it; with three objects for two
documents one of them has several. `MaxCount` bounds how far the count, which is
sometimes never counted off, may run ahead: all users at once come to seven, or
there are fewer of them and a count that runs ahead. `MaxDepth` bounds nested parses.

**Inputs.** Answers of two characters and reads of up to two cover a length that
is smaller than, equal to and larger than what is left; one event is marked by
the SAX parser, one is not; two schemes and two classes make order matter, and
one scheme has no file, so that what is done to it must not show in the other.

`trees`, `objects` and `queries` do not check deadlock: with all cells or slots
taken there may be nothing left to do. The properties of these runs are state
properties, so symmetry is sound where it is used; `inputs`, which checks a
refinement, uses none.

### Findings

Each of these runs checks one statement of the documentation that the code does
not keep; TLC shows how.

| Run | Statement | What happens |
|---|---|---|
| `lost_directory` | asking for a header does not unload another | a search path passed a second time is taken off `@includes` altogether by `Array#-`; a header that needs it, and with it every later probe, fails |
| `attribute_owners` | an object owns its data or points to someplace else (`ruby_xml_document.h:14`); the double free of attributes is fixed (`CHANGELOG:33`) | `attr.doc` makes an object that owns the document which another one owns (`ruby_xml_attr.c:70`), `attr.next` and `attr.prev` one that owns an attribute of the tree (`:190`, `:306`); the collector frees it twice. TLC shows one of them, and the other when the first is left out |

### Other divergences

Met while modelling, described here and not checked by a run. In mkrf:

* After an exception in a probe its header stays on the list; the next question
  about it is answered yes without a probe (`availability.rb:269`).
* With `$debug` set, `yield and return` turns the success of `can_link?` into nil.
* The `#include` lines of a probe are joined by a backslash and an `n`, so that
  only the first is obeyed; `CanLink` models this.
* `has_library?` takes search paths and never reads them.
* A configuration cut short between emptying and writing the Rakefile leaves an
  empty one that counts as up to date; later builds then fail for no reason of
  the developer's. `ConfiguredAsWritten` and `Consistent` hold, as those builds do fail.
* Objects depend on their C file alone: a changed header or changed flags leave
  them as they are. `BuiltFromSources` therefore speaks of C files.

In the XML extension:

* `child=` and `<<` may merge a text node into its neighbour and free it, though the
  object that was handed over still points to it; `content=` and `[name]=nil`
  free nodes that objects may point to.
* A node that is linked (`child=`, `sibling=`, `root=`) goes on naming no document,
  so that it alone does not keep the tree it has moved to.
* `prev` and `prev?` of a node follow `next`. Of an attribute that is held as a node
  `last` and `parent` fall through to nil (`ruby_xml_node.c:840`, `:1424`), other than
  those of XML::Attr. The models translate this, and `AnswersAgree` states where
  question and answer, and node and attribute, agree even so.
* `properties` returns a copy of the first attribute, whose `next` is nil, so it never
  leads to a second one; of an element without attributes it dereferences NULL
  (`ruby_xml_node.c:1701`, `ruby_xml_attr.c:169`).
* `attr.next` and `attr.prev`, like `attr.doc`, make an owner: see "Findings". The
  fourth rule of `XmlOwnership` keeps them out of what is proved.
* The free function of a copied attribute lets libxml2 read the parent
  (`ruby_xml_attr.c:13`, `xmlUnlinkNode`), which the same collection may have freed
  just before. The models have what free functions free, not what they read.
* A namespace is stored in the node that declares it, and nodes that use it keep a
  pointer to it when they move to another tree. The models do not follow it.
* `to_a` wraps an attribute as an XML::Node, whose methods then work on the
  attribute of the tree; `first` and `each` copy it.
* `default_load_external_dtd` and its assignment are bound to each other's
  function (`ruby_xml_parser.c:1363-1366`).
* `string=` with an empty string, or `io=` with nothing to read, may leave a NULL
  context, which nobody looks at before it is parsed (`ruby_xml_parser.c:1217`).
* A failed parse frees the document and leaves the context pointing to it
  (`ruby_xml_parser.c:1124`), so that `context.doc` then wraps freed memory. After a
  success it makes an object that neither owns the document nor keeps its owner
  (`ruby_xml_document.c:583`). A second `parse` of a source makes a second owner.
* `context.node`, asked in the middle of a parse, makes an object that owns the
  document which is being parsed (`ruby_xml_parser_context.c:334`).
* A SAX parser marks neither its strings nor the handler of `externalSubset`.
* An exception out of a callback jumps over libxml2 and leaks what it had opened.
* `remove_scheme` compares a prefix, and with case, where `ic_match` compares
  without.
* `space_preserve=` sets the opposite of what it is told.
* The count is raised by `node.doc` and never lowered for it: cleanup may come
  never, but `CleanedUpLast` shows that it does not come early.

### Fairness

`Availability` assumes weak fairness of `Step`, the steps of a call: the
interpreter is sequential and does nothing else while a call is open, and the
compiler is taken to exit. Nothing is assumed of the client. `ExtensionBuild`
assumes the same of the steps of a run, for the same reason; nothing is assumed
of the developer, and a `Kill` only ends a run. The modules of the XML extension
state safety only: neither the program nor the collector owes anybody a step,
and each method is one step, or two around a callback.

## What is proved

The proofs hold for every set of headers, libraries, functions, directories and
C files, every machine and every bound; those about the XML extension for every
number of structs, objects, schemes, parses and every bound, and trees of every
finite size. In mkrf:

* `Availability_proofs!TypeCorrect`: `TypeOK`, whose core is that no list ever
  holds an element twice, which is what makes the subtraction undo the push.
* `AvailabilityScopes_proofs!NoFileOutlivesItsProbe`: `NoStrayTempFiles`, with
  any exceptions.
* `AvailabilityScopes_proofs!ScopesAreKept`, `NothingIsLost`: `Scoped` and
  `NothingLost`, for clients without overlaps, with any nesting and any
  exceptions. `Scoped` is the inductive invariant: what blocks and the running
  probe have pushed is on the lists for one reason only, so that popping it takes
  nothing else along.
* `AvailabilityScopes_proofs!NothingBorrowed`, `ListsStayUsable`: `Grounded` and
  `StillUsable`, for such clients, without exceptions and not on Windows, and with
  options whose own entries are usable. `StillUsable` is not inductive: whether a header is found may
  depend on a directory that is only pushed. `Grounded` strengthens it: what
  calls have established is found in what calls have established, and a probe
  that linked would link again.
* `AvailabilityAnswers_proofs!FunctionsAreThere`, `FunctionAnswersAreRight`,
  `HeaderAnswersAreRight`, `LibraryAnswersAreRight`: `FunctionYes`, `FunctionAnswer`,
  `HeaderAnswer` and `LibraryAnswer`, for every machine and every client, overlaps
  and exceptions included. The inductive invariant `Course` follows one request:
  the verdict of the compiler is about lists that nobody changes until it is used
  (`Believed`), what is probed for is on them (`Pushed`), and when a second probe
  runs, the first has failed on the same lists (`Refused`, `Vain`). The hypotheses
  are what the code needs (see "Other divergences"): `~Debug`, since with `$debug`
  no success is reported (`FunctionYes` does without); `Inline = {}`, no function
  that exists in headers alone, since the compiler obeys only the first of the
  joined `#include` lines; for libraries also `~Windows`, where none is probed, and
  no search paths passed along, since `has_library?` never reads them.
* `AvailabilityAnswers_proofs!MacrosAreTrue`, `MacrosAreComplete`: `MacrosTrue` and
  `MacrosComplete`, for clients without overlaps and without exceptions:
  `HeadersReal` says that every header that calls have put on the list is there.
* `AvailabilityAnswers_proofs!FulfilsContract`: the safety part of
  `ImplementsContract`, for such clients and under the hypotheses of the answers.
  The states map by what no block and no probe has pushed (`Settled`), so all
  steps of a request stutter (`ProbeSteady`) but the first and the last; the last
  is `Confirm` or `Deny`, by the answers' lemmas and `Scoped`.
* `ExtensionBuild_proofs!TypeCorrect`, `TimesTellTheTruth`: `TypeOK` and
  `Consistent`, the inductive invariant of the build: a product no older than
  what it is made from has its contents. It is needed since a build decides by
  times and promises contents.
* `ExtensionBuild_proofs!BuildsWhatIsWritten`, `BuildsAsConfigured`:
  `BuiltFromSources` and `ConfiguredAsWritten`, from `Consistent`, with runs by
  hand and kills.
* `ExtensionBuild_proofs!ProbesAreContained`, `ProbesStayOut`: `ProbeContained` and
  `NoProbeLinked`, where nothing is run by hand (by hand, a probe program that a kill
  has left is compiled at once): a probe program that was left behind lies
  beside a Rakefile that is out of date, so the next build configures again and
  removes it.
* `ExtensionBuild_proofs!FailuresHaveReasons`: `FailsForAReason`, without kills (after
  one, a file that is listed may be missing); a link may fail besides. The invariant `Undisturbed`: a
  probe exists only while it is compiled, the Rakefile is empty only while it is
  written, and what is listed is there as long as the build runs.

In the XML extension:

* `XmlTree_proofs!TypesCorrect`, `LinksStayWell`, `AnswersAlwaysAgree`,
  `WalksAlwaysAgree`, `DocumentAlwaysTold`: `TypeOK`, `WellLinked`, `AnswersAgree`,
  `WalksAgree` and `DocumentTold`, all five properties of `XmlTree`. They follow from
  one inductive invariant, `Well(tree)` (`TreesStayWell`). `WellLinked` is not inductive
  by itself: `Well` adds that attributes hang on elements and apart from content (so that
  `props` and `first` never share a chain), that a document is above and beside nothing,
  that a free cell is blank, that only elements, documents and attributes have
  something below them, and that a child names its parent's document. Since the methods
  only compose libxml2's functions, the lemmas are about those functions on any
  tree `t`, not about `tree`: for each of them one that says what every field is
  afterwards (`UnlinkIs`, `LinkAfterIs`, `ReplaceNodeIs`, `SetTreeDocIs`, ...) and one
  that `Well` survives it (`UnlinkKeeps`, ...); `AddChildKeeps`, `SetContentKeeps`,
  `SetPropKeeps`, `SetRootElementKeeps` and `CopyNodeKeeps` compose these. The order
  of the composition matters: when `child=` links an attribute, the old one of that name is
  out and freed (`Displaced`). The recursive
  functions of the model, `Upwards` and the walks, are dealt with once: along links that
  end, such a function is the one that collects the least set closed under the link (`Collects`),
  and sets are enough for the rest. That chains end backwards, too, needs
  that there are finitely many cells (`PrevLinkEnds`).
* `XmlXPath_proofs!OwnedOnce`, `NeverFreedTwice`, `ReachedIsAlive`: `OneOwner`,
  `FreedOnce` and `HeldAlive` of `QuerySpec`, and as corollaries of `Spec`: of programs
  that keep the four rules, `attr.doc`, `next` and `prev` not called. None of them is inductive. The invariant `IInv` adds that `above` makes a forest
  (what is above a cell is one branch) of live cells, that objects point to cells of the kind of their
  class, and how the objects in it lead to owners. The argument has two halves.
  *Freed once*: in a forest each cell has one top; an owner owns a top, so two
  owners own disjoint trees, and what a free function frees is nobody else's.
  This must survive every linking method (`PlacedForest`, `Moves`).
  *Reached is alive*: `Kept` says that for each object the program can reach,
  whoever owns what it leads to, the parent of a copied attribute
  included, can be reached, too. So what the collector
  takes owns nothing that is reached (`CollectKeeps`), and what the program drops
  is covered by the rules at the module's head (`DropKeeps`). Reachability is a
  least fixed point; `ReachedLeast` and `ReachedClosed` are all the proof needs of it.
* `XmlInputs_proofs!AnswersServedInOrder`, `HandlersStayAlive`, `TypesCorrect`: for
  every parse on the stack what was read and what remains make up its answer; no
  step touches any parse but the top; a handler is set to a block that the marks
  or the program keep.
* `XmlInputs_proofs!ImplementsSchemes`: `ImplementsRegistry`, the whole of it, since
  `XmlSchemes` promises no progress. The queue of a scheme is read off the list by
  the one enumeration of its places in increasing order. `Enumerable`, that there is
  one, is kept by `add_scheme` (the new place comes last) and by `remove_scheme`
  (the first place goes, those behind the gap move down by one), and `OneOrder`
  says that there is no other: where two enumerations first differ, the lesser
  value is missing from one of them. `ic_open` asks the head since the place of the
  first scheme that matches is the least one (`AnsweringIs`).
* `XmlParsing_proofs!CleanupIsLast`, `TypesCorrect`: the count is at
  least the number of users, which are three disjoint finite sets; each action
  changes each of them by one element at most, and the count with it.
* `XmlParsing_proofs!ContextsAreKept`, `DocumentsAreOwned`: `ContextsKept` and
  `DocumentsOwned`. The second needs three things that
  it does not say: parses that go on have contexts of their own, which no other parser
  leads to (`ParsesApart`); no two owners have the same document (`OneEach`); and
  what owns a document stays with the objects that lead to it (`OwnerHeld`).

The assumptions are those of the modules (`ToolchainAssumption`,
`ClientAssumption`, `OptionsAssumption`, `BuildAssumption`,
`OwnershipAssumption`, `FoundAssumption`, `InputsAssumption`,
`ParsingAssumption`, `TreeAssumption`, `LeafAssumption`, `NilAssumption`), which TLC evaluates in
the runs of those modules, and those the theorems state.

Every invariant of the runs that are to pass is stated by a theorem. Only
model-checked are the liveness properties (`EveryCallEnds`, `RunsEnd`, and the
fairness of `ImplementsContract`), since liveness under fairness and ENABLED are
beyond the prover. No module uses a RECURSIVE operator.

## What is not modelled

* The text of command lines, Rakefiles and log messages.
* Compiler, linker and rake themselves: external, as far as the code relies on
  them. A failing compiler leaves the old object or none, a failing linker the old
  shared object or none; when a link fails is not modelled.
* Edits while a build runs: a file edited while it is compiled is older than its
  object and stays uncompiled. Nothing in mkrf addresses this.
* Configurations without any probe: after a kill inside a probe, such a
  configuration does not remove `temp_source.c`, which the pattern `*.c` then
  matches. The same happens when rake is run by hand. `NoProbeLinked` is stated
  for the outer rake and configurations that probe.
* Two writes with the same file time.
* In the XML extension: names, namespaces, contents and encodings as strings;
  output and validation; the getters of a context that only read a field; defaults
  and settings of parsers, which one call stores and another returns; IO
  objects as sources beyond what `string=` does; memory that is leaked. XPath
  evaluation, parsing and the functions on links are libxml2's and external.
* DTD, Schema, XInclude, XPointer and XML::Attribute: wrappers around one call of
  libxml2 or classes without a method in use.
* Programs that break the rules at the heads of the XML modules; where the
  extension's documentation promises more, "Other divergences" says so.
* The trivial example with its copy of syck.
* `setup_tests`, `setup_rdoc`, `setup_gem`, `sub_project` and rcov tasks: they
  declare tasks of other libraries.

## Plan

Done: `Toolchain`, `Availability`, `AvailabilityContract`, `ExtensionBuild`, the
six modules of the XML extension, and the proofs listed above. Next, in this
order:

1. `Generator`: the constructor composed with `Availability`, the configuration
   block as its client; choice of compiler and rule by source pattern; sources
   outside the directory; `add_define` and the macros in the Rakefile against
   what the probes saw. Abstract specification: the Rakefile holds the settled
   lists of the session, or there is none.
2. `SharedDirectory`: two configurations in one directory, whose probes share
   `temp_source.c` and `temp_executable`; what an answer is worth then.
3. `SilencedStreams`: `dup`, `reopen`, the `ensure` clauses of two nested
   streams, and descriptors.
4. `MacroName` and `FindExecutable`: pure operators against reference
   definitions; which headers share a macro.
5. Proofs: the theorems about what the modules above will state.
