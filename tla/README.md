# irpc in TLA+

A verification development of `rpc_coap`: the `irpc` command, which shows and
changes addresses, links and routes over netlink, and the beginnings of an RPC
layer over CoAP. TLC checks small instances; TLAPS proves the safety properties
for every value of the constants. Paths are those of the repository, with `src/`
for its root: `src/src/network.cpp` is `src/network.cpp` there.

## The system

| Component | Code | State | Operations | Modules |
|---|---|---|---|---|
| Command line | `src/src/main.cpp`, `src/include/constants.hpp` | `selected`, the option values | correct and parse the words, execute their actions, call a method or print help or usage | `IrpcGrammar`, `Cli`, `CommandLine` |
| clipp | `src/include/clipp.h` | the grammar; the parser's cursor, its scopes, mappings and missing parameters; the printer's text | build a grammar, read a word, print the usage | `Traverser`, `Walk`, `Grammar`, `Clipp`, `GrammarParser`, `Parsing`, `UsageText` |
| Dump commands | `src/src/network.cpp` 20-86, 306-322 | a socket, a receive buffer, `ret`; the kernel's dump cursor; the state of `std::cout` | `ipshow`, `iplink`, `showiproute` | `Show` |
| Configuring commands | `src/src/network.cpp` 91-164, `src/src/iproute.cpp` 230-426 | a request, a socket, one answer; links and routes in the kernel | `setlink`, `addiproute`, `removeiproute` | `Configure` |
| Attribute callbacks and display | `src/src/network.cpp` 167-300, `src/src/iproute.cpp` 20-226 | the table `tb`, the nested table `tbx` | parse, validate, store, display | `AttrParse` |
| CoAP client | `src/src/coapClient.cpp` | a context, the socket | send a request, wait, read one datagram, print | `Coap`, `CoapExchange` |
| CoAP server | `src/src/coapServer.cpp` | a context with its resources | select loop, `hello_handler` | `Coap`, `CoapExchange` |
| RPC stubs | `src/include/clientRPC.hpp`, `serverRPC.hpp`, `src/request.json` | none | declarations only | none |

How they interact. `main()` builds a grammar with clipp's operators, has clipp
parse the command line against it, which sets local strings, and calls one method of
`Network` or `IProute`, or prints the usage clipp derives from the same grammar;
nothing is shared between two runs of `irpc` but the kernel. A method talks to the kernel over a netlink socket
with libmnl: it sends one request, blocks in `recvfrom`, and gives each datagram
to `mnl_cb_run()`, which checks it and calls back once per message (the dumps)
or only interprets an acknowledgement (the others). The message callbacks call
`mnl_attr_parse()`, which calls an attribute callback once per attribute. The
CoAP client and server exchange UDP datagrams through libcoap and interact with nothing
else; the makefile builds neither.

What is hard. The parser's cursor is moved by matches, blocking parameters,
scopes that are entered and left, alternatives that are ruled out and repeat
cycles, and what is missing, conflicting or repeated is noted word by word. The kernel's tables change under a running dump, which arrives in
pieces. Errors are reported in places that are easy to ignore: a flag on the
last datagram, the result of a parse that nobody looks at, an index with no name
any more. Every command blocks without a timeout, so it depends on the kernel
owing it an answer at that moment. A change and the report of it are two steps,
and the report may be lost. The CoAP client waits without a timeout too, for one
datagram that a network may lose or overtake. `PROJECT.json` lists each hazard at its line.

What makes each part correct:

- command line: every line leads to the call its words ask for, with their values, or
  to the usage and no call; nothing typed is lost; what the usage shows is accepted;
- clipp: a line accepted is complete and unambiguous for its grammar, whatever
  the order of its words; the cursor stays in the grammar, leads on and passes nothing by
  where it undoes nothing, and a search that undoes scopes ends all the same;
- dumps: exit 0 means a complete display, a snapshot where the kernel can tell;
  an interrupted or failed dump ends in exit 1; no wait for a datagram that never comes;
- configuration: the report agrees with the effect, the effect is the one asked
  for and nothing else, no wait for an answer that never comes;
- display: it shows the reference reading of a message, and stays within what was validated of it;
- CoAP: what a client shows is what the server says to its own request, shown once;
  it waits in vain only when a datagram was lost.

## The modules

### Show

One process per run of a dump command; `Network::socket` is its control:

| Action | Code in `src/src/network.cpp` |
|---|---|
| `Open`, `OpenFails` | 39-51, socket and bind, either of which exits on failure |
| `Send`, `SendRefused`, `SendFails` | 55-58; the kernel starts the dump, or refuses it with one error message, within the call |
| `Recv`, `RecvFails` | 61, 77 |
| `Callback` | 63-74, one message handed to the callback |
| `Return` | 74-85, the result of `mnl_cb_run()`, the loop test, the exit |

`cmd` holds the callback identifier and the `--family` text, in which `other` is
every word but `ipv4` and `ipv6` (line 34-37 leave the family unspecified).
`buf` is what `mnl_cb_run()` has left to walk, `shown` counts how often each row
was displayed, `lost` are the rows whose text `std::cout` dropped after line 227
gave it a null pointer.

Outside `src/`, and marked external: the kernel's tables (`table`, `ifaces`),
its dump state per socket (`active`, `visited`, `dirty`) and the datagram that
waits (`rx`); `Fill` puts any part of what the cursor has not passed into the next
datagram, in any order, because the code relies on no order. As
`netlink_dump()` does, the next datagram is filled when one is read, so at most
one waits. Address and link dumps carry `NLM_F_DUMP_INTR` on
datagrams filled after a change (`GenerationChecked`); `mnl_cb_run()` returns -1
for one. Other programs add and delete rows and interfaces between any two
steps. `kept` and `seen` are history: the rows present throughout the dump and
at some time of it.

The kernel ends every dump it has begun, but it may end one half way, with an
`NLMSG_DONE` that carries an error (`last = "failed"`). libmnl does not look at
what an `NLMSG_DONE` carries and the code has no handler of its own for it. The
properties of exit 0 therefore except a dump that failed (`ToldOfFailure`), and
`show_failed` shows what comes of one.

`Listing` is the promise, with no socket, datagram or cursor: a command reads the table over a
stretch of time in which others may change it, lists what it read, and reports. Success leaves out no row that
was there all the time, unless the reading was cut short; a row is listed once, and only if it was there,
also by a command that fails. `Show!Implements` is the refinement. How far a command came (`Phase`) is told
by the datagram the kernel filled last for it: asked, reading, read, cut short, refused, success, failure.

### Configure

One process per run of a configuring command; the three functions have the same
control, so they share the actions and differ in the request they build:

| Action | setlink (`network.cpp`) | addiproute (`iproute.cpp`) | removeiproute (`iproute.cpp`) |
|---|---|---|---|
| `Prepare`, `PrepareFails` | 94-122 | 255-306 | 349-392 |
| `Open` | 123-133 | 308-318 | 394-404 |
| `Send`, `SendFails` | 137-140 | 320-323 | 406-409 |
| `Recv`, `RecvFails` | 144-161 | 325-337 | 411-423 |

Conversions are modelled by what they do: `if_nametoindex()` looks in the
kernel's names at that moment, `inet_pton()` accepts the addresses of a family,
`sscanf("%u")` refuses words, but reports EOF for blanks and leaves the variable
unset, and the prefix is cut to eight bits in `rtm_dst_len`. The uninitialised
variables of `removeIpRoute` (and the unset prefix) take any value of
`PrefixGarbage`, `AddrGarbage` and `IfaceGarbage`.

The kernel (external) merges link flags under `ifi_change`, drops the routes of
an interface that goes down, refuses equal routes, prefixes that are too long and
IPv4 destinations with host bits, clears the host bits of IPv6 ones, matches
deletions on what the request names, and acknowledges what it carries out if
asked to. It may decline any request, and any answer may be lost (`ENOBUFS`).
`applied` and `moved` are history: whether and on which route the kernel acted
for the process; `named[p]` are the interfaces that bore the name since it
started.

`AtomicChange` is the promise, with no socket, request or answer: a command makes the change its
words ask for, in one moment and complete, or none, and reports success only if it made one, failure
unless it made one whose report got through. What of the command line counts is spelled out there:
`RoutesMeant` says which routes an `addiproute` may mean, `RemoveRoute` that its words do not count for
`removeiproute`. `Configure!Implements` is the refinement. A process's phase is what `applied`, the
answer in `rx` and its exit tell (`Phase`): asked, made, made with the report lost, success, failure.

### AttrParse

One message of a dump, from the callback's entry to its return. `ParseAttr`,
`ParseRefused` and `ParseEnds` are `mnl_attr_parse()` walking the attributes
through the callback in force; `Display` shows what the table holds, and for a
route with metrics starts the nested parse with the metrics' callback. An
attribute is its type, its length, how far a C string from its start would go (`cstr`) and what is
nested in it: what validation and display tell apart. `Show` and `AttrParse` are two views of the same callback:
for `Show`, displaying a row is one step, as nothing else can interfere with it
inside the process.

The specification of the display is a definition, not a machine: `Reference`
picks, from the attributes before the first refused one, the last of each
displayed type.

`ReadLen` is how much the display reads: 4 or 16 bytes of an address by the message's family, whatever
the payload's length, a name up to its NUL, numbers and structs at their size, a MAC address by its
payload. The callbacks validate an address as `MNL_TYPE_BINARY`, which asks no length, and a name as
`MNL_TYPE_STRING`, which asks no NUL (`network.cpp` 176, 208); that these two reads stay within their
payload rests on what the kernel sends. `ValidatedReadsFit` leaves them out by name (`LeftToTheKernel`),
and the messages of the run have both an address of the other family's size and a name without an end.

### clipp: Traverser, Grammar, Clipp, GrammarParser, Parsing, UsageText

A word, and a flag, is a sequence of atoms, so that a word may begin with a
flag (`-sup`), hold several (`-ab`) or end in digits; an atom is as much text as no flag
cuts through. A grammar is a tree of groups and parameters, a node of it a path.

- `Grammar` is the data of `parameter` and `group`, the attributes a group derives from its
  children (blocking, required), and the operators `,`, `|` and `&`
  with their rules of merging an operand into a group that is there already.
  `GrammarOf` tabulates what the parser asks of a grammar.
- `Traverser` is `group::depth_first_traverser`, a stack of contexts, each move an operator.
  `Walk` lets any of its moves follow any other: `++` and the skipping moves (`Forward`), the traversers
  derived from a position (`Rise`, `RuleOutAlternatives`, `RuleOutSiblings`), and `undo_point()` and `undo()`
  (`Remember`, `Restore`), which put back any place remembered so far from wherever the cursor has gone, as the
  scopes of the parser do. The scopes' own discipline, when one is pushed and popped, is `Clipp`'s.
- `Clipp` is `scoped_dfs_traverser` (`Scoped`, `Step`, `NextAfterMatch`, the mementos of
  scopes) and class `parser`: the attempts to match a word in the order of
  `try_match()`, joined flags read by a temporary parser, `add_match()` with
  conflicts, repeats and missing parameters, and the second attempt with blocking
  switched off whose matches are reported as blocked. `Read(parser, word)` is `operator()`. What it knows of
  the grammar are constants. Its loops are bounded recursive functions: `While` takes no more turns
  than there are nodes for each scope the traverser can still leave. `SearchesEnd` is that none of the
  searches is cut short by this; joining stops by itself, at the end of the word or of the siblings.
- `GrammarParser` is `Clipp` over the variable `grammar`, which a program builds once;
  `Parsing` and `Cli` extend it.
- `Parsing` is the loop of `parse_args()` over any grammar; its only action reads a word. Two of its
  properties are about positions. `PositionsArePaths`: each context is below the child the one above
  it points at. `PositionsInGrammar`: each context is on a child of its group, before the end that
  `skip_alternatives()` may have moved, in every position the parser holds and in every memento it may
  put back.
- `UsageText` is `usage_lines`: the printer's walk with its brackets, separators and
  splitting of large alternatives. `Readings` says how a reader takes the text.

### IrpcGrammar, Cli and CommandLine

| Action of `Cli` | Code |
|---|---|
| `Prepare` | `make_args`, `sanitize_args`, `clipp.h` 4985-5017, 5137-5144 |
| `ParseWord`, `ParseEnds` | `parse_args`, `clipp.h` 5052-5064 |
| `Execute` | `execute_actions`, `clipp.h` 5026-5043: the actions of what was mapped without error, also on a line that fails |
| `Answer` | `main.cpp` 68-103: the test of the result, the switch over `selected` |

`IrpcGrammar` builds the grammar with the operators of `Grammar`, in the order of `main.cpp`
23-64, since what `,` and `|` merge decides what may be given in which order. `Cli` takes it
as a constant, so that what is proved about it does not hang on one grammar.

`CommandLine` is the promise: a line is read into items (an option with its
value, a switch, a command, a word without meaning), a command stands after
switches only and is followed by its own options in any order and then by switches;
the answer is a call with the values given, or the usage. It has no parser, scope or
missing parameter. Where a value looks like an option or a command
(`IsAmbiguous`) it allows the usage besides. Where `src/README.md` says otherwise than the options of
the commands, it promises neither: the README's examples (`Readme`) may do what the README says or what
their words mean by the options, and the two route commands may be called with the format or without.
What `irpc` does with them is among what was found (below).
`Cli!Implements` is the refinement, with what the correction makes of the words passed as an operator.

### Coap and CoapExchange

| Action | Code |
|---|---|
| `Send` | `coapClient.cpp` 47-66 |
| `ClientRead` | 67-78: one readable socket, one `coap_read()`, `message_handler` 7-21, the end |
| `ClientFails` | 47, 69-73 |
| `ServerStart` | `coapServer.cpp` 19-35 |
| `ServerAnswers` | 37-48, `hello_handler` 6-17, or libcoap's error response |
| `ServerFails` | 40-43, the end of the loop |

A datagram is what it is (request, acknowledgement, response), whose exchange it belongs to
and the class of its code. The network is a set: taking a datagram may leave a copy,
and any datagram may be taken first or, if `Lossy`, be dropped. libcoap
retransmits only when the program calls `coap_retransmit()`, which neither does; so no
step sends twice. `EarlyAck` is a server that acknowledges first and answers later, as CoAP
allows and other servers do; the client is written for the other kind.

`CoapExchange` is the promise, with no network, server or lost datagram: a client asks, is
served, and ends with what the server says to its request, which for an error is nothing; only a server that
acknowledges early makes a client end without what there was to show. `Coap!Implements` is the refinement; a
client's phase is its own place and whether the server has read its request.

## What TLC checks

| Run | What it shows | Instance |
|---|---|---|
| `cli` | `Implements`, `NoTextLost`, `ReadsToTheEnd`, `AdvertisedAccepted`, no deadlock | 5 247 command lines: 64 287 states |
| `parsing` | `AcceptedIsComplete`, `AcceptedIsUnambiguous`, `PositionsArePaths`, `PositionsInGrammar`, `SearchesEnd`, `JoinedFlagsAreSeparate`, `AdvertisedIsRead` | 4 grammars, every line of up to 5 (joined flags: 4) of 4, 7 or 8 words: 60 959 states |
| `walk` | `StandsInGrammar`, `OnlyUndoStrays`, `OnlyForward`, `NothingPassedBy`, no deadlock | 7 groups, 3 of them alternatives, 2 remembered places: 128 256 states |
| `show` | `SuccessIsComplete`, `SuccessIsSnapshot`, `NeverStuckInRecv`, `Implements`, `IInv`, `Terminates`, no deadlock | 1 process, 7 rows on 2 interfaces, 4 commands, 3 changes: 325 492 states |
| `show_lost` | `NoTextLost` is violated | 3 rows on 1 interface, `ipshow` only, 2 changes |
| `show_failed` | `FailureIsReported` is violated | `showiproute` only, 1 change |
| `configure` | `TypeOK`, `ExitReportsOutcome`, `NeverStuckInRecv`, `AddsTheRouteAsked`, `OnlyTheAskedChange`, `Implements`, `IInv`, `Terminates`, no deadlock | 1 process, 15 command lines, 2 interfaces and 2 names, 2 changes: 193 842 states |
| `configure_cidr` | `CidrHonoured` is violated | no changes by others |
| `configure_remove` | `RemovesTheRouteNamed` is violated | 1 change |
| `attr_parse` | `ShownIsReference`, `ValidatedReadsFit`, `IInv` | messages of up to 4 attributes: 45 563 states |
| `attr_metric` | `EveryMetricShown` is violated | routes with 1 or 2 well-formed metrics |
| `coap` | `IInv`, `StuckOnlyByLoss`, `SilentOnlyByEarlyAck`, `Implements`, `EndsUnlessLost` | 2 clients, one of which asks for what the server does not have: 10 332 states |

Why the bounds are enough.

- Command lines. Up to three words give every order of two commands, options,
  switches, values, values glued to their flag and empty words. Whole sentences are
  given with their units in every order and with a word forgotten, since only
  they have many options to reorder. Numbers come in one word and in two.
- Grammars. The parsing run has its own because irpc's has no repeatable group,
  no joinable flags and no optional value. A
  repeat cycle of the second takes at most four words, so five begin another one.
  The fourth, `[-x] (a b...)`, is the smallest in which the memento of an ended
  traverser is kept: `a a` does it.
  Grammars with joinable groups in different scopes are left out: for them the code
  is undefined (see below).
- Walk. Two branches with groups at the same levels, and two places to remember, are what it takes to put a
  place of one branch on the other, below a level that was put back there before; a sequence and
  alternatives three levels down give every move something to skip, to leave and to pass.
- Processes. They share nothing but the kernel's tables, and what one process does to another is
  what any other program can do, so the runs have one process and let the
  other programs do everything. Two rows of the dumped kind already give every shape of a dump: one
  datagram or several, rows with or before `NLMSG_DONE`, an empty one. Three
  changes allow a row to go and come back between two datagrams while another is
  touched; two allow an interface to be deleted and its name given to another one
  between `if_nametoindex()` and the kernel. Four attributes of few types give
  repetition before and after a malformed one. The bound `MaxChanges` only counts
  steps of other programs.
- CoAP. Clients share only the server, which keeps nothing between two
  requests; two show that one client's traffic does not reach the other.

The proofs need none of these bounds. The runs do not use symmetry: interfaces, rows, words
and clients differ in what they carry.

Fairness. `FairSpec` of `Show` and `Configure` asks weak fairness of each process's own steps, and of
nothing else: the scheduler runs a process that can run. That the kernel
answers is no fairness assumption, since its part happens inside `sendto` and
`recvfrom`. `Terminates` thus depends on the loop ending: the dump's cursor only
advances and changes by others are finite in number (`MaxChanges`).
`FairSpec` of `Coap` asks it of sending, of a `select()` that has a datagram to report, of the
server's start and answers, and of the fate of a datagram nobody can receive. Losing, failing
and acknowledging early stay free. `EndsUnlessLost` speaks of each behaviour in
which a client loses nothing, though the network of the run may lose.

Deadlock. In `Show`, `Configure`, `AttrParse` and `Cli` the normal end stutters, so a process
blocked in `recvfrom` shows as a deadlock and is not mistaken for one. `CHECK_DEADLOCK
FALSE` stands where the system may stop: a command line typed to its end, and a CoAP server
that waits for requests. In `Walk` a place can be remembered or forgotten also at the end, so nothing stops.

Each property of a passing run is violated when a definition is replaced by its
variant: the definitions that stand just above the ones they vary, named for the slip.

## What the runs found

- `src/src/network.cpp:227`: `if_indextoname()` may return NULL by the time a row is
  displayed. Streaming it sets `badbit` and silences the rest of the output; exit status 0.
- `src/src/network.cpp:75`: a dump that fails half way ends in an `NLMSG_DONE` with an error,
  which nothing looks at; the display is truncated and the exit status 0.
- `src/src/iproute.cpp:285`: the prefix is cut to a byte. `--cidr 280` adds a /24.
- `src/src/iproute.cpp:381`: `removeIpRoute` ignores `--iface` and `--dest` and uses
  uninitialised variables. With a success text it may have deleted a route nobody named.
- `src/src/iproute.cpp:71` and 115: the metric numbered `RTAX_MAX` is stored and never displayed.

Met while modelling, and no run of its own:

- `src/README.md:48`, 52 and 56 give `ipshow ipv6`, `iplink -f ipv6` and `setlink -n eth0`;
  the grammar (`main.cpp` 23-34) has no place for them, and `irpc` prints its usage.
- `src/README.md:62` promises the message format "with any command"; `main.cpp` 88 and 92
  call `addIpRoute` and `removeIpRoute` without it.
- An interface's address and a link's name are validated for less than is read of them (`network.cpp` 236, 284;
  see `AttrParse`).
- The callback of the metrics wants each to be a U32 (`iproute.cpp` 26), but the congestion control algorithm is
  text: the metrics after it are not displayed. `ShownIsReference` stops where the code does.
- A route added without `--gw` has link scope (`iproute.cpp` 291), and `removeIpRoute` asks for universe
  scope (377): no command of `irpc` removes it.
- A command line that fails prints the usage and exits 0 (`main.cpp` 99-103): a script takes it for success.
- Operator `&` of clipp makes a sequence "by making all input objects blocking"
  (`clipp.h` 3615), but the scope undone after a repeatable value makes earlier values
  reachable: with `[-x <X>...] (m ... | n <k> <l>) [-v]` the line `-xw -v w w n` is accepted.
- Within a repeat cycle clipp does not miss a required value (`q -x -e` with
  `((p|q) [-x <X>] [-y])... -e`), which is why `Complete` excuses repeatable groups.
- A mapping is compared with those since the start of the repeat cycle, whatever group the cycle
  is of (`clipp.h` 4731): what `AcceptedIsUnambiguous` says of alternatives is within cycles, and no more
  is true. With `[-a] | ([-b] [-c])...` the line `-a -b` is accepted and `-b -a` is a conflict.
- A memento is the level of a context and the context, and not the branch it is on. When commands
  enter nested groups of two branches, undoing one scope can put a context of the other branch back:
  with the groups `((a [-x]) [-y]) (((b [-z]) [-u]) [-v]) [-w]` and the commands `a` and `b`, the
  line `a b -x -z` is rejected and `a b -z -x` is accepted. `PositionsArePaths` is therefore true of
  the grammars of its run and not of every grammar; that such a stack at least consists of children
  of groups is proved (`PositionsStayInGrammar`).
- `next_after_match()` may end the cursor (`clipp.h` 3995) and then remember it as a scope (4025): a
  memento of level 0, whose iterators are of no group. With `[-x] (a b...)` the line `a a` does so.
  `undo()` skips it, and what else looks at it only compares the address of its child with the first
  child of the root (4077), which the model takes to differ.
- A root group that is made blocking by hand and has a child that is not leaves `back_to_parent()`
  with an empty stack, which `next_after_match()` reads from (`clipp.h` 3987-3998).
- The usage closes a group of optional values without flags with `<]` (`clipp.h` 5855).
- A joined flag's match is a position in its joinable group only; when it is
  compared with positions of outer scopes the code leaves its own stacks.
- `coapClient.cpp` asks for a URI without the port that `src/request.json` 16-17 has in its
  `server_uri`, and drops error responses without a word.

## What is proved

With TLAPS, for any set of processes, rows, interfaces, commands, messages, clients and
grammars, any bound on changes and any number of remembered places, from the named assumptions on the constants alone
(`ShowAssumption`, `ConfigureAssumption`, `AttrParseAssumption`, `CoapAssumption`, `TreeAssumption`,
`WalkAssumption`, `CliAssumption`, `ParsingAssumption`):

| Module | Theorems |
|---|---|
| `ShowProofs` | `TypeCorrect`, `Invariant`, `CompleteOnSuccess`, `SnapshotOnSuccess`, `NoLostWakeup`, `Refinement` |
| `ConfigureProofs` | `TypeCorrect`, `Invariant`, `OutcomeReported`, `NoLostAnswer`, `AddedAsAsked`, `ChangedAsAsked`, `Refinement` |
| `AttrParseProofs` | `Invariant`, `ShowsReference`, `ReadsInBounds` |
| `CoapProofs` | `TypeCorrect`, `InvariantHolds`, `NobodyStuckWithoutLoss`, `AnswersAreShown`, `Refinement` |
| `WalkProofs` | `CursorStandsInGrammar`, `PathsAreLeftByUndo`, `WalkLeadsOn`, `AdvancePassesNothing` |
| `CliProofs` | `TextIsKept` |
| `ParsingProofs` | `AcceptedUnambiguously`, `PositionsStayInGrammar` |

The arguments:

- `Show`. None of the properties is inductive: exit 0 speaks of datagrams long
  gone. `IInv` follows each row from the kernel's cursor to the display: what the
  cursor passed is displayed, in the buffer or in the waiting datagram, and in one of the three only
  (`NothingDropped`); the kernel has more exactly while the waiting datagram is
  not the last one, and the process goes back to `recvfrom` only if one waits
  (`Turns`); the history variables agree with the tables while the dump runs, and
  the last datagram is unflagged only if nothing changed (`Accounted`). For the refinement `Send` maps to
  `Begin`, since the kernel fills the first datagram within the call, `Recv` to `End` when the kernel fills the last one,
  `Callback` to `List`, the exits to `Succeed` and `Fail`; a row in hand is one the cursor passed and `Shown` does not
  hold, which is what `List` asks for, and success takes the two theorems above, one step ahead.
- `Configure`. The request is one the command line leads to (`Built`), and the
  stage of the process, the answer and the history variables fit together (`Stages`).
  `AddsTheRouteAsked` also needs that every interface that bears the name is
  remembered (`Remembered`) since the index may be stale when the request is
  sent. `OnlyTheAskedChange` needs that the tables hold only routes
  of interfaces that are up, so that setting a link up takes no route away. For the refinement every
  action maps to one of `AtomicChange` or a stutter: `Send` to `Make` when the kernel carries the
  request out, with the answer's loss decided in the same step; `Recv` to `Succeed` or `Fail`; the failing
  exits to `Fail`. `Make` needs that the request is one the words lead to, which is why `Built` ties the
  family of the destination and of the gateway to each other.
- `AttrParse`. The table holds the last attribute of each type walked
  (`TableIsLast`), all of which were accepted, and the walk ends at the end or at
  a refusal (`Walk`); a message goes through its own display before that of its
  metrics (`Stages`). What is displayed was therefore accepted, whatever came between validating and
  reading, and what the callback accepts is long enough for `ReadLen` but for the two attributes
  `LeftToTheKernel` (`SeenIsLongEnough`).
- `Coap`. A client that waits has a datagram under way or has lost one; for that and for the
  refinement one must know where datagrams come from: an answer under way was made
  by a server that read the request, an acknowledgement by one that acknowledged early,
  and nothing is under way for a client that has not begun (`Datagrams`, `Progress`). Every step
  maps to a step of `CoapExchange` or a stutter: `Send` to `Ask`, the server's first reading to
  `Serve`, `ClientRead` to `End`.
- `Walk`. That each level of the cursor, and of what is remembered, is on a child of its group, before the
  end that was cut, is inductive over all moves, `undo()` included (`NextFacts`). That the levels make a path
  (each group the child the level above is on) is not: `undo()` puts a place back where the cursor has
  meanwhile gone to another branch. What is true, and proved with the invariant, is that this is
  the only way to leave a path: each other move changes the level it ends on and those it removes, so no
  level strays that did not (`NoNewStray`), and `undo()` disturbs the one level it puts back (`UndoMoves`).
  That `++` and the skipping moves lead to a later node needs the invariant only, so it is true from strayed
  positions too; hence a walk of such moves alone ends, as the loop over the parameters that may be
  missing does (`clipp.h` 4841-4863). The searches of the parser use the scoped `++`, which undoes scopes
  and visits nodes again, and nothing follows for them: that they end is `SearchesEnd`, which is only checked.
  That `++` passes nothing by is about paths.
  The contexts of a path spell the path of its node (`SpelledFacts`), so a node that comes later
  in the order is below the cursor's, behind an end that was cut, or parts from the cursor's path
  at a level with children left; in the first and the last case `++` leads to no node beyond it
  (`PassesNothing`). For this `TreeAssumption` says that what is above a group is a group.

- The parser of clipp. `ClippProofs` says what the operators of `Clipp` return for any finite
  grammar, each loop by induction on its turns: what `try_match()` finds of a word is, put together,
  the word (`MatchesFound`, by way of `Covers`, the words found and the rest left, which every turn
  of the joining keeps); `add_match()` adds one mapping with the text it found, and leaves those before
  it as they were but for a mark of conflict (`AddMatchAdds`).
- `Cli`. No character is lost only at the end, so the invariant is about the words still to be read:
  while the parser has its position, the text of the mappings followed by that of the words left is
  what was typed (`ReadSoFar`). `sanitize_args()` keeps it because it only moves the border between two
  neighbours (`PairRewritten`); a word read moves its text from the one part to the other, whether it
  was matched, split over a sequence, found by a parser without blocking, or mapped to nothing
  (`ReadKeepsText`). `CliAssumption` leaves out grammars with joinable groups, which put the common
  prefix of joined flags in front of each of them; irpc's grammar has none.
- `Parsing`. An error may be marked on a mapping long after it was made, and a result without errors
  says little of the search that made it; so the invariant is about all mappings, errors or not:
  of two that exclude each other within a cycle the later one is marked (`Marked`), and one of what was
  mapped before has a repeat count (`Counted`). The marks of later conflicts only add; mappings reported
  as blocked or unknown count for neither. `check_conflicts()` looks back from the end to the last
  start of a cycle, and `ConflictFound` is that this is far enough.
- Positions of the parser. `PositionsInGrammar` is about what the parser holds; the next word works on
  all of it at once, so the invariant (`PlacesInv`, of which `ParserStands` is the part about the
  parser) types the parser: stacks of `Places`, mementos that hold a place
  unless their level is 0, missing parameters and mappings with stacks of their own. That it is kept
  needs no path: a move changes the iterator of one context within the end it has (`NextPlace`,
  `LastPlace`) or enters a group at its first child, and `undo()` puts a place on top of a
  shorter stack, whichever branch it was left on (`UndoStands`). Everything else is loops around that.
  TLA+ defines them by recursion, and a recursion whose steps stay in a set has a solution and stays there
  (`Recursion`, `KeptByRecursion`); with it the lemmas go from the leaving of scopes to `++`, to what a
  search goes through (`WalkStands`), to `next_after_match()`, `add_match()`, the joined sequences and
  flags, whose temporary parsers stand too, and to `Read`. `ParsingAssumption` says what a grammar is:
  finitely many nodes, groups with children, the root and the joinable groups among the groups. An
  empty group within another is left out because `++` enters a group without a look for children
  (`clipp.h` 2890-2891): on such a grammar the theorem would be false. That a traverser which has ended is not
  dereferenced is not part of it: there TLC would stop with an error.

Only model-checked:

- liveness (`Terminates`, `EndsUnlessLost`), which is out of the prover's reach;
- what is a fact about the grammars and words of a run and not of all of them: `Implements` of `Cli`,
  `ReadsToTheEnd` and `AdvertisedAccepted` are about irpc's grammar, `JoinedFlagsAreSeparate` and
  `AdvertisedIsRead` about the examples; `AcceptedIsComplete` and `PositionsArePaths` are false of
  some grammars (see above). `SearchesEnd` starts from such positions too: what is left of a walk
  is then a sum over the levels of the stack, which overlap, and not a number of nodes;
- the usage text, which is an induction over the grammar;
- the violations. The properties of the findings are false and have no theorem.

## What is not modelled

- The text of the output: wording, number formatting, the fields of the fixed
  headers, `--msgformat` (it prints and changes nothing), `inet_ntop`.
- Sequence numbers and port ids: each process has a socket of its own with a port the kernel
  picked, sends one request, and subscribes to no group, so `mnl_cb_run()`'s checks of them always pass.
- Signals: the program installs no handler, so `recvfrom` is not interrupted.
- IPv6 specifics beyond clearing host bits and the missing scope; routing tables other than main.
- clipp's matchers for numbers and custom filters and its error handlers, which irpc does not use;
  its debug output; the option list of the man page and every formatting option but the
  default; the target conversions other than to strings and booleans.
- `createServer` and `resourceCreator` of `coapServer.cpp`, which nothing calls; the text of
  libcoap's errors; congestion and blockwise transfer in libcoap.
- The RPC stubs, which have no bodies; the makefile and the class declarations.

## Plan

In order of importance:

1. `Irpc`: `Show` and `Configure` over one kernel, dumps running beside configuring
   commands, against `Listing` and `AtomicChange` over one set of tables.
2. The proof that the searches of the scoped traverser end, along an order in which undoing a scope goes down.
3. The option list of the man page: every flag of the grammar is in it once.
