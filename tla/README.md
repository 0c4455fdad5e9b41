# libaddr in TLA+

libaddr is a C++ library about IP addresses: it parses lists of addresses and
of ranges, keeps a process wide list of the network interfaces, compares,
unites and simplifies ranges, prints addresses, reads routes, and has an object
for Unix addresses. This directory models the parts
of it that have logic of their own, checks them with TLC on small instances and
proves the main properties with TLAPS for every instance.

All file names are relative to `src/libaddr/` unless they start with `src/`.


## 1. Inventory

### Interface cache (`iface.cpp`)

- **State.** Three variables of the process: `g_cache_ttl`, `g_cache_timeout`
  and `g_cache_iface` (a shared pointer to a vector), with `g_system_mutex` of
  cppthread as their lock.
- **Operations.** `get_local_addresses()`, which answers from the cache or reads
  the kernel with `getifaddrs()`; `reset_local_addresses_cache()`;
  `set_local_addresses_cache_ttl()`; and the readers built on top of the first,
  `get_interface_name_addresses()`, `find_addr_interface()`,
  `is_broadcast_address()`, plus `get_interface_names()`, which has no cache.
- **Interactions.** Any thread calls any of them. All callers share one vector.
- **What is hard.** `get_local_addresses()` takes the mutex twice and reads the
  kernel between the two; a reset, a change of the TTL, another miss or a step
  of the clock may come in between.
- **Correct when.** A caller never sees the vector the first critical section
  leaves half made; a list served is the kernel's at some instant of a call,
  and no older than the TTL allows; after a reset what is loaded is fresh.

### Address ranges (`addr_range.h/.cpp`)

- **State.** Two flags (has a *from*, has a *to*) and two addresses.
- **Operations.** The setters; `is_defined`, `is_range`, `is_empty`, `is_in`,
  `match`; `from_cidr`, `to_cidr`; `union_if_possible`, `intersection`;
  `compare` and the operators; `size`, `to_addresses`, `swap_from_to`;
  and on vectors `optimize_vector` and `address_match_ranges`.
- **Interactions.** Made by the parser; uses the mask and neighbour operations
  of `addr`, some of which throw.
- **What is hard.** Half ranges and empty ranges go through the same code as
  full ones; the ends of the 2^128 addresses; masks which are not prefixes; the
  two loops of `optimize_vector()` which erase from the vector they walk.
- **Correct when.** A union covers exactly its two ranges; `operator <` and the
  comparisons given to `std::stable_sort()` are strict weak orders; what is
  removed from a vector is included in what stays.

### Address parser (`addr_parser.h/.cpp`)

- **State.** The flags of what is allowed, the defaults (address, mask, port,
  protocol), the sort order, and the errors found (a text and a count).
- **Operations.** `set_*` / `get_*`, `parse()` and, below it, `parse_cidr()`,
  `parse_address()` which chooses between the two syntaxes,
  `parse_address_range_port()`, `parse_address_port()` and `parse_mask()`; and
  `string_to_addr()`, which parses with a parser of its own.
- **Interactions.** Produces `addr_range` objects; asks the system for host
  names; `validator_address` drives it.
- **What is hard.** Sorting, merging and moving a family first run one after the
  other over the same vector, and the second one grows ranges and erases while
  it iterates; an entry with an error may have left a part of itself in the
  result; the errors accumulate over calls.
- **Correct when.** No address of the input is lost or added by sorting and
  merging, one pass of the merge is enough, the result is in the order asked
  for, and `parse()` returns.

### IP address (`addr.h/.cpp`)

- **State.** The 128 bit address (IPv4 mapped into IPv6), port, interface,
  mask, whether the mask was given, host name, protocol, and a lazily computed
  network type (`mutable`).
- **Operations.** The setters and getters, the mask operations, arithmetic and
  comparisons, `get_network_type()`, sockets, text.
- **What is hard.** `get_network_type()` is `const` but writes the cached type
  in two steps, and the addresses of the interface cache are shared by all
  threads; several operations which change the address do not drop the cached
  type; arithmetic at both ends of the address space.
- **Correct when.** The network type answered is the one of the address the
  object holds now; the mask operations agree with each other.

### Unix address (`addr_unix.h/.cpp`)

- **State.** The `sockaddr_un`, a scheme, and the mode and group of a file.
- **Operations.** `set_file()`, `set_abstract()`, `make_unnamed()`, `set_un()`,
  `set_uri()`, `set_from_socket()`, the conversions back, `unlink()`.
- **What is hard.** Two addresses are compared with all of the bytes of
  `sun_path`, those behind the name included; a name may or may not end with a
  NUL, depending on where it comes from; many calls throw half way through.
- **Correct when.** The bytes depend on the name only; a call which throws changes
  nothing; an address comes back from its URI and from a socket bound to it.

### Output flags of a stream (`addr.h`, `addr.cpp`)

- **State.** An `_ostream_info` behind the `pword()` of each stream to which a
  mode or a separator was sent, and a callback registered with the stream.
- **Operations.** The manipulators, the callback, the `operator <<`.
- **What is hard.** `copyfmt()`, `swap()` and the destruction of a stream copy,
  move or lose the pointer and the callback, in an order the C++ library decides.
- **Correct when.** Each object is deleted once, and each stream behaves as if it
  had flags of its own.

### The other parts

| part | what it is | what makes it correct |
|---|---|---|
| `validator_address` | turns the words of an option into parser setters, keeps the parser | a verdict is that of the value, not of the values before it |
| `route` | one sequential read of `/proc/net/route`, the search of the default route | the interface of the default route is found |
| `version`, `exception` | constants and declarations | |
| `src/tools/` | three command lines | print what the library returns |

`PROJECT.json` lists every hazard with the line at which it bites and the
properties about it. Those with no property say why.


## 2. The modules

| module | models | used by |
|---|---|---|
| `LocalAddresses` | what `get_local_addresses()` promises, as an abstract specification | `IfaceCache` |
| `IfaceCache` | the interface cache, one step per statement another thread can see | `MCIfaceCache`, `IfaceProofs` |
| `InterfaceSearch` | the content of the list, the searches of interfaces, the routes | `MCInterfaceSearch`, `IfaceProofs` |
| `Lists` | what the loops over lists find and collect, as recursive functions | `InterfaceSearch`, `AddrParser` |
| `AddrRange` | addresses and ranges as values and their operations | `ParserMerge`, `OptimizeVector`, `RangeAlgebra`, `InterfaceSearch`, `AddrParser` |
| `RangeAlgebra` | the arithmetic of ranges, and `to_addresses()` step by step | `MCRangeAlgebra`, `RangeAlgebraProofs` |
| `AddrParser` | the setters of a parser and `parse()` from the text to the ranges | `AddrText` |
| `AddrText` | how an address is printed | `ValidatorAddress` |
| `ValidatorAddress` | the options of a validator | `ParserSession` |
| `ParserSession` | a parser, or that of a validator, over its life | `MCParserSession`, `ParserProofs` |
| `ParserMerge` | `parse()` once entries are understood | `MCParserMerge`, `ParserProofs` |
| `OptimizeVector` | `optimize_vector()` | `MCOptimizeVector`, `OptimizeVectorProofs` |
| `NetworkType` | `get_network_type()` and the type it keeps in an address | `MCNetworkType`, `NetworkTypeProofs` |
| `UnixAddress` | `addr_unix` and the sockets and files it names | `MCUnixAddress`, `UnixAddressProofs` |
| `StreamFlags` | what the manipulators promise, as an abstract specification | `StreamInfo` |
| `StreamInfo` | the objects behind `pword()` and the callbacks | `MCStreamInfo`, `StreamInfoProofs` |
| `AddrRangeProofs` | lemmas about `AddrRange`, `Lists` and recursive functions | `IfaceProofs`, `ParserProofs`, `OptimizeVectorProofs`, `RangeAlgebraProofs` |
| `IfaceProofs`, `ParserProofs`, `OptimizeVectorProofs`, `RangeAlgebraProofs`, `NetworkTypeProofs`, `StreamInfoProofs`, `UnixAddressProofs` | theorems | |
| `MC...` | constants for TLC | the runs |

A definition whose comment starts with "Bug:" is a variant of the definition
next to it, as a mistake in that code would make it. No specification uses it;
it is there to show that the properties notice the mistake.

### IfaceCache

Several threads, each at a label `pc[t]` of the function it is in. Each of the
statements that touch shared state is an action: the test under the first lock
(`Valid`, then `Hit`; or `Miss`, which installs the empty vector), the read of
the kernel without the lock (`Fetch`, `FetchFails`), and under the second lock
the new timeout (`PublishTimeout`) and the `swap()` (`Swap`). The two assignments
of a reset are `ResetTimeout` and `Drop`. `SetTtl` has no `Acquire` before it,
as the code takes no guard there. The mutex is `lock`; `Acquire` is the
constructor of the guard, and the last action in each scope frees it.

The kernel's configuration is a version number `net` and a list is the version
it was read from: the properties are about which list a caller gets and how
recent it is, never about its content. The clock `now` has the resolution of
`time()`; it goes forward by any amount, and back only when `ClockCanStepBack`.
`since`, `resetNet`, `overtaken` and `lateList` are history the properties read
and no guard does.

`LocalAddresses` has no mutex, no empty vector and a call with one point of
effect. `IfaceCache` implements it with `kept` standing for the list in the
cache unless it is the placeholder, and `until` for its timeout: `Hit`, `Swap`
and `FetchFails` are the return of a call, `Drop` a reset, `Miss` the dropping
of an expired list, `CallGet` a call; the other steps of the threads are
invisible.

### AddrRange

An address is a number of `Bits` bits and a mask, which is the set of the bits
that are on, so a mask may have holes as in the code. IPv4 is the block
`FirstV4..LastV4` of `V4Bits` free bits. `GetMaskSize` is -1 on a mask with
a hole, `AcceptsMaskCount` is the test before `set_mask_count()` throws,
`IsNext` and `IsPrevious` do not wrap around. `Pow2` and `Weight` are the powers
of two, up to the number of addresses. `UnionIfPossible`, `Compare` and
`Less` are the branches of the code in its order. Ports, protocols, names and
`mask_defined` are not there: none of these operations reads them.

### ParserMerge

One parser used any number of times, with any sort order `set_sort_order()`
takes. The text is gone: an entry is the range it is parsed to, `Collect`
refuses the empty ones under `NO_EMPTY`, as `parse_address_range_port()` does.
`Sort` is the sort of `parse()`; `Merge`, `KeepApart`, `MergeThrows` and
`EndOfMerge` are one pass each of the merge loop; `FamilyFirst` is the
second sort. `std::stable_sort()` is described by what it guarantees: the result
is a permutation which keeps the order of equivalent elements. A comparison
which is no strict weak order would show as a deadlock (no such permutation) or
as a wrong order. The code's `idx`, from 0, is one less than the model's; its
`--idx` followed by the `++idx` of the loop is the unchanged `idx` of `Merge`.

### OptimizeVector

A vector of the caller, who pushes networks and calls `optimize_vector()` on
it again and again, on its own result too. `Outer` makes the range of `v[i]`,
`Union` unites it with the one of `v[j]`, `Absorb` or `Keep` is the branch of
the test whether that union is a network (`IsNetwork`), `OuterThrows` and
`InnerThrows` leave the vector as it is at that moment. Indexes start at 1; the
code's `--j` then `++j` is the unchanged `j` of `Absorb`.

### NetworkType

One address is shared by all the threads, as those of the list of interfaces
are; the threads in `Owners` have one of their own besides. `type[o]` is
`f_private_network`, `pc[t]` where the thread is in `get_network_type()`: `Test`
finds it UNDEFINED or not, `SetUnknown` makes it UNKNOWN, `Classify` writes the
type if one of the tests succeeds, `Return` reads the member again. The
member is a plain enumeration with no lock: each access is an action, and the
order of the accesses of several threads is any. A compiler which keeps the
first store back, or returns the value from a register, gives behaviours the
model has as well: those in which no thread comes in between.

An IP is its eight words of 16 bits, so the tests are those of the code on the
real ranges; `Successor` and `Predecessor` carry and stop at both ends.
`SetIp` stands for `set_ipv4()` and `set_ipv6()`, `Move` for the operations
which do not call `address_changed()`: `++`, `--` (and `+=`, `-=`, which are these
many times over) and `apply_mask()`. `Copy` is the implicit copy, made while other
threads may be inside of `get_network_type()`. `suspect` is history: since the
last setter, was the address moved with a type in it, or copied from one whose
type was being computed?

### AddrParser, AddrText, ValidatorAddress and ParserSession

A text is a sequence of tokens: the punctuation the parser searches for is one
token each, and what only `getaddrinfo()`, `inet_pton()` or the conversion of a
number looks into is a word. `Literal` says which words are an IP and which one,
`Number` which are numbers, a resolver which are names; a name has any
number of addresses, of which some may be of an unsupported family.

`AddrParser` has a parser as a record. Each setter is an operator which returns
the new record, next to an operator `Accepts...` which is false where the setter
throws. Each function of the parser is an operator from a text to what it adds: ranges,
errors, and whether it throws (`Then` and `InTurn` put them one after the other). What
a loop adds is a recursive function of how far it went (`InTurnUpTo`, `SelectedUpTo`),
and `First` is the place a search finds.
`ParseCidr` cuts the mask off, `UsesSyntax6` is the decision between the two
syntaxes, `ParseAddress4` and `ParseAddress6` cut the port off,
`ParseAddressRangePort` the second bound, and `ParseAddressPort` comes to
`ByLookup` or `ByLiteral` depending on `ADDRESS_LOOKUP`; `ParseMask` goes over the
ranges found. 32 and 128 are `V4Bits` and `Bits`. `ParseText` is `parse()` before
its two sorts, where `ParserMerge` goes on.

`AddrText` is `to_ipv4or6_string()` with its modes, as tokens again, so that
what is printed can be parsed. `ValidatorAddress` has an operator for each option
of the constructor; a default is itself parsed, printed and handed to the setters.

`ParserSession` is the machine: a program configures a parser by any setters,
or creates a validator, then parses or validates text after text. `AfterParse` adds
the errors of a call to those there are; `validate()` parses the same way, with the
parser `BeforeValidate` cleared. `string_to_addr()` is asked for any protocol, none
included; where it throws, `last.ranges` has no or several ranges. `last` is
history, the last call with the parser it was made on; `ResolverChanges` changes
the names between two calls. Its variables and formulas are named `Session...`, those of
`InterfaceSearch` `Search...`, so that one module of proofs can extend both
machines of a component.

### InterfaceSearch

One thread which searches while the kernel's configuration changes. A
configuration has the entries of `getifaddrs()` (several families, entries without
a mask or a peer), the routes and the names by index. `ReadList`, `ReadRoutes` and
each `NextName` are separate steps, as each is a system call of its own, and
the list may come from the cache (`GetCachedList`). `Route` reads the flags the
way the code does, decimal digits up to the first letter. The flags the kernel has
for an IPv4 route end with `RTF_REJECT`, 0x0200, so that the first of its four digits
is 0; with a letter there `std::stol()` would throw, which the model does not have. `ReadListFails` then
`Crash` is the null pointer of a failed `getifaddrs()`. `stale` is history: was
the list, or were the names, read before the configuration changed?

### RangeAlgebra

A program builds a vector of ranges with any of the setters and `from_cidr()`, and calls
`to_addresses()` with a limit. `Call` is the test of the total, `RangeTooLarge`
the one of each range, `StartRange` and `Push` the loop, whose test is at its
end, `AddBound` a range with a single bound. Sizes are computed with the width they have:
a signed difference, made unsigned, cut to `SizeMax`. `Plus` saturates at both
ends. An unbounded loop shows as the memory which runs out (`OutOfMemory`).

### UnixAddress

`sun_path` byte by byte, `PathSize` of them, since what is behind a name matters.
`Canonical` and `Verifies` are `verify_path()`, with `Squeezed` for what
`snapdev` removes of a path, byte after byte; `FileBuffer` and
`AbstractBuffer` are the copies into the structure and what they clear. Each operation is an
operator from an object to the object after it, with `threw`; an action applies
one to the variables. Around it are the socket files which exist, a socket of
the program and the name the kernel has for it: `Bind` by the program with the
whole structure, or `Inherit` of a socket bound by somebody else. What a
structure on the stack holds before `getsockname()` is any byte.

### StreamInfo and StreamFlags

`pword[s]` is the pointer of a stream, `callbacks[s]` how many times the
callback is registered with it, `heap` the objects. `CopyFmt` runs the
callbacks in the order the C++ library does: `erase_event` on the old pointer, then
pointer and callbacks are copied, then `copyfmt_event` duplicates the object.
`StreamFlags` has just a mode and a separator for each stream, and no pointers.


## 3. The runs

| run | result | what it shows |
|---|---|---|
| `iface_cache` | holds | no caller is given the placeholder (`NoPlaceholderAnswered`); a list served is older than a reset only if the call which published it was overtaken by that reset (`FreshUnlessOvertaken`); the cache implements `LocalAddresses` |
| `iface_reset` | fails | `FreshAfterReset`: see the findings |
| `parser_merge` | holds | no address lost or added at any step (`CoverageKept`), one pass is enough (`MergedApart`), the order asked for (`Ordered`, `OrderKept`), `parse()` returns (`ParseReturns`) |
| `parser_matches` | fails | `MatchesKept` |
| `optimize_vector` | holds | at every step the vector stands for the input (`OnlyIncludedRemoved`); nothing is left included in a later network (`NoneIncludedInLater`), nor in any network when the larger ones came first (`NoneIncludedWhenLargestFirst`); the loops end (`OptimizeReturns`) |
| `network_type` | holds | the type kept in a shared address is right when nobody is computing it (`SharedIsRightWhenQuiet`) and comes to stay so (`SharedSettles`); a wrong answer is only UNKNOWN (`WrongOnlyAsUnknown`); an address which was neither moved nor copied at the wrong moment answers right (`OwnAnswerRight`) |
| `network_moved` | fails | `AnswerIsRight` |
| `parser_session` | holds | whatever the configuration, an entry is added or reported, and with an error none of it is kept (`EntriesSettled`); the port is that of the text or the default, there when required and, without `ADDRESS_LOOKUP`, absent when not allowed (`PortPolicy`); an entry with nothing of an IPv6 in it gives an IPv4 a mask which later operations accept (`Ipv4MaskFits`); a validator refuses a value exactly when one of its entries has an error, whatever the values before it had (`VerdictFresh`); `string_to_addr()` has one answer for an address with TCP, UDP or no protocol, and with another one throws whatever the text is (`SingleAddress`); what is printed reads back (`PrintedReadsBack`) |
| `unix_address` | holds | there always is a NUL after the name (`TypeOK`); bytes depend on the name only (`NoStaleBytes`); URI and socket round trips (`RoundTrips`); `ThrowsWithoutChange`; `UnlinksOwnFile` |
| `stream_info` | holds | each object has one owner, which will delete it (`OwnedOnce`); the pointers implement `StreamFlags` (`ImplementsStreamFlags`) |
| `range_algebra` | holds | `to_addresses()` gives each address once, in order, within the limit (`AddressesExact`); size, network, intersection and arithmetic agree with sets of addresses (`AlgebraRight`) |
| `interface_search` | holds | the interface, broadcast address or names found, up to the first gap of the indexes, are right for the network as it is, when it did not change since the list was read (`AnswerRight`) |

### Bounds, and why they are enough

- *Interface cache.* Two threads: every property speaks of one thread overtaken
  by another, and a third thread can only do what the second one does. Three
  seconds: one to be cached, one at which the list is valid under a TTL of
  one, one at which it is expired. TTLs 0 and 1 are "only this second" and
  "this one and the next". One change of configuration makes a list old; the
  runs which look for a stale list allow two.
- *Ranges.* Four bits give IPv6 on both sides of a block of IPv4, as in the real
  address space, both ends of the space, and networks of every nesting.
- *Parser.* Three entries: what the merge loop does depends on a range, the
  next one, and the one that their union may reach. The eleven entries are
  ranges which are apart, adjacent, overlap, nest and mix the families, half
  ranges, empty ranges, and masks with a hole or too short; with every legal
  set of the five sort flags.
- *Vectors.* Four networks: two loops, a network which grows, and one to reach.
  The seven networks are equal, nested, adjacent, apart, one with a mask with
  a hole, and one whose mask is too short for its IPv4 address.
- *Network type.* Three threads: one which copies, one which computes, and one
  which undoes what the second did. One of them has an address: owners never
  touch that of another. The five IPs lie at ends of their networks, so that
  `++`, `--` or a /112 mask takes most of them into another one; only these five
  are moved, which bounds the walk to one step. The classification is not sampled
  in the proofs, where the IPs are any.

- *Parser session.* Addresses of four bits, ports up to 7. Up to three setters reach every
  pair of flags on top of the two a new parser has, and a flag with two
  defaults; or up to two of thirteen options of a validator. The nineteen
  texts have each syntax with and without a port and a mask, a
  mask as an address, also an IPv4 written as an IPv6, both kinds of half ranges, an empty range, ports and
  masks which are none, names with one address, with several and with an
  unsupported one, and texts of several entries with a comment. Texts are parsed again and again. A program
  clears its errors before it goes on (`MaxErrors`): the errors of a
  call are added to those before, and nothing else reads them. A validator has no such bound.
- *Unix address.* Five bytes: the longest file name has four, the longest
  abstract one three, and a name has one byte more than fits in both. Bytes are
  those the code tells apart.
- *Streams.* Three, so that two copies of the same stream meet; one place on the
  heap more than streams, so that an object which leaks is not hidden.
- *Range algebra.* Eight addresses with both ends of the space, a network and a
  mask with a hole; vectors of two ranges; sizes are cut at 5 so that this happens.
  What is added to an address goes past both ends. `AddressesExact` speaks of
  limits which the total, modulo 2^64 in the code, cannot step over (`Bounding`: a
  limit times the number of ranges fits in a size), and for which there is memory.
- *Interface search.* Four configurations: nested networks, interfaces without
  an address, without a broadcast address or without a mask, several default routes,
  indexes with a gap.

### Fairness

`ParserMerge` and `OptimizeVector` have weak fairness of `Run`, the steps of one
sequential call: a call which is running goes on. It does not include `Call`,
`PushBack`, `Collect` or `SetSortOrder`, which the caller may never do. The
end of the input is part of `Run`, as an input is finite. `IfaceCache` has no
fairness: its properties are about safety, and nothing in the code promises that
a thread gets a mutex it waits for. `NetworkType` has weak fairness of each
thread inside of `get_network_type()`, where nothing waits. The other modules
have none, as what they promise is safety: an object which nobody calls does nothing.
Deadlock is checked in every run.


## 4. The proofs

The theorems hold for every value of the constants under the assumptions named
next to them: `IfaceCacheAssumption` (the special values are distinct from the
versions, the TTLs are naturals), `InterfaceSearchAssumption` (the entries, routes and
names are of the kernel's types, and no two interfaces have the same name), `AddrRangeAssumption` (the last address is
2^Bits - 1 and the IPv4 block lies within), `ParserMergeAssumption` (the entries
are ranges with at least a bound), `AddrParserAssumption` (an IP and a number are one
word each, which is no punctuation; what is not written as an IPv6 is an IPv4; `::` is
none), `AddrTextAssumption` (each IP has a text as an IPv6, and each IPv4 one with dots as
well, which is no number; each size of a mask and each port has a word; `::` is 0; the IPv4 addresses are one aligned block, as `::ffff:0.0.0.0/96`
is), `ParserSessionAssumption` (texts are sequences of
tokens; a name the resolver knows has no punctuation of a text but the dash, is no
IP, and has at least one address), `OptimizeVectorAssumption`,
`RangeAlgebraAssumption` (a size is no wider than an address, and what is added to
an address is at most half of the addresses, as in `operator -`),
`NetworkTypeAssumption` (the IPs are eight words; the shared address is not an
owner's), `StreamInfoAssumption` (a place on the heap is not the null pointer)
and `UnixAddressAssumption` (names are made of bytes other than NUL, and
`sun_path` has more than two of them). TLC evaluates them in the runs.

**AddrRangeProofs**, the facts the proofs about ranges share, for any width.

- `Induction` is induction over a set: a set of naturals which has 0 and, with
  each number, the next one, has them all, since there is no smallest one outside of
  it. `Recursion` says from it that a function with a given first value and given
  steps exists. What is computed by recursion over bits, ranges or
  bytes (`Weight`, `SizeOfFirst`, `AddressesOfFirst`, `SqueezedUpTo`) is a recursive
  function for this reason, and each has a lemma which says what it is.
- `PrefixBounds`, from `Weights` and `Quotient`: the addresses an address with a
  prefix mask matches are those from a multiple of a power of two to before the next
  one. So two networks are nested or disjoint. `LowBitsOff`, `LowBitsOn` and
  `BlockBits` say which bits the first and the last address of a network have.

**IfaceCache**, for any set of threads, TTLs and bounds.

- `TypeCorrect`.
- `ResetsAreKept`: `[]FreshUnlessOvertaken`. The invariant is
  `LockInv /\ SnapshotInv /\ FreshInv`: the mutex is owned by the one thread in
  a critical section; a list read by a thread lies between the configuration at
  its call and the present one; the list in the cache is as recent as every
  reset unless `lateList`.
- `PlaceholderStaysHidden`: with a clock that never goes back,
  `[]NoPlaceholderAnswered`. `PlaceholderInv` says that next to the placeholder
  the timeout is always in the past, except between the two assignments under
  the second lock. This is where the clock matters, and why the property fails
  with one that is set back.
- `Refinement`: with such a clock, `IfaceCache` implements `LocalAddresses`:
  `InitRefines`, `InvisibleStep` and `StepRefines` map the initial states and
  each action.

**InterfaceSearch**, for any configurations, any addresses asked about.

- `SearchTypeCorrect`; `AnswersAreRight`: `[]AnswerRight`. The invariant is
  `SearchInv`: besides the types, `ListKept` and `RoutesKept` say that the list
  in the cache, the list in hand and the routes are those of the kernel unless
  `stale`; `FoundKept` that what is in hand half way, between the
  search by address and the one by name, is what the first one said;
  `NamesKept` that the names are those of the first indexes. None of them is
  inductive alone, as the next step reads the others.
- The searches are `FirstPlace`, about the smallest place, and the list is
  `SelectedPlaces`: what was pushed for some of the entries are those entries, in
  their order.

**ParserSession**, for any texts of any length, any names and answers, any setters,
options and defaults.

- The invariant is `SessionInv`: the types; `ParsedAsText`, that what the last
  call returned is `ParseText` of its text with the parser it was made on, that its
  errors are added to those this parser had, and that it had none when it is a
  validator's; and `ReturnedByCall`,
  the same of `string_to_addr()`. The other theorems follow from it
  through what a text may give, whatever its tokens.
- That is the chain `ByLookupResult`, `ByLiteralResult`, then the address, the
  range, the mask, the entry, `ParseTextResult`. Each says of one function of the
  parser which ranges and errors it may add: `AddressResults`,
  `RangeResults`, `Added`. What is added in a loop is by induction on the
  number of elements (`InTurnKeeps`, `InTurnSome` and `InTurnCounts`).
- `SessionTypeCorrect`: `[]SessionTypeOK`. The setters keep it by themselves; of a
  validator it must be shown that a default, parsed, printed and given
  to the setters, leaves a parser with texts for defaults and a port of 16 bits
  (`WithDefaultType`, `ConfigureType`).
- `NoEntryLost`: `[]EntriesSettled`; `PortsFollowPolicy`: `[]PortPolicy`; both are
  what `Added` says, for every entry.
- `VerdictIsFresh`: `[]VerdictFresh`. Since `validate()` clears the errors, those there
  are after it are those of the value, and `ErrorsOfEntries` says that these are
  not zero exactly when one of the entries has one: errors of entries are added, and
  without an exception no entry is left out (`InTurnErrors`, by induction).
- `OneAddressReturned`: `[]SingleAddress`. An IP is looked up once for each kind of
  socket (`LiteralEntry`, `LiteralText`), and of three answers one is for TCP
  (`OneIsKept`). Unless TCP or UDP is asked for, the answers of any text come in threes
  (`InThrees`), so that one is never left but by `KeepTcp`: that one is for TCP, and
  there is none with a protocol for which nothing is taken out.
- `Ipv4MasksFit`: `[]Ipv4MaskFits`. A text with nothing of an IPv6 is taken for the
  syntax of IPv6 only for a reason which gives it no IPv4 (`ColonsNotJoined`,
  `DefaultIsIpv6`, `Syntax6HasNoIpv4`), and with the other syntax a mask is out
  of 32 bits (`EntryMasksFit`).
- `PrintedIsReadBack`: `[]PrintedReadsBack`, for every address, port and mask and every
  mode which shows all of the address. `PrintedIsRead` puts together the parts of the
  printed text, which the parser cuts where they were joined (`Joined`, `CutAt`,
  `SquaresAreRead`): the address and its port (`IsReadWhole`: `Ipv4IsRead`,
  `Ipv6IsRead`, `BareIpv6IsRead`), and the mask (`IsReadTail`), as a number
  (`SizeIsRead`) or as an address (`Ipv4MaskIsRead`, `Ipv6MaskIsRead`). For the last, any
  set of bits is that of exactly the IP which is printed for it (`BitsExist`, by
  induction on the bits, `IpOfBits`, `Ipv4MaskBits`).

**ParserMerge**, for any width, any set of entries and any length of the input.

- `StrictWeakOrders`: on defined ranges `operator <` and the family comparisons
  are irreflexive, transitive and have a transitive equivalence, which
  `std::stable_sort()` needs for its behaviour to be defined at all.
- `TypeCorrect`; `NoAddressIsLost`: `[]CoverageKept`, from `UnionExact` (a union
  which is not empty has the addresses of both ranges and no other).
- `OnePassIsEnough`: `[]MergedApart`. `Ascending` says that merging keeps the
  ranges in the order of the sort, although the union is a larger range;
  `PassedApart` that the ranges behind `idx` are apart from all the following
  ones, not only from the next. Neither is inductive without the other.
- `ResultIsOrdered`: `[]Ordered`.
- `InputOrderIsKept`: `[]OrderKept`. Without the full sort and the merge, what
  `parse()` returns is a permutation of the entries which keeps the order they have
  within each group: `Collected` says that the result is the entries until it is
  sorted, and each sort gives the permutation.

**OptimizeVector**, for any width, any networks and any size of the vector.

- `TypeCorrect`. `Loops` adds to the types that `i < j`, that both are inside of
  the vector when it is read, and that `ra` is the whole network of `v[i]`.
- `NetworksAreKept`: `[]OnlyIncludedRemoved`, thrown calls included. The heart
  of it is `UnionOfBlocks`: when the union of two networks is the whole network
  of its lower bound, it is one of the two. So `v[i]` never becomes
  larger than a network the caller gave, and two halves are never put together.
- `NoLaterNetworkIncludes`: `[]NoneIncludedInLater`. `PassedNotIncluded` says it of
  the part of the vector the two loops went over: a pair of networks is kept
  only when neither includes the other (`KeepMeans`), and the inner loop,
  which does not start again after `v[i]` grew, need not: the networks it went past
  did not include the smaller `v[i]`, nor do they include the larger one.
- `LargestFirstIsEnough`: `[]NoneIncludedWhenLargestFirst`. With the larger
  networks first, `v[i]` does not grow (`AbsorbKeepsLargest`), so that nothing it was
  compared with is included in it afterwards (`PassedIncludesNone`). This is
  where the proof of the general statement, `NoneIncluded`, would fail, and it is
  false: see section 5.

**RangeAlgebra**, for any width, any addresses, limits and length of the vector.

- `TypeCorrect`.
- `AlgebraIsRight`: `[]AlgebraRight`. The distance of two addresses is right at both
  ends of the space although it wraps (`Remainder`, `DistanceValue`); `size()` counts
  the addresses (`SizeValue`); the bits `to_cidr()` takes for those of the host are the
  lowest ones (`HostBitsAreLowest`), what it returns is a network of exactly
  this range (`CidrIsNetwork`), and it finds every network (`NetworkHasCidr`);
  an intersection has the addresses which both ranges have.
- `EveryAddressIsGiven`: `[]AddressesExact`. `Added` says what the result is at each
  step: the addresses of the ranges before `i`, then those of range `i` before `a`
  (`Adding`); and that no range before `i` is larger than the limit. That last
  part is what makes the two tests enough: the total is computed modulo
  the width of a size, and does not wrap once each range is below the limit
  (`SizeOfFirstCounts`, `TotalCounts`).

**NetworkType**, for any threads, any owners and any IPs.

- `TypeCorrect`, with the invariant `Defined`: past the test the type of the
  address is defined, and nobody makes the shared one UNDEFINED again.
- `SharedIsRight`, from `SharedInv`: the type of the shared address is UNDEFINED,
  right, or UNKNOWN, and the last only while some thread has still to classify
  it. That thread is the reason why the wrong value cannot stay.
- `WrongAnswersAreUnknown` and `OwnAnswersAreRight`, from `OwnInv`, which says
  the same of a copy with `suspect` in the place of that thread.

**StreamInfo**, for any streams, modes, separators and heap.

- `TypeCorrect` and `OwnedOnceAlways`, from `IInv`, which is both together:
  `copyfmt_event` makes one copy only because the callback is never registered
  twice, and that is so because a stream has it exactly when it has an object.
- `Refinement`: `StreamInfo` implements `StreamFlags`. What each step does to
  `FlagsOf(s)` of every stream is a lemma per action, which needs that no two
  streams have the same object.

**UnixAddress**, for any size of `sun_path`, any bytes, names, structures and URIs.

- The invariant is `Held /\ SocketOfBound /\ Types`. `Held` says that the buffer is
  `Addressed`: all zeroes, or exactly the bytes of a name, and a name is a path
  which `verify_path()` accepts and gives back unchanged (`IsName`).
  `SocketOfBound` says that the name the kernel has is that of such a buffer.
- The heart of it is `CanonicalPath`: what `verify_path()` returns, it returns
  again, also when two "/" are put before it. This is by induction on the
  bytes of the path: what is kept are its segments (`SqueezedSegments`), and segments
  are kept as they are (`SegmentsAreKept`).
- `ComesBack`: `[]RoundTrips`. `SetUnHolds` and `ReceivedBound` for the socket,
  `UriParts` and `UriHolds` for the URI: the first "?" is the one `to_uri()` wrote.
- `TypeCorrect` and `AlwaysTerminated`: `[]TypeOK` and `[]Terminated`.
- `ThrowingChangesNothing`: each call has an `Outcome`, it throws and changes
  nothing, or gives an `Addressed` buffer, or keeps the one it had.
- `NoByteIsStale`: `FileBytes` and `AbstractBytes` say what each of the bytes is
  after a call, with no mention of what it was before.
- `OnlyOwnFileUnlinked`.

Only model checked: the liveness properties `ParseReturns`, `OptimizeReturns` and
`SharedSettles`, which are out of the prover's reach. Each of the other properties a
passing run checks is stated by a theorem.


## 5. Where the code differs from what it says

Three of these are runs which end with a counterexample:

1. `iface_reset`: a thread which read the kernel before a reset publishes its
   list after it; the thread which made the reset is then served the old list
   for a whole TTL, although `iface.cpp:109-110` says what it loads is fresh.
2. `parser_matches`: merging a network with a range keeps the network's own
   address as a bound; what its mask matched no longer matches
   (`addr_parser.cpp:1006-1008`).
3. `network_moved`: `++`, `--` and `apply_mask()` do not call
   `address_changed()`: after `10.255.255.255` was asked for its type, `++` makes
   it `11.0.0.0` which still answers PRIVATE (`addr.cpp:1474-1475`, `2718-2720`).

The others are stated by a definition next to the properties, which TLC finds
violated when it is added to a configuration, and by no run:

- `NoTtlRace`: `set_local_addresses_cache_ttl()` is documented as thread
  safe (`iface.cpp:420`) and writes a plain integer without the mutex.
- `NoPlaceholderAnswered` with `ClockCanStepBack = TRUE`: when the clock goes back
  while a thread is reading the kernel, another thread takes the empty vector
  for a valid list.
- `MasksIgnored`: `union_if_possible()` says that it ignores the masks
  (`addr_range.cpp:702`), and throws because of them.
- `NoneIncluded`: a network which grew is not compared again with those it was
  compared with before, so `10.0.0.0/25, 10.0.1.0/24, 10.0.0.0/16` keeps
  `10.0.1.0/24` next to `10.0.0.0/16` (`addr_range.cpp:1056-1057`).
- `EmptySizeIsZero`: the size of an empty range is said to be 0
  (`addr_range.cpp:630`) and is computed like that of any other (`648`).
- `EveryNameListed`: the pairs of names and indexes are said to be complete
  (`iface.cpp:188`), and the search stops at the first index without a name (`203`).
- `DefaultMaskUsed`: a default IPv6 mask given as a number is not used.
- `NoPortUnlessAllowed`: with `ADDRESS_LOOKUP`, the port of a text such as `db:5`, whose
  name has no `.`, is taken although no port is allowed and "even just a ':' is no
  allowed" (`addr_parser.cpp:1499`).
- `AnyProtocolAnswered`: `set_protocol()` accepts "ip" (`addr_parser.cpp:558`, `591`), and
  `string_to_addr()` takes such a protocol (`2237`). Its lookup has three answers for an
  address, none of which is taken out (`2252`), so that it always throws (`2270`).
- `SchemesSupported`: `set_uri()` refuses schemes with a digit, `+`, `-` or `.`,
  which its own message says it supports.

Seen in the code while modelling, and part of the models where they matter:
`route.cpp:312` reads hexadecimal flags as decimal; `find_default_route()`
also takes `0.0.0.0/1` for the default route; `find_addr_interface()` goes
through a null pointer when `getifaddrs()` fails (`iface.cpp:606`);
`to_addresses()` does not end on a range which ends with the very last address
(`addr_range.cpp:462`); `get_port_name()` makes a string of a null pointer for a port
without a name (`addr.cpp:2118`); a mask behind a name with a `:` where no port is
allowed, as in `db:5/1`, is taken out of 128 bits although the name has an IPv4, which
the comment on `parse_mask()` admits (`addr_parser.cpp:1935`) and `IsIpv4Entry` leaves
out; a validator's default with an IPv4 mask sets the IPv6 one, as the size of a mask
is out of 128.


## 6. What is left to do

`ParserSession` followed by `ParserMerge` in one machine, once bounds can be
found for which both are interesting.


## 7. Not modelled

- *Sockets of an IP address*: `create()`, `connect()`, `bind()`, the wrappers of
  `sendto()` and `recvfrom()`, `set_from_socket()` of `addr`. Each is a system
  call with its error, with no state between two calls.
- *`get_name()`, `get_service()`, `is_lan()`, `is_wan()`, `to_string()` of a
  range*: a lookup, a test, or a text made of the one `AddrText` has.
- *The characters of an address*: which words are an IP is a constant; the text
  of an error is left out and errors are counted.
- *Writes to the vector of interfaces*: all callers share it and it is not
  `const`; no function of the library writes to it, except for the network type
  `NetworkType` is about.
- *Allocation failures*, apart from the ones of `to_addresses()`.
- *Version, exceptions and tools*: constants, declarations and printing.
