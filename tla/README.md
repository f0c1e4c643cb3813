# A verification of kafs-utils

kafs-utils is a set of AFS administration tools in Python (`bos`, `pts`, `vos`)
on top of a C library that makes RxRPC calls through the kernel's AF_RXRPC
sockets, and of a compiler, `rxgen`, that turns interface descriptions into the
marshalling code between the two. This directory holds TLA+ models of it, the
TLC configurations that check them, and proofs that TLAPS checks.

To run a check: `tlc -config RxSend_requests.cfg RxSend`; to check the proofs of
a module: `tlapm RxSendProofs.tla`. PROJECT.json lists every run, what each
definition models, the hazards and what is proved.

## Inventory

| Component | Source | State it keeps | Operations | Modelled in |
|---|---|---|---|---|
| Call engine | `af_rxrpc.c`, `rxgen.h` | per call: `state`, the chain of buffers, `data_start/cursor/stop/count`, `need_size`, `phase`, `bulk_*`, `blob_*`, `more_send/recv`, `known_to_kernel`, error | allocate, marshal, send, receive, decode, abort, terminate | RxSend, RxRecv |
| Value marshalling | `py_rxgen.c`, `rxgen/emit_py_types.py` | Python objects, each with a raw structure and a cache of what stands for its members | integers, strings, arrays, structures both ways | PyStruct (partly), RxRecv |
| Generated decoders and wrappers | `rxgen/emit_py_sync_funcs.{pm,py}` | the decoder's `phase` and its local `count` | one wrapper and one decoder per RPC | RxgenCode, RxRecv, SplitCall |
| Split-mode calls | `py_rxsplit.c`, `bos/getlog.py`, `bos/install.py` | `split_state`, the handler's `state`, `target`, `receiving_data` | transmit, receive, `send()`, `begin_recv()`, `will_recv_all()` | SplitCall |
| Connections | `py_rxconn.c` | a socket | open, close | no |
| C stubs generator | `rxgen/emit_c_sync_funcs.{pm,py}` | none; its output is not linked into anything | emit senders and decoders | RxgenCode |
| Interface compiler | `rxgen/*.py` (a port of the Perl beside it) | the context: constants, types, structures, functions, abort codes | parse, emit | RxgenTypes, Rxgen |
| Interface descriptions | `rpc-api/*.xg` | none | data | no |
| Protection cache | `suite/lib/prcache.py` | `name2id`, `id2name`, what is to be looked up, groups and their expansions | look up, evict, expand | PtsAdmin, GroupExpand |
| Cells and servers | `suite/lib/cell.py`, `server.py`, `addrcache.py` ... | VL servers, the PT server in use and its index | find servers, open, call with failover | PtsAdmin (failover) |
| Volume creation | `suite/commands/vos/create.py` | transaction, volume IDs | nine RPCs on two servers, cleanup | VosCreate |
| Command dispatch | `suite/main.py`, `argparse.py`, `help.py` | the words' places in the command's arguments | find the command, parse words into parameters, exit status | CommandLine |
| Shell completion | `suite/bash-comp-helper.py` | none | what to offer for a word | Completion |
| bos commands | `suite/commands/bos/*` | the item, the list read so far, whether an error occurred | enumerate, change, control, wait | BosAdmin |
| pts commands | `suite/commands/pts/*` | the item, what is to be shown | resolve, change, list, evict | PtsAdmin |
| vos commands | `suite/commands/vos/*` | none | one call, print | no (but create) |
| Peripherals | `afsdns.py`, `kafs.c` ... | none | pure I/O | no |

How they interact. `main.py` finds the command's module and has `argparse.py`
distribute the words. A command gets connections from its cell and calls a
generated wrapper; the `pts` commands go through the name cache and through
`call_pt_server`, which moves on to the next server on failure. The wrapper folds
Python objects back into raw structures, marshals the parameters into the call's
chain of buffers, `rxrpc_send_data` drains the chain into the socket,
`rxrpc_run_sync_call` polls the socket and lets `rxrpc_recv_data` chain what
arrives, and this calls the operation's decoder whenever there are at least
`need_size` bytes. The decoder returns 1 for "not enough yet", 0 for "done" and
-1 for failure, and resumes in the phase it returned from. In a split call the
decoder's and the wrapper's last phase is a Python object that calls back into
the engine. A command runs on one thread; the kernel, the servers and other
administrators are the other actors.

What is hard in it: a decoder that must resume anywhere; data that comes in any
messages; the abort or error that may come instead; two pieces of code that each
decide whether there is enough data; buffers shared by marshaller, sender and
receiver; handlers driven by callbacks; several RPCs that together make one
operation, with answers that get lost; lists read one index at a time while they
change; a cache in two directions; objects with a raw and a cached form; several
emitters that each derive the wire format from a type; two parsers of one
grammar. PROJECT.json lists the hazards with their lines.

What makes each component correct:

- *Sending*: the request reaches the kernel whole, once, in order, and is closed
  with its last byte.
- *Receiving*: no byte is decoded twice, skipped or decoded before it is there;
  the caller learns of exactly one outcome, and of success only for a whole reply;
  the call ends; no buffer is lost.
- *Split calls*: a transfer that is reported complete is complete; every call ends.
- *Volume creation*: success means a usable volume, failure leaves nothing behind
  but for stated reasons.
- *Group expansion*: exact, and it ends, whatever the groups contain.
- *pts*: a call is made for the entry that was named; the two directions of the
  cache agree; the exit code tells the truth; the command ends.
- *bos*: a listing shows what was there; the exit code tells the truth; what was
  waited for has stopped.
- *Compiler*: a name keeps its meaning; nothing is used before it is emitted; sizes
  and words agree in all emitters; an abort is turned into its exception.
- *Objects*: what is sent is what Python is shown; looking changes nothing.
- *Command line*: the command named runs, every word is used once and as the manual
  says; completion sees the line as the parser does.

## The models

### The call engine

Bytes are numbered from 0 in the order they are marshalled or arrive, every
pointer of `struct rx_call` is the number of the byte it points at, and a buffer
is named by the number of its first byte. Data has no other content.

**RequestStream** is the abstract promise of the sending half: a stream that is
sent in order and closed at most once, with its last byte. **RxSend** is the
sending half: `EncodeByte` and, if no memory is left, `EncodeFails` are
`rxrpc_enc_blob`, `SendData` the caller's
`rxrpc_post_enc` and entry into `rxrpc_send_data`, and the loops of that function
are the actions `SendMsg`, `SendMsgFails`, `OfferEmptyQueue` (an `abort()`),
`FreeSent`, `SendRest`, `ReturnForMore` and `ReturnRequestSent`. A split handler
may send with nothing new to send, and the server may abort between two sends.
`StreamSpec` says RxSend implements RequestStream.

**ReplyStream** is the promise of the receiving half: consumed in order, never
ahead of what has arrived, settled once, as a success only when all is consumed.
**RxRecv** is the receiving half. `ReceiveData`, `ReceiveEnd`, `ReceiveFailure`
and `ReceiveError` are what `recvmsg()` may bring, each with the whole of the code
between `recvmsg()` and the state machine; `WaitForData`, `CallDecoder`,
`SwitchFinished` and `DiscardExcess` are the state machine; the phases of a
generated decoder (`Enter...`, `CheckPhase`, `EndFlat`, `EndItem`) are data, a
sequence of flat, bulk, string and opaque phases, so that one model stands for all
decoders; `SkipOpaque` is what they do to opaque data, `DecoderFails` their return of -1; `DecodeWord`, `DecodeSlow`, `DecodeBlob`, `DecodeString`, `ReadOn`,
`NextBuffer` and `OutOfData` take data off the chain. `pc = "dead"` is an
`abort()`. `pc = "astray"` is undefined behaviour (a copy from beyond a buffer, a
write through a null pointer), and nothing is claimed of what follows it.
**RxRecvMC** has the shapes of reply that the interfaces have.

**SplitCall** is a split-mode call with the two handlers there are. Buffers are
the business of the other two modules; it keeps the state that engine, generated
code, `py_rxsplit.c` and handler share.

### The compiler and what it emits

**RxgenTypes** has the type objects of `rxgen_bits.py` as records: how a
declaration derives one from another, what predicates the emitters ask, and which
members and parameters they cannot make code for. **Rxgen** is the compiler's
context: a step is one production of the grammar with its semantic action
(`ConstantDef`, `ErrorCodes`, `EnumDef`, `AddTypeAlias`, ...), with the complaint
that lets compilation go on or the exception that stops it, and then one turn of a
loop that emits structures, functions and the abort table. **RxgenCode** is what is emitted
for one function, and how that runs: the Python wrapper or the C stub encodes
word by word; the parameters are divided into phases and one of the three decoders
takes words off the wire; and the names that C senders and decoders declare and
use are compared. It is where the two sides and the two languages, each with an
emitter of its own, have to agree; RxRecv is about the same phases as data arrive
in pieces. **PyStruct** is one Python object of a structure with an array of
integers, a structure and an array of structures: a heap of lists and objects that
Python code may share, the raw structure, the cache, the getters, `Set` and the
folding back in `py_premarshal_*`.

### The commands

**CommandLine** goes from words to a command: `Lookup` of an abbreviated name in
whatever order the directory lists the modules, the alias, the distribution of words
over arguments by switch or by position (one action per branch of the parser),
missing and incompatible arguments, the cell's default, the run and the exit
status. **Completion** is what `bash-comp-helper.py` offers, composed with
CommandLine by reading the same words.

**PtsAdmin** is one run of any `pts` command. The commands share a shape, so each
is a record of its tests, evictions and except clauses, next to its lines in the
map. The cache is as in `prcache.py`: names and IDs to look up are collected and
asked for in one batch. `NotCarriedOut`, `AnswerLost` and `GiveUpServer` are
`call_pt_server`: a call that fails, or whose answer is lost, is repeated on the
next server, and never goes back to an earlier one. `Rival` is another
administrator. **BosAdmin** is one run of any `bos` command but getlog, install and
salvage, again with one record per command: enumeration by index, one call per item,
`-all`, `-wait`, and `status` with its three calls per instance. The hosts of `addhost`
and `removehost` are what `get_vlservers` makes of the words. `Settle` is a
server process that starts or stops as it is to.

**GroupExpand** is `pts membership -expandgroups`: looking up, loading, and the
recursive `pr_group.expand` as a machine with an explicit stack of activations, so
that every order of iteration over a Python set is covered. A request may be for a
group or for a user; `Displayed` is what is printed of it.

**VosCreate** is `vos create`, one action per RPC, for several administrators at a
time. Any RPC may be refused, or carried out without the answer arriving, and either
may be by a control-C: `Handlers` says which except clause an error or a
KeyboardInterrupt leads to, if to any.

The VL, volume, protection and BOS servers are not in the repository, and of them
only what the commands rely on is modelled; those definitions are marked external
in the map. Other abstractions that matter: one call per connection (a message for
a call that has been terminated is not modelled); marshalling is byte by byte;
`errno` is not modelled; a count or a length that is read from the wrong place is
any number; a word on a command line is what the parser tells apart of it.

## The runs

| Run | Module | Question | Bounds |
|---|---|---|---|
| send | RxSend | does every request reach the kernel whole, once, in order | 11 bytes in buffers of 3, two to a `sendmsg()`: chains of four buffers, two turns of the loop, full and partly filled tails |
| recv | RxRecvMC | is every reply decoded right, and does the call return | words of 2, buffers of 4, four to a `recvmsg()`, seven decoders, two of them with opaque data, up to 3 items, messages of 1 to 3 words, replies a word short to 3 words long, every fault |
| recv_stale_count | RxRecvMC | the stale count below | the smallest that shows it |
| split_transfer | SplitCall | is a finished transfer complete, does every call end | files of 0 to 3 blocks, logs of 0, 1 and 5 bytes asked for 2 at a time, last messages with and without data, aborts at any point |
| vos_create | VosCreate | what do success and failure leave behind | two clients, equal or different names, two faults |
| groups | GroupExpandMC | are expansions sound and complete, do they end | all databases of three groups and a user, one group denied or none |
| pts | PtsAdminMC | names, cache, exit code, termination | two names, two IDs, two servers, two changes by others, every command, up to 4 items |
| bos | BosAdminMC | listings, exit code, waiting | three entries, up to 3 items, two changes by others, every command |
| rxgen | RxgenMC | abort table, order, sizes, names | up to six definitions in two files, one alphabet of codes and one of types, words of 16 values |
| rxgen_code | RxgenCodeMC | do encoders, decoders and declarations agree | all functions of up to three parameters of every kind, values empty, of two items and beyond the maximum |
| pystruct | PyStruct | is what is shown what is sent | arrays of two integers and of one structure, three heap objects, lists of up to three, three changes |
| command_line | CommandLineMC | right command, right argument, completion agrees | lines of up to three words, arguments of every sort in the orders the commands have them |

Why these bounds are enough. The engine's arithmetic is about the position of a
byte in its buffer and the number of buffers in the chain compared with what one
system call takes; each run has a message or a send for every such position, with
zero, one and several whole buffers before and after. Two groups are enough for a
loop and three for a loop that is entered from outside. Two faults let a step and
its cleanup both fail; two changes by others let an entry be taken out and put
back, or a name be moved from one entry to another. Two servers are a first and a last.
Six definitions are enough to define a name, use it in a structure, redefine it
and use it again; the abort table needs three codes for both branches of the binary search,
one of them negative for the order of signed and unsigned words. Three parameters put one flat
phase before and after a bulk one. Three words are a command's name or a switch
with a value on either side of another. Each property has a mutant in PROJECT.json,
a plausible slip in the code, that the same run finds.

Fairness. RxRecv's `CallReturns` assumes that the thread, alone and in system calls
that return, goes on, and that the kernel eventually delivers something for a call
it knows of: AF_RXRPC ends a call that hears nothing from its server with an
error, and the client itself polls without a timeout. SplitCall's `CallEnds`
assumes the same. `Ends` of GroupExpand and of PtsAdmin assume that the program
runs. No fairness is assumed of other administrators or of faults. That a `bos`
command ends is not checked: it makes one call after another, and with `-wait` it
waits, rightly, as long as the server's processes take. Runs of programs that end
allow deadlock.

## What the models show of the code

In nine places the code does not do what it says of itself, in a comment, a help
text or its output. One of them has a run, *recv_stale_count*; for the others there
is a configuration beside the runs, of one property that says what was promised, and
TLC finds it violated:

| Configuration | Module | Property |
|---|---|---|
| RxRecv_stale_count.cfg (the run) | RxRecvMC | `NeverDies` |
| RxSend_short.cfg | RxSend | `NothingSkipped` |
| SplitCall_empty.cfg | SplitCall | `SettlesForNothing` |
| RxgenCode_opaque.cfg | RxgenCodeMC | `OpaqueTaken` |
| VosCreate_interrupted.cfg | VosCreate | `CleanedUp` |
| GroupExpand_user_extra.cfg | GroupExpandMC | `UserIsInThem` |
| GroupExpand_user_missing.cfg | GroupExpandMC | `AllGroupsOfUser` |
| PtsAdmin_createuser_id.cfg | PtsAdminMC | `UserGetsId` |
| BosAdmin_hosts.cfg | BosAdminMC | `EveryHostServed` |

The other points of the lists are exceptions that a passing property names, or are
excluded by a constant.

The engine:

- The decoder compares the next phase's size with the count noted before the
  previous phase was decoded; a message that ends there makes it decode what has not
  arrived, and `rxrpc_dec_slow` aborts the process (`NeverDies`).
- A string whose length is a multiple of 4 is taken to be padded by 4 bytes
  (`py_rxgen.c:1205`); the encoder adds none. The decoder then reads a word too many,
  which at the end of a reply kills the client. What `VerdictRight` says of the
  length of the reply is therefore under the condition `KeepsPlace`.
- `py_dec_init_opaque` returns 0, "nothing to do", when it has set up a decode
  (`py_rxgen.c:1138`): the Python decoders leave the words of opaque data where they
  are, and read the next parameter from them (`OpaqueTaken`). `ka.xg` and `fs.xg`
  have such replies, so that `KeepsPlace` excludes them too, and the properties of
  RxgenCode have `SkipsOpaque` as an exception.
- With neither, two things kill the client (`DeathsExplained`): the
  stale count, and a string of which the end has not arrived when its first part has.
- After a message that ends inside a word `data_stop - data_cursor` is negative and
  used as an unsigned. The run's messages end at words; with `Chunks = {7}` RxRecv
  goes astray.
- An empty last message of a split reply is an endless loop (`SettlesForNothing`): the
  decoder returns 1 for want of data and is called again, since a split call
  "is willing to settle for nothing also". `CallEnds` names this exception
  (`NothingToSettleFor`), and no other.
- `receive()` of `bos install` has one parameter too many.
- After a partial `sendmsg()` a buffer is freed with unsent data (`NothingSkipped`). The
  run *send* has `ShortSends = FALSE`.
- A send with nothing new after one that filled the last buffer aborts the process
  (`OnlyEmptySendsDie`), and so does `bos install` of an empty file
  (`OnlyEmptyFileDies`).
- Buffers set up for a `recvmsg()` that fails or brings no data are never freed (the
  history variable `lost` of RxRecv; `DataLosesNothing` is the other half).

The compiler and its output:

- After a syntax error the files are written all the same (`rxgen.py:629`, where
  641-645 stop for other errors). An enum or a structure hides an alias of its
  name without complaint (`NameKeepsMeaning`).
- The Python decoders shift both halves of a 64-bit integer into the upper word
  (`emit_py_sync_funcs.py:702`, `DecodedAsSent`).
- The C stubs send the low word of a 64-bit integer first (`emit_c_sync_funcs.py:503`)
  and a string without its length (508; `RequestIsXdr`). The decoder of an array of
  integers calls `alloc__` where the prototype declares `store__` (296), the
  sender of an array of 64-bit integers uses an undeclared name (526;
  `StubCompiles`).
- The Python wrapper does not check the maximum length of an array
  (`emit_py_sync_funcs.py:375`).
- An object with an array of structures that nobody has looked at cannot be sent
  (`py_rxgen.c:591`, `RefusedForCause`).

The commands:

- Expansions of groups that contain each other stay incomplete (the condition of
  `AcyclicIsComplete`).
- What `pts membership -expandgroups` prints of a user as the groups "is a member of"
  are the groups of the user and all groups in them: too many, for the user is not in
  a group because that is in one of the user's (`UserIsInThem`), and too few, for
  the groups that the user's groups are in are missing (`AllGroupsOfUser`).
- `pts createuser -id` passes the ID as the flag of `PR_NewEntry`, and says that the
  user has it (`UserGetsId`). `ExitTellsTruth` asks of such a user only that
  it has been made (`NumberIgnored`, `Entered`).
- `bos addhost` and `removehost` of several hosts act on the first, once for each
  (`argparse.py:39`; `EveryHostServed`). `ExitTellsTruth` of BosAdmin excepts the others
  (`HostsMissed`).
- A control-C in `vos create` after the volume was made goes past `except Exception`
  and its cleanup (`CleanedUp`); `LeftoverExplained` lists it among the reasons.
- If only the answer to `VL_CreateEntryN` is lost, `vos create` deletes a volume
  that has an entry (`DanglingEntryExplained`).
- After a lost answer the call that `call_pt_server` repeats is refused, and `pts`
  reports a failure of what has been done (`ExitTellsTruth`). If another
  administrator renames an entry meanwhile, `pts delete` raises a KeyError after it
  has deleted it (`MapsAgree`).
- A listing by index can miss an entry when another is taken out (`ListingExplained`).
- `argparse.py:196` compares an argument's name with `"r"`, so that a command without words is
  not told what it lacks; an empty word raises an IndexError, a word that does
  not fit the last place an UnboundLocalError; a required argument behind an
  optional one is not asked for (`ManualHolds` states what does hold).
- The completion helper takes negative numbers for switches and two required
  arguments of several words (`pts adduser`) for one, and prints a Python list where
  it means one switch (`HelperAgrees`, `Offer`).

## The proofs

Each theorem is about every value of the constants that its module's assumptions
allow. Each module proves an invariant that is inductive, one lemma per action or per
conjunct, and derives the properties; the invariants were first checked by TLC.
Every invariant and every action property of the passing runs is proved, and so are
the two refinements: what is only model-checked is liveness. Where a module of proofs
is about two components it extends both, and their state and actions have names of
their own (`ObjectSpec`, `CallSpec`, `LineSpec`).

**RxSendProofs**: the sending half, for every buffer size, every length of `iov[]`
and every request, under the assumption that `sendmsg()` takes all it is offered
(`~ShortSends`): type correctness, `CountsAgree`, `NothingSkipped`,
`WaitsForWholeRequest`, `NothingAfterEnd`, `OnlyEmptySendsDie`, and that RxSend
implements RequestStream. None of them is inductive: the freeing loop frees whole
buffers by a count of bytes, and nothing in the counters says that the bytes sent
end where a buffer does. `IInv` adds what does: the head of the chain is a whole
number of buffers before the tail (`Chain`), so that a full `sendmsg()` ends at the
last byte or at a boundary (lemma `OfferSpan`), and in the loop the position of the
first unsent byte is the head plus `io_cursor` plus what is left of the result
(`Position`). `Closing` relates the end of the request to what has been sent, and
`Control` the thread's position to the call's state.

**RxRecvProofs**: the receiving half, for every decoder (any sequence of flat, bulk,
string and opaque phases with a flat one before each of the others), every reply and every
buffer size, whether or not a decoder fails: type correctness, `CountsAgree`, `VerdictRight`, `DeathsExplained`,
`DataLosesNothing`, and that RxRecv implements ReplyStream. The hypothesis is `WholeWords`: packets hold, and replies are
short or long by, whole words, as XDR encodes everything in whole words. The run's
constants satisfy it; without it the invariant is false, since the unsigned
difference above goes astray. The parts of `Inv` are the chain and its counters
(`ChainInv`), that buffers and messages end between words (`WordsInv`, `CursorInv`),
which state of the call goes with which place in the code (`ControlInv`,
`VerdictInv`), what the decoder knows of the item it is at (`ItemInv`), and where in
the reply it is (`TrackInv`): its phase, its item and the words left determine the
position of the cursor in the reply's `Layout`. This is what a decoder that
returns for want of data and resumes has to keep, and it holds only if strings are
padded as it expects and no opaque data come in between (`KeepsPlace`). `Layout` is a recursive function; that there is one is shown by building it phase by
phase (`RunningTotal`), and that it grows by induction on the phases.

**PyProofs**, objects: `SendsWhatIsShown`, `RefusedForCause` and
`LookingChangesNothing`, for all lengths and widths of arrays and any number of
objects, lists and changes; the bounds of the run are not used. `Sound` is the
invariant: what is cached is there and of the kind its place asks for, and an array
of structures refers to objects that exist. It has to hold half-way through a
marshalling too, since one that fails leaves what it has folded so far. Folding an object
writes into raw structures that other objects may share; what makes it harmless is
that it changes only what something cached hides (`Alike` of two heaps, `Keeps` of
two states), so that each of the three folds shows what was shown before it, and
what is folded is what is shown (`StructFolds`, `IntsFold`, `StructsFold`). The
array of structures that is looked at for the first time is the exception that the
property names.

**PyProofs**, split calls: `WholeTransfer` and `OnlyEmptyFileDies`, for every file
and log and block size, and that `begin_recv()` never asks for more than has arrived.
`SplitInv` ties the handler's `state` to the engine's (`Places`, `Switches`), and
accounts for each byte: arrived, asked for, taken and written (`Amounts`,
`Conserved`, `Buffer`).

**SuiteProofs**, volumes: the three properties of the run and one about open
transactions, for any number of clients, names and faults. `Distinct`: a volume ID
belongs to one client. `Own`: what a client knows of its volume at each step.
`Owners`: an entry is its maker's. With these one client's step disturbs no
other's knowledge. What an interrupted client leaves is traced by the history variable
`interrupted`: past the cleanup only from the body of the try statement, and past the
end of the transaction also from the first call of the cleanup (`OpenTransExplained`).

**SuiteProofs**, command lines: `RightCommand`, `EveryWordUsedOnce`, `ManualHolds`
and `HelperAgrees`, for every command set, every order of its directory, and lines of
any number of words. The hypothesis is that tables of arguments are proper
(`ProperTable`, in `CommandLineAssumption`), as all tables in `suite/commands` are:
names are distinct and not empty, exactly the flags take no words, and no two names before a
third begin with it, for then the third could not be typed even in full. `LineInv`:
the first words are those of the arguments in their places (`PlaceInv`); after them
there are only switches and what follows them, so that a word without a switch comes
up only where no switch has been taken (`FrontInv`); each switch taken has its
group of words (`SwitchInv`); what was found is what was found by place and by switch, as many as
both together, so that nothing was found twice (`ResultInv`); and a line as in the
manual is refused only for a combination (`ExitInv`). For `HelperAgrees` the helper's
two recursive readings of the line are given closed forms. Because every switch
that the parser took has the words it asks for, no switch follows one that takes
words (`TypingSpaced`), and the helper takes each dash for a switch (`CanonIs`); the switch in
force at a word is the last one before it, if that still takes words (`ReadingIs`),
and such a word is in the group the parser gave to it (`AfterSwitch`); words before all
switches go by position in both (`BeforeSwitches`). Proving it showed that `Lookup`
had been a CASE with overlapping guards, which says nothing of the case that both
hold; it is a chain of IFs now, like the code.

**GroupExpandProofs**: `NeverTooMuch`, `AcyclicIsComplete`, that a group is not
entered again within its own expansion, and that nothing is loaded once something is
shown, for any database. The invariant describes a frame of the stack (`FrameOK`:
what has been collected and what is left to be visited together make its
expansion), the stack (a path of memberships without repetition), and what is remembered.
The two properties are about the expansions of groups; of a user they would be false.

**PtsAdminProofs**: `ActsOnNamed`, from `KInv`: what a reply, the cache or a call
holds was in the database at some time, which others cannot undo. `ZeroIsTrue`, the
first half of `ExitTellsTruth`: until an error is noted, every item before the one
at hand is done, or is a user made without the ID it was to have (`Accounted`, `XInv`). `MapsAgree`, from `MInv`: the two maps can come to differ
only if a look-up brings a name or an ID of which the cache holds an old partner. It
asks only for what is not known (`LooksUpUnknown`), and as long as nobody else changes the
database what is known is true (`CacheIsTrue`), but for two cases that end with the
next eviction or with the command: an entry whose deletion was carried out and not
answered (`Gone`), and the old name of one whose change was not (`Moved`). The rest
of `ExitTellsTruth`, from `YInv`: an error comes with an item that was not carried out.

**BosAdminProofs**: `StoppedWhenWaited`. `WInv` says which item each part of
`main()` may be at, that errors show in the exit code, and that each instance
before the item at hand is told to stop or was touched by others; `Wait` then turns
"is to stop" into "has stopped". `ListingExplained`, from `LInv`: an entry that the
enumeration passes without noticing (`Missed`) was moved forward by a removal, one at
most for each, and what was noticed and not touched is at its index or before
(`OnlyForward`), so that it is not met again. This rests on `BosAssumption`, that a
list holds nothing twice at the start. `ExitTellsTruth`, from `EInv`: before the loop
nothing is acknowledged, in it the exit code is zero exactly if all items before
this one are, and that is what the end reports. Items are what the loop is over:
for hosts the first word repeated, which is what was named unless `HostsMissed`.

**RxgenProofs**: `NameKeepsMeaning`, which rests only on how the dictionaries take
keys, and `EmittedBeforeUsed`, for all interface files, erroneous ones included: a
structure is entered into the list only after its members were looked up
(`WasRead`, `InOrder`), and complaints do not change what is in it. `SizesAgree`, from
`SInv`: every type's size is that of the structure it was made from (`SizeFits`),
which has its name for itself (`OwnNames`), so that its encoder, written earlier, is
the one of that size (`Written`); the two sums, of bytes and of words, are compared
by induction on the set of members. `AbortsFound`, from `AInv`: unless there was a
complaint `abort_count` is the number of codes and no code is in two packages
(`Counted`), and each number in `abort_ids` is that of its code (`Indexed`); the
ranks of a finite set of n numbers are 1 to n, so the sorted table has no gap and is
strictly increasing, and the emitted search finds a number in such a table, by
induction on the length of the interval.

**RxgenProofs**, emitted code: `RequestIsXdr`, `PhasesFitWords`, `DecodedAsSent` and
`StubCompiles`, for all functions and values; `RxgenCodeAssumption` says of types only
what the grammar makes of declarations without complaints. `EncInv`: what has been sent is the XDR of the
parameters so far, unless the C stub garbles it. The division into phases is a
recursive function of the parameters; by induction on them the phases have a certain
shape (`Shape`: a bulk or string phase comes right after a flat one that reads its
count, and nothing is read twice) and their words in order are those of the parameters
(`PhasesOf`). `DecodingInv`: the wire is the words of the phases before `at`, of the
items begun, and what is left in `reply`; the counts and the values read so far are
those that were sent. So a decoder never runs short of words and has none left, and what it has
stored is what was sent (`ResultIsValue`). All this is up to the first opaque data that a
Python decoder meets: from there on nothing is claimed (`SkipsOpaque`), and that the
claim would be false is what RxgenCode_opaque.cfg shows. `StubCompiles` is by cases on the
parameters' types.

Inductions over numbers and finite sets are made by least members (lemmas `LeastMember`,
`Least`): the theorems of the library that take an operator as a parameter cannot be
used by the provers at hand. For the same reason a recursive function is shown to
exist by building one, in `RecursionExists` for all recursions over an interval
or from a closed form.

Only model-checked: liveness (`CallReturns`, `CallEnds`, `Ends` of GroupExpand and
PtsAdmin), which is out of the provers' reach. The nine properties
of the table above are false.

## Not modelled

- Connections: straight-line system calls. Interface descriptions: data; the
  shapes of reply and parameter in the runs are taken from them. Peripherals: pure I/O.
- `vos` commands but create: one call and its answer printed.
- Finding servers in DNS and their addresses, and `open_vl_server`.
- The lexer and the C preprocessor that the compiler runs: a definition is read as a
  whole. The Perl compiler: the Python one is its port.
- Strings inside structures and arrays of more than one dimension.
- The server side of `struct rx_call`: nothing in the repository accepts a call.
- Several calls on one connection, and messages for a call that has been
  terminated: it would need what the kernel still delivers after an abort.
- Which words are valid values (numbers, partitions, times), and layout of output. The
  numbers of an interface file are decimal; Rxgen's header says what other spellings
  would do. That `get_vlservers` drops
  words is outside CommandLine, which is about the words each argument gets; it is in
  BosAdmin.
- A control-C in commands other than `vos create`: it ends them between any two of
  their calls, or in one, with status 1.

## Plan

1. `open_vl_server` and the look-up of servers, composed with PtsAdmin's failover.
2. Strings in PyStruct's structures; several calls on one connection.
3. A proof that the phases of RxgenCode are a decoder of RxRecv, so that the two
   theorems about decoding are about the same one.
