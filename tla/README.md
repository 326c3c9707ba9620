# Formal models of BlueDBM

BlueDBM is a cluster of FPGA nodes, each with its own NAND flash, that serve
each other's flash over a network of Aurora serial links.  The hardware is
written in Bluespec: a module is a set of FIFOs, registers and atomic rules; a
rule fires as a whole when its FIFOs are ready.  That maps to TLA+ one to one: a
rule is an action, a FIFO is a bounded sequence, an interface method is an
operator over its module's variables that the calling rule's action uses.
Builds use `-aggressive-conditions` (`controller/artixTop/Makefile`), so only
the FIFOs of the branch a rule takes guard it.

Each host runs a C program with two threads that matter: the main thread, which
issues requests, and the portal thread, which runs one indication handler at a
time.  In these programs a critical section, or an unlocked access to a shared
variable, is an action.

`PROJECT.json` holds the machine-readable side: runs, the source lines behind
every definition, hazards, and for each property a mutated definition (named
`X_...` next to `X`) that the property is able to tell from the code.

## 1. Inventory

| Part | State | Operations | Hard behaviour | What makes it correct |
|---|---|---|---|---|
| **Link gearbox** `src/lib/AuroraGearbox.bsv`, `AuroraExtGearbox.bsv` | packet queues, half-sent and half-received registers, six 16-bit credit counters, control queue | grant a window, send control/high/low, receive, flush, user send/recv | control words between halves; wrapping counters; both directions stall on each other's credits; the receiver cannot be stalled | credits conserved, room for every packet, halves paired, FIFO delivery |
| **Endpoints** `src/lib/AuroraExtEndpoint.bsv` | per-destination budgets, receive queue, shared buffers, ack queue, stride counters | user send/receive, insert ack or data, network in/out | competition for shared buffers, ack before data, head-of-line blocking | accounting per pair, room in recvQ and ackQ, no circular wait, FIFO per flow |
| **Network arbiter** `src/lib/AuroraExtArbiterBar.bsv`, `Merge2.bsv` | lane toggles, merge queues | scatter/collect, route up/down/here | lanes out of step, pass-through traffic blocked | order per pair, progress |
| **Flash splitter** `projects/flash_multinode/FlashSplitter.bsv` | free tag queues, tag table, burst counters, 18 FIFOs | rename, look up, retag, forward acks/requests/data, recycle | tags reused while words of the old owner are in flight | tag conservation, words/acks/data reach their request |
| **flash_multinode** `Main.bsv`, `flash.cpp` | command queue, DMA engines, host tag tables | issue, read words to buffers, DMA write data, acks, five remote classes | local and remote traffic share FIFOs, engines interleave | every request completes, with its own data |
| **Scoreboard** `controller/src/hw_artix/Scoreboard.bsv` | a command queue, stage, timer and status queue per chip | choose chip, service, timers | chips interleaved, stale ready tag, polling retries | ready chips only, queues never full |
| **Bus controller** `BusController.bsv` | bus state, page moved, read tags, acks | decode, read, write, erase, poll | chip cannot be stalled, data and tags in separate queues | no read error, words keep their tag |
| **Flash controller** `FlashController.bsv` | two page buffers per bus, fetch and transfer states | accept, fetch page, move to bus, collect | tokens without tags, fetch handshake | each chip gets its own page, the user's protocol |
| **Flash hosts** `projects/flash_multinode/flash.cpp`, `main.cpp`, and `main.cpp` of `flash_connectal`, `_64bit`, `_tagbufs`, `flash_xbsv`, `flash_strstr_raw/bak/flashaccess.cpp` | three tag tables, counters of requests in flight, block status, page buffers | wait for a tag, erase, write, read, three indications, barriers, tests of one or of all nodes | indications in another thread; checks outside the lock; hosts that share the flash of all nodes | no tag used twice, exact barriers, no page in two requests, a verdict that is right |
| **Portal test programs** `main_kernel.c`, `main_kernel_old.c`, `working_matrix_multiply/main.cpp`, `flash_strstr_raw/test.cpp`, `flashemul/main.cpp` | semaphores, flags, the last answer | send, wait, check, print | answers stored and announced without a lock, flags of an earlier request | what is printed is what was answered; the program ends |
| **String search** `flash_strstr_raw/StrstrBDBM.bsv`, `MPEngineBDBM.bsv` | engines with needle, table, epoch | setup, search, compare, report | requests in flight when a comparison fails; chunks that overlap; two state machines that write one FIFO | each occurrence reported once; setup before search |
| **Page library** `flashemul/main.cpp`, `Interface.bsv` | tag table, page counter; queues of commands and of tags | write, read, flush, indications; take, begin and end a page | broadcast and count outside the mutex; reads that end in any order | a tag has one owner, the program ends |
| **Map-reduce** `simple_mapreduce_platform/platform.cpp`, `BlueDBMPlatform.bsv`, `Mapper.bsv`, `Reducer.bsv` | budget of keys, input queue; contexts of keys in the DRAM, the block of new slots, the registers of the sweep | ask for keys, send, look up, reduce, write a head, finalize, sweep | a counter two threads update without a lock; one read queue for three kinds of reads | keys granted are keys asked for, the end is told, and after the last key |
| **Page interface** `projects/test/flashinterface.cpp`, `main.cpp`, `Main.bsv` | buffers and their flags, command budget; command, throttle and indication queues | wait for a buffer and a command, write, read, indications; grant, take, begin, end | wake-ups lost between two critical sections; fewer flags than buffers | no command beyond the board's queue, the test ends |
| BRAMFIFOVector, AuroraExtImport, DMA/DRAM helpers, PHY, ECC, board tops, remaining programs | | | | see section 7 |

Host -> (Portal) -> Main -> splitter -> flash controller -> bus controller ->
scoreboard; remote commands, write data and replies go splitter -> endpoint ->
arbiter -> gearbox -> link and back the same way.  Parts share no state: they
interact only by the FIFOs named above and by method calls inside a rule.

## 2. Modules

| Module | Models | Uses |
|---|---|---|
| `FifoChannel` | abstract: what a set of one-way routes promises (accepted messages arrive once, in order, and are read); `SafeSpec` is the part of it without fairness | |
| `QueueOps` | counting the words of one kind, with a tag, or in a set, in a queue, and keeping those of a set | |
| `AuroraGearbox` | both ends of a link and the wire between them | `FifoChannel` (refined) |
| `AuroraGearbox_proofs`, `AuroraEndpoint_proofs` | theorems of section 6 on both modules | `QueueLemmas` |
| `QueueLemmas` | lemmas: counts and selections of queues under `Append`, `Tail`, `\o`; items that move from queue to queue; queues along a route with numbered entries; induction with sets; sums over finite sets | `QueueOps` |
| `AuroraEndpoint` | endpoints of one packet type on several nodes, dynamic or static by a constant | `FifoChannel` (refined) |
| `FlashSplitter` | one splitter per node; methods are operators | |
| `FlashCluster` | hosts, Main rules, splitters, controllers (by their interface), network per class | extends `FlashSplitter` |
| `FlashCluster_proofs` | theorems of section 6 on `FlashCluster`: types and tags | `FlashCluster`, `QueueLemmas` |
| `FlashClusterHosts_proofs` | theorems of section 6 on `FlashCluster`: what hosts and controllers are given | `FlashCluster_proofs` |
| `Scoreboard` | scoreboard of one bus | |
| `BusController` | bus controller, NAND chips as it sees them | extends `Scoreboard` |
| `FlashCtrlUser` | abstract: what a controller promises its user | |
| `FlashController` | one bus of the controller with page buffers and a user | extends `BusController`, refines `FlashCtrlUser` |
| `FlashController_proofs` | theorems of section 6 on `FlashController`, and on what its user is promised | `FlashController`, `QueueLemmas`, refines `FlashCtrlUser` |
| `FlashHost` | the flash hosts, their shared flash, and any program as a sequence of steps; `Disciplined`, what a program must keep to | |
| `HostPrograms` | the `main()` of the six programs as such sequences | |
| `FlashHost_proofs` | theorems of section 6 on `FlashHost` | `FlashHost` |
| `Portal` | main thread, portal thread and the two queues to and from a board | |
| `PortalTests` | kernel module tests, matrix program, search tests, I2C set-up | extends `Portal` |
| `StringSearch` | the search accelerator behind the search tests | extends `Portal` |
| `PageTags`, `FlashInterface` | the page library and the page interface, each with its board and its client | extend `Portal` |
| `MapFeed` | the host of the map-reduce and the input queue of its board | extends `Portal` |
| `KeyReducer` | the rest of that board: look-up and reduction of keys, heads, the final sweep | extends `MapFeed` |
| `PortalHosts` | a portal program with its board: the composition of the modules above | extends them |
| `PortalHosts_proofs` | theorems of section 6 on `PortalHosts` | `PortalHosts`, `QueueLemmas` |
| `MC*` | instances for TLC | |

`FlashCluster` uses the controller only through the protocol that
`FlashCtrlUser` states and that `FlashController` is shown to keep; it uses the
network as a FIFO for every class and pair of nodes, which is what
`AuroraEndpoint` is shown to provide over a network that is a FIFO for every
pair.  Names of variables and actions are those of the source, capitalised
where they are actions.

### Abstractions

* **Gearbox.** A packet is a pair of halves; the packet type rides along with
  each half.  `sendQ` and `recvQ` cross clock domains and are plain FIFOs.  The
  Aurora cores are a lossless FIFO `wire` that the receiver must not stall.
* **Endpoints.** The pairs `...Up`, `...Down` of 16-bit registers are read only
  by their difference, which is kept.  `burst` belongs to the user: how far it is
  in a burst of `flowStride` messages; `Contiguous` says whether it ends a burst
  before it begins another.  A node never sends to itself (the arbiter would
  drop it).
* **Splitter.** A BRAM port answers in the order it is asked, so its response
  queue is folded into the FIFO whose items consume the responses.  `lookupQ` is
  `rdataIsLastQ` with the responses of port 0.
* **Cluster.** A page's content is the slot (host, operation, host tag) that
  asked for it.  DMA bursts and padding are folded into word moves; `job` stands
  for `dmaReadReqQ` with `dmaRdReq2RespQ`; `writeWordPipe`, `ackQ`,
  `BRAMFIFOVector` and the debugging delay are left out.  The status of an ack is
  its operation.
* **Controller.** One bus; a 16-bit burst stands for a word of the page; a
  sequence of PHY commands is one action; timers are running (1) or over (0).
  The page register of a chip names the tag whose page it holds.  FIFOs that the
  buses share towards the user keep the order of a bus and are left out.
  Left out too: initialisation (INIT, EN_SYNC, INIT_SYNC), asynchronous
  transfers, POLL_STATUS, the ECC and its error flags, WRITE_ERROR (it depends on
  the rate of the encoder).  Two facts about clocks are kept as order:
  `doWriteFetchWait` fires in the clock it becomes enabled, before another word
  is written, and an ack takes more clocks than the two registers of the ready tag.

* **Flash hosts.** A request to the flash is an element of a set with a stage:
  sent, acted on by the flash, answered; the board and the network may act on and
  answer requests in any order.  A page holds one word, the first, which stands
  for its contents (the model gives every page its own; `hashAddrToData` does so for up to 16 blocks
  of a chip, beyond which `blk<<16` runs into `chip<<20` and two pages may be taken
  for each other unseen).  Only page 0 of a
  block is used.  `readDone` compares the page outside the lock, so it is three
  actions: read the tables, compare, give the tag back.  The 100000 random reads
  are cut to `RandomReads`, and repeated reads to `Repeats`.  The wait for a key
  is an operator who presses it when all nodes ask for one.  A bad block fails
  its erase, and a faulty read returns a wrong page; `MaxFaults` bounds them.
* **Portal programs.** The main thread is a sequence of steps; `at` is where it
  is within the first of them, `handler` where the portal thread is within an
  indication.  A value and its flag are stored and loaded in program order, which
  is what x86 and these compilers do.  `raced` records that an update or a
  wake-up was lost to an unlocked access, `misprinted` that a number was printed
  that is not the one it stands for.  Requests that only hand over buffers at
  start-up (`addDma...Refs`) are left out.  The page test of `platform.cpp` lies
  behind an endless loop (line 147, with a loop of 5 rounds commented out above);
  it is modelled as the client the library was written for.
* **Page library.** The 16-word bursts of a page are folded into its end: pages being
  read end in any order, pages being written one after the other.
* **Map-reduce.** The two values of a key, which nothing looks at, are left out, and
  mapper and reducer are the ones of `Mapper.bsv` and `Reducer.bsv`: every key gives a
  valid pair, every pair adds one to the count of its key.  A DRAM read looks at its
  slot when it is asked for and answers come in order, so that a read may miss a write
  that is made before its answer.  Addresses are numbers of slots.  FIFOs that a
  throttle of one place (`ctxReqIdxQ`, `reduceThrottleQ`, `finalizerThrottleQ`,
  `finalizerSecondThrottleQ`) keeps to one item are that item.
* **Page interface.** The source of data is the host, as `main` says
  (`flashifc_start(1)`); a page takes one step between board and host memory, and
  `bridgeReadPageThrottleQ` and the bridge's free buffers, which are part of the storage
  bridge, are left out.  `dstBufferBusy` has 64 flags for 128 buffers; `program.behind`
  says what lies behind it: spare memory, the flags of the write buffers, or the
  pointers to the buffers, which `flashifc_alloc` then sets to 0.
* **String search.** A byte of the haystack or needle is itself.  The table `mp`
  is computed as `mp.h` does.  The memory readers deliver what they are asked for.
  `setupFSM` and `startFSM` both write `setsearchFIFO`, and nothing in the source says
  whose rules are more urgent; `SetupFirst` is the choice the compiler makes.

## 3. Runs

Every run is exhaustive for its constants.  Mutants run under the same
configurations.

| Run | Instance | Checks |
|---|---|---|
| `gearbox_order` | one sender, two packets without a common half, window 2 in a buffer of 4, counters mod 8 | `TypeOK`, `HalvesAlternate`, refinement `ChannelSpec` with its liveness |
| `gearbox_duplex` | both ends send for ever, FIFOs of one place, window 2 in a buffer of 4; states that differ only in absolute counter values are identified (`VIEW`) | `CreditConservation`, `ReceiverHasRoom`, `HalfKeepsCredit`, `BudgetReturns` |
| `endpoint_flows` | dynamic: two senders, one receiver, qSize 2, stride 3, extra 0 (raised to 3 by the code); static: two nodes in both directions, two messages | `TypeOK`, `PairAccounting`, `RecvQHasRoom`, `AckQHasRoom`, `NoCircularWait`, `ChannelSpec` |
| `endpoint_interleaved` | two senders, two receivers, stride 3 over qSize 1, bursts interleaved; **violated** | `NoCircularWait` |
| `cluster_live` | a host reads from both nodes while the other writes and erases, two tags | `AcksMatch`, `Completes` |
| `cluster_pages` | a read and a write of each of two hosts at one flash with two tags; at most three requests at once (`MaxPending`); two DMA engines | `TagConservation`, `ReadWordsMatch`, `WriteDataMatches` |
| `controller_each` | a writer, and a reader that also erases, on either of two chips | `TypeOK`, refinement `UserSpec`, `Completes` |
| `controller_pages` | three tags that read and write on two chips | `ChipsAreReady`, `QueuesNeverBlock`, `ProgramsOwnPage`, `NoReadError`, `WordsKeepTheirTag` |
| `host_programs` | all six programs: the single-node ones and those of two nodes, two tags or as the program has them, no or one bad block, one wrong read; about a million states | `TagsOwned`, `CountersExact`, `PagesNotContended`, `FlashMatchesStatus`, `VerdictExact`, `OneBusWrites` |
| `portal_hosts` | the test programs: haystacks of up to 10 bytes, two engines, needles of one and of four bytes, `SetupFirst`, two I2C registers, two tags; map-reduce of 8 keys, one of them twice, heads of 2 slots, grants of 4 keys into a queue of 6; page interface with 2 or 3 pages on each of 2 channels, one write buffer per channel, 3 read buffers with 2 flags, grants of 2 commands into a queue of 6 | `TypeOK`, `PrintsMatch`, `PageTagsExclusive`, `OccurrencesReported`, `GrantsExact`, `CmdQueueHasRoom`, `DoneAfterKeys`, `ProgramsEnd` |
| `flash_interface` | the test of `projects/test`, two write buffers per channel; **violated** | `TestEnds` |
| `strstr_last` | a haystack that ends with the needle; **violated** | `SearchIsMP` |

The type invariants of `FlashCluster` and `FlashHost` are in no run: section 6 proves them
for every instance.

Deadlock is checked in every run except `cluster_live`, which stops after
`MaxIssue` requests per slot, and the runs of `PortalHosts`, whose programs
exit.  In `host_programs` a finished program stutters (`Finished`), and
the scripts are finite and every step shortens one or advances a request, so the
absence of deadlock means that every program ends.

**Bounds and why they suffice.**  Queues have depth 1 or 2: a shallow FIFO makes
rules wait more often and reaches every state of "full" with fewer items, and two
items are enough to be out of order.  Pages have two words, so that a page can be
half-way and a first and a last word differ.  Windows and buffers keep the
proportions of the code (a window is half the buffer).  The counters of a link
wrap at 8, so every run goes round many times.  `gearbox_duplex`
looks at the counters through a `VIEW` that keeps only their differences: no guard reads more, and `Budget`, the only thing `BudgetReturns`
speaks of, is a difference, so a cycle of views stands for a cycle of behaviours in
which the same rules are enabled and taken.  Two tags with three or four
requests make tags run out and be reused.  Two chips and three tags put two
commands on one chip while the other is busy.  `NetDepth`, `WireDepth` and
`MaxIssue` and `MaxPending` are bounds of the model, not of the code; `MaxIssue = 0` is no limit.
For the hosts, fewer tags than pages make `waitIdle...` wait; two blocks, chips,
buses or nodes each make the loops cross a boundary.  A haystack of 10 bytes is
cut into two overlapping chunks, and holds occurrences inside a chunk, at the
border and at the end.  A grant that is larger than the level makes a request for
more words overlap with words that are under way.  Two tries of a register show
a retry that succeeds and one that gives up.  One buffer per channel makes every
second write wait.  The 128 different keys of `platform()` fill blocks of 7 slots many
times over, so the sweep meets several heads and tells the end while it is at one of the
first; `portal_hosts` keeps that with 7 different keys and blocks of 2, which
make 3 heads (the slot that finds the block full is in none).  With a single head, or none,
`mrDone` would never be sent (`FinalSecond`): that it comes is a fact about the number
of keys, not about the board.

## 4. Fairness

* Gearbox and endpoints: weak fairness of each rule; the rules of an end use
  different ends of the FIFOs, so none can exclude another for ever.  Strong
  fairness only for `InsertData`, which shares a rule with `InsertAck`: a node
  acknowledges at most one message in `flowStride`, and receives at most one a
  clock, so data gets its turn (all endpoints are made with a stride above 1,
  `Main.bsv:149-153`).  Users read what arrives and end bursts they began.
* Cluster: weak fairness of the disjunction of all rules: in each clock some
  enabled rule fires.  Requests are bounded in this run, so that this is enough.
* Controller: weak fairness of each rule; the rules that Bluespec schedules as
  alternatives (those of the bus state, those of the scoreboard state) are one
  disjunction.  Busy chips become ready, and the user writes the words it was
  asked for and takes words and acks.

* Portal programs: weak fairness of the main thread, of the portal thread and of
  the board: the operating system schedules both threads and the board's clock
  runs.  Nothing is assumed about the operators, the order of answers, or who
  wins a mutex.
* Flash hosts: only safety and the absence of deadlock are checked.

## 5. What the runs show

* Links deliver everything in order whatever control words fall between halves,
  and stalls always end.  The endpoints deliver every message of a flow in order.
* `endpoint_interleaved` is a **finding**.  The header of `AuroraExtEndpoint.bsv`
  allows `flowStride` to be larger than `qSize` (line 28) and says of bursts
  "it's okay to be incontiguous" (line 37), as advice on effectiveness.  With
  bursts of two destinations interleaved, each of two senders can hold the spare
  buffers of one receiver while the head of its `sendQ` waits for the other
  (`insertAckQ`, line 146): nothing moves again.  With whole bursts this does not
  happen, for any number of senders and receivers (`NoCircle` in section 6; `endpoint_flows`
  has two senders and one receiver), nor when `qSize + extraSize` is at least
  `flowStride + (senders - 1) * (flowStride - 1)`, for which
  `NoCircleWithSpares` is proved.  The instances of
  `flash_multinode` are on that side, those for commands, acks and requests
  (4, 2, 32) as well as those for data (256, 256, 768): an endpoint of its
  cluster of 4 nodes has at most 3 senders.  An instance with small buffers, or
  a larger cluster (from 5 senders on for data), is not protected.
* Tags of a flash controller are never lost or held twice, and no reply is
  delivered to another request, although tags are renamed twice on the way.
* The controller keeps its protocol and each chip is programmed with its own
  page although the token that starts a transfer carries no tag.

* Every flash host keeps its tables right in every interleaving with its
  indications, including the check that `readDone` makes outside the lock: the
  counters at the barriers are exact, so that no tag entry changes under it, and
  the verdict is FAILED exactly if the flash returned a wrong page of a good
  block.  Two nodes share a flash safely because each takes its own blocks, and
  because an operator starts the test of all nodes when the tests of single nodes
  are over; without him `PagesNotContended` fails.
* `flash_interface` is a **finding**.  `waitIdleWriteBuffer` looks for a free
  buffer in one critical section and waits for the condition in another
  (`flashinterface.cpp:97-104`).  If the indications of all pages under way are
  handled between the two, nobody will wake the main thread, though every buffer
  is free, and the "finished writing to page!" of `main.cpp:57` is never printed.
  With the 16 buffers per channel of the code all outstanding indications have to
  fall into the window, which makes it rare.  `portal_hosts` shows that the test ends
  unless that wake-up was lost (`raced`).
* Commands and keys that a board has granted are exactly those its host can still spend
  (`GrantsExact`), and the 128 places of `flashCmdQ` suffice for all commands that are
  granted (`CmdQueueHasRoom`).  For keys this holds only as long as no update is lost: the
  map-reduce host changes `curRequestedIn` from two threads without a lock
  (`platform.cpp:31`, `:67`), and sets it to 0 when the board may have asked already
  (`:71`).  An addition that is overwritten is gone, and the host waits for it for ever,
  here or at `while(bMrDone == false)` (`:97`).  The model has these accesses one by one and
  records the loss in `raced`; `ProgramsEnd` shows that nothing else stops the program.
* `mrDone` does not say that all keys have been told: it is sent, more than once, while
  heads are swept.  What holds is that all keys have been received and reduced by then
  (`DoneAfterKeys`).
* `dstBufferBusy` is declared with `WRITE_BUFFER_COUNT` flags (`flashinterface.cpp:18`,
  `flashinterface.h:37`) and used with `READ_BUFFER_COUNT`, twice as many (`:114`, `:208`).
  What the test does then is up to the linker: with spare memory, or with the flags of the
  write buffers, which are all free while pages are read, behind the array it still ends
  (`portal_hosts`); with the pointers to the buffers there it would write through a null
  pointer (`DoFill`), which is in no run.
* The page library counts a page after it broadcasts and outside the mutex, so
  the total that its client prints may lack the last pages.  Nothing else of it
  depends on the count.
* The string search reports each occurrence that ends before the last byte of the
  haystack once, over chunk borders and with comparisons in flight, and reports
  nothing else (`OccurrencesReported`).  The table of `mp.h` is right for the needles of
  the tests (all bytes after the first are equal).
* `strstr_last` is a **finding**.  `MPEngineBDBM.bsv` tests the end of the haystack (line
  174) before the end of the needle (180) and so never reports an occurrence that
  ends with the haystack, unlike `MP()` of `mp.h`, the algorithm that its header
  (24-25) says it implements.
* A search is accepted while the setup before it is still being dealt out
  (`StrstrBDBM.bsv:190-195`), and only the urgency of the rules, of which the source says
  nothing, decides whose tuples go first.  `SetupFirst` is that choice.  The runs assume
  that a setup in progress goes first; where the compiler decides otherwise, a search tuple
  overtakes a setup tuple and is taken for a needle, against the comments of lines 141
  and 158.
* `flash_connectal_64bit/main.cpp:426` and the same place of `_tagbufs` say
  "Issue each bus separately", but the barrier is after the loop and all buses
  write at once; `OneBusWrites` is stated for the programs with the barrier in it.

## 6. What is proved

`AuroraGearbox_proofs` proves, for every queue depth, window size, counter width,
wire depth, set of packets and set of senders allowed by the named assumptions of
`AuroraGearbox` (`DataAssumption`, `DepthAssumption`: all depths positive;
`CounterAssumption`: `RecvQDepth + WindowSize < CounterMod`, which is
`128 + 64 < 65536` in the code):

* `TypeCorrect`: `Spec => []TypeOK`.
* `CreditsConserved`: `Spec => []CreditConservation`, and `RoomForEveryPacket`:
  `Spec => []ReceiverHasRoom`.  Neither is inductive alone.  The counters are modular, so a sum of them says
  nothing until it is known that no difference has wrapped; that follows from the
  room of the receiver; and the room is kept only because every high half under
  way has its credit counted.  The inductive invariant is the conjunction of
  both with `TypeOK`; the proof has one step for each action, and `QueueLemmas`
  supplies how `Append`, `Tail` and concatenation change the number of words of
  a kind.
* `HalvesStayPaired`: `Spec => []HalvesAlternate`.  The invariant reads the words
  on the way as an automaton (`Alternates`) from the receiver's register to the
  sender's; the lemmas give its behaviour when a word is put at the end, taken
  from the front or moved between queues.
* `BegunPacketsFinish`: `Spec => []HalfKeepsCredit`.
* `LinkIsChannel`: `Spec => ChannelSafe`, the safety part of `FifoChannel` for both
  directions.  The line of a direction is what waits in `recvBufferQ`, the packets
  that the halves under way make up (`Assembled(Halves(d))`), and what waits in
  `sendQ`.  The halves pair up as packets because `PairsInv` says that a register
  holds a half only between the two of a packet, so that their number is even;
  which two make a packet is what `HalvesAlternate` adds.  A control word changes
  no line, and each other rule takes a packet from the end of one part and puts
  it, or its halves, at the end of the next.

`AuroraEndpoint_proofs` proves, for every set of nodes, flows, messages and
deployments and all positive `QSize`, `FlowStrideArg`, `FifoDepth`
(`FlowAssumption`, `SizeAssumption`, `DeploymentsAssumption`):

* `BuffersAccounted`: `Spec => []PairAccounting`.  The budget a sender has for a
  receiver, its data under way, its messages unread, a stride for every ack owed
  or under way and the strides the receiver has begun to count always add up to
  the share the receiver set aside.  The inductive invariant `AccountInv` adds the
  types of queues and counters and that a channel of the network holds only what
  is meant for its end; without the latter an ack that arrives could belong to
  another account.  Each rule moves one unit, or one stride, between two terms;
  `QueueLemmas` says how `Append` and `Tail` change a count.  `CmdSend`
  is the hard step: the packet at the head of a channel must be shown to be the
  ack or the data of exactly this pair.
* `SendersKeepTheirShare`: what one sender has under way or unread at a receiver
  never exceeds `QSize`, and less than a stride more at dynamic endpoints, so no
  sender can take the buffers of another.
* `EndpointTypes`: `Spec => []TypeOK`, which includes that a dynamic receiver never
  counts more buffers as its own than `recvQ` has.
* `ArbiterNeverWaits`: `Spec => []RecvQHasRoom`.  The accounts of one receiver are
  summed over all senders: the messages of all flows in `recvQ` make up its length
  (`CountsSumToLen`), nobody is a sender to itself (`NoSelf`), and what is set aside
  for all senders with the buffers still free is the size of `recvQ`
  (`BuffersAvailable`).  This needs `NodeAssumption`: the set of nodes is finite.
* `AcksNeverHoldUp`: `Spec => []AckQHasRoom`, from the same sum: every ack that
  waits stands for a stride of some account.
* `NoCircle`: `Spec => []NoCircularWait` when bursts are contiguous, and
  `NoCircleWithSpares`: `Spec => [](SparesSuffice => NoCircularWait)` for bursts
  interleaved in any order.  A sender waits for a receiver only if that has no
  stride free for it.  In the first, the receiver has then given its spare buffers
  to some sender that holds more than `QSize`; `BurstInv`, which follows the budget
  modulo a stride, says that this one is within a burst to that receiver, so it
  waits for nobody else, and it has budget.  In the second, the sum of the
  accounts is less than what the receiver has.
* `EndpointsAreChannels`: `Spec => ChannelSafe`.  The line of a flow is what of it
  is in `recvQ` of the receiver, in the channel of the network and in `sendQ` of
  the sender (`Kept`), and a message taken from the network is the first of its
  flow because a channel holds only what is meant for its end.

The theorems that speak of all nodes or of whole queues need induction.  The
induction theorems of the library take an operator as parameter, so `QueueLemmas`
proves an induction principle for a set (`SetInduction`: a set of naturals that has 0
and with each number the next has all of them), and every lemma that needs it names
the set of lengths, or of cardinalities, for which it holds.

`FlashCluster_proofs` proves, for every set of nodes, slots and targets, any number
of tags, engines and words of a page and any depths (`NodeAssumption`,
`SizeAssumption`, `SlotAssumption`):

* `ClusterTypes`: `Spec => []TypeOK`.  The types it needs (`Typed`) say more than
  `TypeOK`: what each FIFO and each channel holds (`ItemsOf`, `MessagesTo`), that
  what leaves a splitter for a host names one of its slots, and that an entry read
  from `tagTable` leads back to the slot of the command.
* `TagsAlwaysConserved`: `Spec => []TagConservation`.  Three counts of the same
  words must agree for it: the controller's, the words in `locRdInQ` of which the
  entry has not been read, and `burstCnt`.  The inductive invariant `TagInv` says
  that `lookupQ` and `locRdInTagQ` are in step with `locRdInQ` (`Aligned`), that
  the words of a tag not looked up are numbered from `burstCnt` on and end with
  the controller's count (`WordsCounted`), and that `tagTable` has the entry of
  every command and word that works under a tag (`TableMatches`).  The key lemma is
  `QuietTag`: a tag that no command works under and of which no last word waits has
  no word at all, so a free tag can be given out and its entry overwritten while
  words of other pages are still in the pipeline.

`FlashClusterHosts_proofs` follows a request over several nodes, from the same
assumptions:

* `AcksAlwaysMatch`: `Spec => []AcksMatch`.
* `ReadsAlwaysMatch`: `Spec => []ReadWordsMatch`.
* `WritesAlwaysMatch`: `Spec => []WriteDataMatches`.

None of the three is inductive: each speaks of the front of one queue, and what is
there was put into another queue of another node many steps before.  The inductive
invariant of all three, `HostInv`, therefore speaks of every place between a host and
a controller at once.  A place is a *box* (`Box`): a FIFO of a splitter, the commands
of a host, the command a controller works on, the jobs of an engine, or a channel of
the network.  An item is described so that it stays the same when a rule moves it,
although the rule rewrites its fields: a command, an entry of `tagTable` and an ack all
name the slot of the host they are for (`SlotIn`), and a request for data names that slot
and the controller and tag it came from (`JobOf`).  `HostInv` is `TagInv` with

* `ReqInv`: a slot is in at most one box, once, and while it is in one the host has the
  request pending.  So an ack is for the only trace of its request, which is
  `AcksMatch`, and a slot that is free has nothing left anywhere.
* `ReadInv`: the words of a page being read are only in the boxes on the route from its
  controller to its host, two on one node and five between nodes (`ReadRoute`), and
  along that route they are numbered without a gap from the word the host waits for to
  the word the controller gives next, or to the last when it has given all (`Chain`).
  Nothing of the page is anywhere before a controller begins it.
* `WriteInv`: a request for data and every word sent for it belong to a controller that
  works on that write under that tag and has asked (`JobsMatch`, `WordsWanted`); along
  the route back the words are numbered from the word the controller waits for to the
  word the engine sends next.

The last two need the other way round as well what `WordsCounted` and `TableMatches` of
`TagInv` say: the entry that a word or a request is answered from is that of the
command whose tag it bears.  The proof has three layers.  The lemmas of `QueueLemmas` say
what becomes of a route when an entry enters it, leaves it or moves one box on
(`ChainPut`, `ChainTake`, `ChainMove`), and of items of which each is in one place
(`DistinctMove`); one lemma for each rule says which box gives what to which
(`QueueMoves` and its kind); and most rules then change nothing that the invariant speaks
of (`Quiet`).  The steps that remain are those of the two ends: a host that makes a request
or is given a word or an ack, a controller that takes a command, asks, is given a word,
gives one or acks, and an engine that sends a word.

`FlashController_proofs` proves, for every number of chips, tags, words of a page,
queue depths and jobs of the user (`ChipAssumption`, `BusAssumption`,
`JobAssumption`):

* `ControllerTypes`: `Spec => []TypeOK`, with it the bounds of the queues.
* `ChipsStayReady`: `Spec => []ChipsAreReady`.  That a chip is ready when the bus
  comes to it is known nowhere in the bus controller: the scoreboard issued the
  command at a stage of the chip that some status polled earlier allows.  The
  inductive invariant `BusInv` therefore follows a command over both.
  `StartBeforePoll` orders what is queued for one chip, `BusCmdsBelong` ties queued
  and running bus commands to the command the chip works on, and `ChipInStep` says
  for each stage what is queued, what the bus does, what was polled, and whether
  the chip can be busy.  The read-out is the hard case: the scoreboard may finish
  the command, and start the next one of the chip, while the bus still reads the
  page, and only the order of the bus keeps the page register until then.
* `DecoderNeverOverflows`: `Spec => []NoReadError`, because the words in the
  decoder's queue are at most those this burst has read (`BurstCounted`).
* `OneStatusAtATime`: at most one status of a chip waits to be looked at, the part
  of `QueuesNeverBlock` that concerns polls.

The proof has a lemma for each rule that takes part in the protocol (`...Keeps`) and
one for each component and rule that changes its types (`...Typed`); every other
step leaves `chipVars` alone.

Its second part adds what the user of the controller is promised, from the
same assumptions and `PageWords > 1`.  The code reads and writes pages of many hundred
words; with a page of one word the fetch of a page would be over before its word is
in `encodeQ`, a case the registers of the page buffer do not distinguish.  The
inductive invariant of all its theorems is `UserInv` (`UserInvariant`), `BusInv` with

* `PlaceInv`: a tag in use is in one place, which is the queue to the scoreboard, a
  chip, the bus, `readTagQ` or `ackQ`, once (`OnePlace`), and what is there is what the
  user asked for under it (`UseMatches`).  A command that has only its last status to be
  looked at no longer counts: its tag may be in use again by then.
* `AskedOnce`: a page is asked for once for a command, by a chip that works on it.
* `ReadInv`: the words in both queues of the decoder continue the pages of `readTagQ`
  from `rdWdCnt` on, and with what the chip has yet to give they end with the last of
  those pages (`ReadsInOrder`).  The user's count of a tag is that of the bus.
* `PageInv`: there is a sequence of pages on their way to the chips that the requests
  moved, the tokens, the page being fetched, the words in `encodeQ` and the write
  commands queued on the bus all agree with.  Neither the token that starts a
  transfer nor the registers `wdataCnt` and `writeWordCnt` carry a tag, so only this
  common sequence says whose page the next word is of.

The theorems:

* `ReadsKeepTheirTag`: `Spec => []WordsKeepTheirTag`.
* `ProgramsKeepTheirPage`: `Spec => []ProgramsOwnPage`, with the page a chip has been
  given so far (`PageSoFar`) on top of `UserInv`.
* `QueuesHaveRoom`: `Spec => []QueuesNeverBlock`, for `FifoDepth > 1` (a `mkFIFO` of the
  code holds two).  Every request stands for another chip that waits for its page, so
  there are at most as many as chips, and one less whenever the bus has the command
  of another in hand.
* `ControllerKeepsPromise`: `Spec => UserSpec`.  The steps by which the user gives a
  command or data, takes a word, a request or an ack are steps of `FlashCtrlUser`; all
  other rules leave what the user sees alone.  `UserInv` gives the guards: a word
  belongs to a page being read and is the next of it, a page asked for was not asked
  for before, an ack comes after all data.

`FlashHost_proofs` proves, for every set of hosts, pages and scripts and any number
of tags of each deployment (`DeploymentsAssumption`, `PageAssumption`):

* `TablesTyped`: `Spec => []TypeOK`.
* `RequestsOwnTheirTags`: `Spec => []TagsOwned`.  The table is only right because
  of what the main thread holds between two critical sections: `TableInv` adds
  to the types that the thread is inside a request only at a step of its script
  that makes one (`InRequest`), and that the tag it has taken is busy, belongs
  to no request at the device, and has its page in the table before the call
  (`HoldsTag`).
* `BarriersAreExact`: `Spec => []CountersExact`, from `TableInv` and the
  finiteness of the set of requests: a counter is changed in one critical section
  and the request set in another, and the request between the two is the one the
  main thread is at.

What the tables and counters are used for depends on the program: one that does not
wait in the right places, or that uses pages of another host, spoils its own test.
`FlashHost` therefore says in `Disciplined` what a deployment must keep to, of its
scripts alone: a host waits for a request before one that clashes with it (the same
page, unless both read; two buses that write, in a program that issues them separately)
and before a key, the start or the end of a test (`WaitsBetween`); requests of two hosts
clash only with a key pressed between them (`HostsApart`); a page is erased before its
first use, and again after each key or start (`ErasesFirst`, `ErasesAgain`); and after a
verdict nothing is requested before the next start (`StartsAgain`).  That the programs of
the source keep to it, on the instances of the run, is the assumption
`ProgramsDisciplined` of `MCFlashHost`, which TLC evaluates in `host_programs`.  For every
disciplined program, any hosts, pages and tags, flash that errs and blocks that are bad:

* `DisciplineKeepsPagesApart`: `Spec => [](Disciplined(deployment) => PagesNotContended)`.
* `DisciplineWritesOneBus`: the same for `OneBusWrites`.
* `DisciplineTellsTheFlash`: the same for `FlashMatchesStatus`.
* `DisciplineMakesVerdictsExact`: the same for `VerdictExact`.

All four follow from `DisciplineInv`, which holds from the start and is kept
(`DisciplineAlways`).  To the invariants of the tables and counters it adds

* `OrderInv`: what is left of a script keeps the discipline, and so do the requests under
  way with respect to it: none clashes with what its host, or another, does before it
  waits or a key is pressed (`KeptScripts`, `WaitedFor`, `KeyPressedFor`), and no two of
  them clash (`NoClash`).  A barrier preserves it because of `CountersExact`: a
  counter of 0 means that no such request is left, of the host that waits.
* `FlashInv`: the flash holds what the block status of a host claims, or is about to: the
  status is set in the critical section that registers a request, long before the board
  does it, and an indication may mark it BAD (`StatusTold`, `RequestsTold`).  It speaks only of
  pages that a host *claims*, those it will use before it erases them again, for its
  status of the pages of others is stale.
* `TestInv`: a read that must fail the test is in `testPass`, or still to be looked at by
  its indication (`Tallied`), and there is somebody to blame for it (`Blamed`); after
  a verdict no request of the host is left (`Ended`).

None of the four is inductive: that a page read is what the status says depends on
requests that were made, answered and waited for before, possibly by another host
before a key was pressed.

`PortalHosts_proofs` proves, for any programs, numbers of tags and buffers and sizes of
grants:

* `TagsHaveOneUser`: `Spec => []PageTagsExclusive`.
* `GrantsAlwaysExact`: `Spec => []GrantsExact`.
* `CommandsHaveRoom`: `Spec => []CmdQueueHasRoom`, from the invariant that commands
  granted and not received and those in `flashCmdQ` are together at most its size, for
  any grant and level that are together at most that size (`InterfaceAssumption`:
  32 + 80 and 128 in the code).

The programs are arbitrary scripts of the steps of the libraries, with one assumption
(`ProgramsAssumption`, which TLC evaluates): pages, keys and commands are asked for by
the functions of a library, never by a plain request, and a program that uses the page
library uses no other: a broadcast of that library returns the main thread of the model
to the start of its step, which must not be a request for a key or a command.  The inductive invariant `HostsInv` adds what the main thread is at.
`ScriptInv` says that it is between the load and the store of a key, or between the
budget and the request of a command, only at a step that asks for one; `PageInv`
types the messages about pages in both queues and the commands and tags at the board; `KeyInv`
adds that no update lost means that the counter covers the key just sent, without which
a board could be given a key it has not asked for and count from 0 again.  A step of one
program changes the queues by messages of the others' kinds only (`PassesBy`), which
leaves the counts of a kind, and of a tag, alone (`Spares`).

Only model-checked:

* liveness under fairness, with it the fairness part of `FifoChannel`: TLAPS has no
  rules for `ENABLED`;
* of `PortalHosts`, `PrintsMatch`, `OccurrencesReported`, `DoneAfterKeys` and `TypeOK`,
  which hold because of what the single programs do: a semaphore is waited for as often
  as it is posted, a page read after its erase.  `OccurrencesReported`, and the type of an engine's position in
  `TypeOK`, moreover speak of the table of the Morris-Pratt algorithm, which is computed
  by recursion over the needle: what a recursive definition yields for every input is
  out of the prover's reach;
* the properties of all other modules.

## 7. What is not modelled

* **Network arbiters** `AuroraExtArbiterBar`, `Merge2`: toggles and merge queues
  of a node on a bar.  The endpoints are checked over a network that is a FIFO for
  every pair of nodes, which the bar provides by keeping a pair on one path; that
  it does is not checked here.  `AuroraExtArbiterX` and `XBar` are unused and
  commented as incorrect.
* **`BRAMFIFOVector`** and the DMA bursts of `Main.bsv`: page assembly before DMA,
  sized for a page per tag.
* **`AuroraExtImport`**: the credit scheme of the gearbox with three flits per
  packet, for a core of an earlier board.
* **Older helpers** (`DMABurstHelper`, `DRAMArbiter`, `DRAMImporter`,
  `PageCache`, `StreamingSerDes`), used by earlier designs only.
* **NAND PHY, Reed-Solomon ECC**, clocking, vendor cores: pin timing and
  arithmetic, which an untimed model does not have.  With them the
  initialisation of the bus controller, asynchronous transfers and its read of
  the error flags.
* **Storage bridge, remote access** (`projects/test/storagebridge.cpp`,
  `projects/remoteaccess`): file input and output and a main thread that sends a
  fixed list of one-way messages; no state that an order of events could spoil.
* **Emulation** (`rawWordManager.cpp`, `FlashBusModel.bsv` and the controller
  models): simulation stand-ins for the flash; the Virtex bridge, board tops.
* Of the modelled programs: command line, allocation, logging, timing, throughput.

## 8. Where to go next

In the order of what they would add: the bar arbiter with `Merge2`, two lanes and
three nodes (order per pair, progress when endpoints have room), composed with
`AuroraEndpoint`; `BRAMFIFOVector` as a refinement of one queue per page;
an abstract specification of the cluster's flash, a page per request and an ack, that
`FlashCluster` implements, for which `HostInv` has the guards.
