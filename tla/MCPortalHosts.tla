----------------------------- MODULE MCPortalHosts -----------------------------
(***************************************************************************)
(* Small instances of the portal programs.                                 *)
(***************************************************************************)
EXTENDS PortalHosts

\* A program without a search; only map-reduce has a board of its own, and only
\* the page interface cares what the linker puts behind dstBufferBusy.
Quiet(n, s) ==
  [name |-> n, script |-> s, needle |-> <<>>, haystack |-> <<>>, board |-> "none",
   behind |-> "spare"]

Searching(n, x, t) ==
  [Quiet(n, IF n = "strstr" THEN StrstrMain ELSE StrstrBakMain)
     EXCEPT !.needle = x, !.haystack = t]

MapReducing(keys) == [Quiet("mapreduce", MapReduceMain(keys)) EXCEPT !.board = "mapreduce"]

FlashTesting(n, channels, b) ==
  [Quiet("flash_test", FlashTestMain(n, channels)) EXCEPT !.behind = b]

\* The needles are the integers 0x02 and 0x1f, lowest byte first.
FromInt2  == <<2, 0, 0, 0>>
FromInt1f == <<31, 0, 0, 0>>
Haystacks ==
  {<<2, 0, 0, 0, 1, 2, 0, 0, 0, 1>>,  \* at the start of either chunk
   <<1, 2, 0, 0, 2, 0, 0, 0, 2, 1>>,  \* across the border, after a near miss
   <<2, 2, 0, 0, 0, 1, 2, 0, 0, 0>>}  \* after a false start, and at the end

\* The programs that no unlocked access can stop.
TestPrograms ==
  {Quiet("kernel", KernelMain), Quiet("kernel_old", KernelOldMain),
   Quiet("matrix", MatrixMain), Quiet("flashemul", FlashemulMain(<<"r7", "r8">>)),
   Quiet("pages", PageTest(2, 3)),
   Searching("strstr_bak", FromInt1f, <<31, 0, 31, 0, 0, 0, 31, 0, 0, 31>>)}
    \cup {Searching("strstr", FromInt2, t) : t \in Haystacks}

\* The programs that are granted keys and commands.  One key comes twice; there are
\* enough of them for the heads the end is told from.
GrantPrograms ==
  {MapReducing(<<10, 10, 11, 12, 13, 14, 15, 16>>),
   FlashTesting(2, 2, "spare"), FlashTesting(3, 2, "srcBufferBusy")}

AllPrograms == TestPrograms \cup GrantPrograms

\* For the runs that the code fails: three pages for the two write buffers of a
\* channel, and a haystack that ends with the needle.
FlashTestOnly  == {FlashTesting(3, 1, "spare")}
StrstrAtTheEnd == {Searching("strstr", FromInt2, <<2, 2, 0, 0, 0, 1, 2, 0, 0, 0>>)}
=============================================================================
