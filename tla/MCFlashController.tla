-------------------------- MODULE MCFlashController --------------------------
(***************************************************************************)
(* One bus with two chips, pages of two words.                             *)
(***************************************************************************)
EXTENDS FlashController

TwoTags   == {0, 1}
ThreeTags == {0, 1, 2}

\* Two tags that write and one that reads or writes, so that pages wait for
\* each other on the same chip, in the page buffers and in the decoder.
PageJobs == {<<0, "WRITE_PAGE", 0>>, <<1, "WRITE_PAGE", 1>>, <<1, "READ_PAGE", 0>>}
              \cup ({2} \X {"READ_PAGE", "WRITE_PAGE"} \X Chip)

\* One tag writes, the other reads and erases, on any chip.
MixedJobs == ({0} \X {"WRITE_PAGE"} \X Chip)
               \cup ({1} \X {"READ_PAGE", "ERASE_BLOCK"} \X Chip)
=============================================================================
