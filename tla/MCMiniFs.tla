------------------------------ MODULE MCMiniFs ------------------------------
(* Instances of MiniFs for TLC: a root directory, /dev with one node, files. *)
EXTENDS MiniFs

MCDevDir == <<"dev">>
MCDevNodes == << <<"dev", "x">> >>
\* The superblock's words: block_size, free_list, free_inodes.
MCSbWords == <<3, 0, 2>>
MCPaths == {<<"x">>, <<"dev", "x">>}

\* refused only serves RmdirRemovesEmpty.
WithoutReply == <<disk, up, free_list, icache, todo, fds, crashes, leaked, writes, stolen>>
=============================================================================
