------------------------------- MODULE MCFiles -------------------------------
(* Two processes, three names, a boot archive with one file below bin.     *)
EXTENDS Files

CONSTANTS p1, p2

Abs(parts) == [abs |-> TRUE, parts |-> parts]
Rel(parts) == [abs |-> FALSE, parts |-> parts]

MCNameOrder == <<"a", "bin", "tmp">>
MCBootDirs == <<"bin", "tmp">>
MCArchive == <<[dir |-> TRUE, parts |-> <<"bin">>, data |-> 0],
               [dir |-> FALSE, parts |-> <<"bin", "a">>, data |-> 1]>>
MCPrograms ==
  {[calls |-> {"open", "mkdir", "unlink", "rename", "chdir", "getdents64", "write", "fork"},
    paths |-> {Abs(<<"bin">>), Abs(<<"bin", "a">>), Rel(<<"a">>), Abs(<<"tmp">>), Rel(<<"..", "tmp", "bin">>)},
    flags |-> {{"r", "append"}}],
   [calls |-> {"open", "close", "read", "write", "lseek", "dup", "dup2", "fork", "setresuid"},
    paths |-> {Abs(<<"bin", "a">>), Rel(<<"a">>)},
    flags |-> {{"r"}, {"r", "w", "creat", "append"}, {"w", "trunc"}, {"w", "creat", "excl"}}],
   [calls |-> {"open", "close", "pipe", "dup2", "epoll_create1", "epoll_ctl", "fork"},
    paths |-> {Abs(<<"bin", "a">>)},
    flags |-> {{"r"}}]}
MCModes == {{"ur", "uw", "gw"}}
MCCounts == {1}
MCEvents == {{"in"}}
=============================================================================
