----------------------------- MODULE MCContent -----------------------------
(* Two sites: one with a directory, one with a single file.                *)
EXTENDS Content

Dir(mode) == [kind |-> "dir", len |-> 0, mtime |-> 0, mode |-> mode]
File(len) == [kind |-> "file", len |-> len, mtime |-> 0, mode |-> {"r"}]

MCPreOrder == << <<"r1">>, <<"r1", "a">>, <<"r1", "a", "x">>,
                 <<"r1", "a", "y">>, <<"r1", "y">>,
                 <<"r2">>, <<"r2", ".git">>, <<"r2", "z">> >>

\* Without a second name in the directory.
FewPaths == SelectSeq(MCPreOrder, LAMBDA p : p # <<"r1", "a", "y">>)

\* The directory is open, or it only lists its entries; nothing is to be
\* closed where only moves matter.
TreeWith(mode, absent) == [p \in Paths |->
    CASE p = absent -> NoNode
      [] p \in {<<"r1">>, <<"r2">>} -> Dir({"r", "x"})
      [] p = <<"r1", "a">> -> Dir(mode)
      [] OTHER -> File(1)]
OpenTree  == {TreeWith({"r", "x"}, <<"r1", "a", "y">>)}
SomeTrees == {TreeWith(mode, <<"r1", "y">>) : mode \in {{"r"}, {"r", "x"}}}

MCPassed == {<<"r2", ".git">>}
MCModes == {{}, {"r"}, {"r", "x"}}
MCStored == [l \in Lens |-> l + 1]

=============================================================================
