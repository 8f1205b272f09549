------------------------------ MODULE MCShell ------------------------------
(* Three names, trees with a directory of three entries, and the lines that *)
(* bring redirections, pipelines and the file commands to their corners.    *)
EXTENDS Shell

MCNameOrder == <<"a", "b", "c">>
MCNoData == <<>>
MCBootDirs == <<"c">>
File(parts, text) == [dir |-> FALSE, parts |-> parts, data |-> <<text>>]
Dir(parts) == [dir |-> TRUE, parts |-> parts, data |-> <<>>]
MCArchives ==
  {<<File(<<"a", "a">>, "x"), File(<<"a", "b">>, "y"), File(<<"a", "c">>, "z"), File(<<"b">>, "w")>>,
   <<File(<<"a", "b", "c">>, "x"), Dir(<<"b", "a">>)>>}

W(word) == Path(FALSE, <<word>>)
P(x, y) == Path(FALSE, <<x, y>>)
Abs(parts) == Path(TRUE, parts)
Opt(o) == [Path(FALSE, <<>>) EXCEPT !.opts = {o}]
To(r, word) == [W(word) EXCEPT !.redir = r]
Bare(r) == [Path(FALSE, <<>>) EXCEPT !.redir = r]

MCLines ==
  {\* redirections
   << <<W("echo"), W("b"), To(">", "b")>> >>,
   << <<W("echo"), W("c"), Bare(">>"), W("b")>> >>,
   << <<W("echo"), W("c"), To(">>", "b"), Bare(">")>> >>,
   << <<W("cat"), To("<", "b"), To(">", "a")>> >>,
   << <<W("cat"), W("a"), W("b"), To(">>", "c")>> >>,
   << <<W("cat"), W("b"), To(">>", "b")>> >>,
   \* pipelines
   << <<W("echo"), W("a")>>, <<W("cat")>> >>,
   << <<>>, <<W("cat"), To(">", "c")>> >>,
   << <<>>, <<W("cd"), W("a")>>, <<W("rm"), W("b")>> >>,
   << <<To(">", "a")>>, <<To("<", "b")>> >>,
   << <<W("cat"), To("<", "b")>>, <<>> >>,
   << <<W("async-demo")>> >>,
   << <<W("exit")>> >>,
   << <<W("pwd"), To(">>", "c")>> >>,
   \* names
   << <<W("cd"), W("a")>> >>,
   << <<W("cd"), W("-")>> >>,
   << <<W("cd")>> >>,
   << <<W("touch"), Opt("c"), P("a", "a"), W("c")>> >>,
   << <<W("touch"), W("b"), P("b", "c")>> >>,
   << <<W("mkdir"), W("c"), Opt("p"), Path(FALSE, <<"b", "c", "a">>)>> >>,
   << <<W("rm"), W("a"), W("c")>> >>,
   << <<W("rm"), Opt("r"), Opt("f"), Abs(<<"a">>), W("..")>> >>,
   << <<W("cp"), W("b"), P("a", "b")>> >>,
   << <<W("cp"), Opt("r"), W("a"), W("c")>> >>,
   << <<W("cp"), Opt("r"), W("a"), W("b"), Abs(<<"c">>)>> >>,
   << <<W("cp"), W("b"), W("b")>> >>,
   << <<W("mv"), W("a"), W("b")>> >>,
   << <<W("mv"), W("b"), P("a", "b")>> >>,
   << <<W("mv"), W("a"), P("c", "b")>> >>}
=============================================================================
