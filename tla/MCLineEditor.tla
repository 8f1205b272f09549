---------------------------- MODULE MCLineEditor ----------------------------
(* Short lines and a history of two commands of one byte.  What is typed:  *)
(* editing keys; history keys; pastes; Tab and the menu; the rest of the   *)
(* escape sequences.                                                       *)
EXTENDS LineEditor

Name(n, is_dir) == [name |-> n, is_dir |-> is_dir]

MCCommands == <<Name(<<99, 97>>, FALSE), Name(<<97>>, FALSE), Name(<<97, 98>>, FALSE)>>
MCDirectory == <<Name(<<46>>, TRUE), Name(<<97>>, TRUE), Name(<<98>>, FALSE)>>

Types(typed, lines, size) == [bytes |-> typed, lines |-> lines, size |-> size]

MCClipboards == UNION {[1..n -> {97, 13, 27, 91}] : n \in 0..3}
                \union {<<27, 91, 50, 97>>, <<27, 91, 50, 48, 97>>, <<27, 91, 50, 48, 49, 97>>, <<97, 97, 97, 27, 97>>}

MCUsers ==
  {Types({97, 32, 1, 5, 2, 6, 11, 21, 23, 25, 4, 127}, 0, 5),
   Types({13, 27, 91, 65, 66}, 3, 3),
   Types({27, 91, 50, 48, 126, -1}, 0, 4),
   Types({97, 98, 32, 9, 13, 27, 91, 67, 68, -1}, 0, 4),
   Types({97, 32, 27, 91, 79, 49, 51, 59, 53, 67, 68, 72, 70, 98, 102, 126}, 0, 3)}
=============================================================================
