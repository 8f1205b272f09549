----------------------------- MODULE LineEditor -----------------------------
(***************************************************************************)
(* The shell's line editor: editor.rs with its escape and paste parsers,   *)
(* history.rs and the completion menu.  Every byte getchar returns is one  *)
(* step.  Repainting changes nothing the editor reads and is left out.     *)
(***************************************************************************)
EXTENDS Completion

CONSTANTS MaxCmdLen,    \* MAX_CMD_LEN
          MaxHistory,   \* MAX_HISTORY
          PasteLen,     \* the size of paste_buf
          Commands,     \* KNOWN_COMMANDS
          Directory,    \* what getdents64 returns for the working directory
          Users,        \* what a user types: the bytes, how many lines at most, into a buffer of which size
          Clipboards    \* what the terminal may paste

VARIABLES ed,         \* line, cursor, history cursor, draft
          kill,       \* KILL_RING
          clipboard,  \* the payload of the last OSC 52 sequence
          ring,       \* HISTORY and HISTORY_COUNT
          mode,       \* who reads the next byte: the line, an escape, a paste, the menu
          bytes,      \* what the escape parser has read
          paste,      \* the paste parser: its state and paste_buf
          menu,       \* the completion menu: candidates, selection, start of the word
          entered,    \* history: the commands entered, as the ring should hold them
          unsent,     \* history: the line when the user left it for the history
          pasted,     \* history: the text the terminal is pasting
          sent,       \* what the terminal still sends of it, and the trailer
          user

vars == <<ed, kill, clipboard, ring, mode, bytes, paste, menu, entered, unsent, pasted, sent, user>>

BufLen == user.size    \* one byte of it is for the NUL
ESC == 27
Enter == {10, 13}
EOF == -1

Empty == [line |-> <<>>, cursor |-> 0, history |-> 0, draft |-> <<>>]
NoMenu == [matches |-> <<>>, sel |-> 0, start |-> 0]
NoPaste == [state |-> 0, buf |-> <<>>]

Init ==
  /\ ed = Empty /\ kill = <<>> /\ clipboard = <<>>
  /\ ring = [slots |-> [i \in 0..(MaxHistory - 1) |-> <<>>], count |-> 0]
  /\ mode = "line" /\ bytes = <<>> /\ paste = NoPaste /\ menu = NoMenu
  /\ entered = <<>> /\ unsent = <<>>
  /\ pasted = <<>> /\ sent = <<>> /\ user \in Users

-----------------------------------------------------------------------------
(* Editing.                                                                *)

(* After an edit the draft follows the line, unless history is shown.      *)
Edited(e) == IF e.history = 0 THEN [e EXCEPT !.draft = Take(e.line, MaxCmdLen)] ELSE e

splice_insert(e, data) ==
  LET count == Min({Len(data), (BufLen - 1) - Len(e.line)}) IN
  [e EXCEPT !.line = Insert(@, e.cursor, OneLine(Take(data, count))), !.cursor = @ + count]

(* The kill ring is larger than any line.                                  *)
save(src) == kill' = src
osc52_copy(data) == clipboard' = base64_encode(data)

Cut(from, to, cursor) ==
  /\ IF from < to
     THEN /\ save(SubSeq(ed.line, from + 1, to))
          /\ osc52_copy(SubSeq(ed.line, from + 1, to))
          /\ ed' = Edited([ed EXCEPT !.line = Without(@, from, to), !.cursor = cursor])
     ELSE /\ ed' = Edited(ed) /\ UNCHANGED <<kill, clipboard>>

kill_to_end == Cut(ed.cursor, Len(ed.line), ed.cursor)

kill_to_start == Cut(0, IF ed.cursor > 0 THEN ed.cursor ELSE Len(ed.line), 0)

kill_word_backward == LET from == word_left(ed.line, ed.cursor) IN Cut(from, ed.cursor, from)

backspace(e) ==
  IF e.cursor = 0 THEN e
  ELSE Edited([e EXCEPT !.line = Without(@, e.cursor - 1, e.cursor), !.cursor = @ - 1])

delete_char(e) ==
  IF e.cursor = Len(e.line) THEN e ELSE Edited([e EXCEPT !.line = Without(@, e.cursor, e.cursor + 1)])

-----------------------------------------------------------------------------
(* History.                                                                *)

Slot(total, cursor) == (total - cursor) % MaxHistory

(* A command equal to the last one is not stored again, but for one that   *)
(* was too long to be stored whole.                                        *)
Repeats(cmd) == ring.count > 0 /\ ring.slots[(ring.count - 1) % MaxHistory] = cmd

FaultyHistoryAdd(cmd) ==
  IF Repeats(cmd) THEN ring
  ELSE [slots |-> [ring.slots EXCEPT ![Min({ring.count, MaxHistory - 1})] = Take(cmd, MaxCmdLen)],
        count |-> ring.count + 1]

history_add(cmd) ==
  IF Repeats(cmd) THEN ring
  ELSE [slots |-> [ring.slots EXCEPT ![ring.count % MaxHistory] = Take(cmd, MaxCmdLen)],
        count |-> ring.count + 1]

Show(e, cursor, line) == [e EXCEPT !.history = cursor, !.line = line, !.cursor = Len(line)]

Stay(e) == [e EXCEPT !.cursor = Len(e.line)]

history_prev(e) ==
  IF e.history < Min({ring.count, MaxHistory})
  THEN Show(e, e.history + 1, Take(ring.slots[Slot(ring.count, e.history + 1)], BufLen - 1))
  ELSE Stay(e)

history_next(e) ==
  IF e.history > 1 THEN Show(e, e.history - 1, Take(ring.slots[Slot(ring.count, e.history - 1)], BufLen - 1))
  ELSE IF e.history = 1 THEN Show(e, 0, Take(e.draft, BufLen - 1))
  ELSE Stay(e)

-----------------------------------------------------------------------------
(* The line reads a byte.                                                  *)

Reading == <<mode, bytes, paste, menu>>
Kept == <<kill, clipboard, ring, entered, unsent>>

Edit(e) == ed' = e /\ UNCHANGED <<Reading, Kept>>

EnterLine(ch) ==
  /\ mode = "line" /\ ch \in Enter
  /\ ed.line # <<>> => Len(entered) < user.lines
  /\ ed' = Empty
  /\ IF ed.line = <<>> THEN UNCHANGED <<ring, entered>>
     ELSE /\ ring' = history_add(ed.line)
          /\ entered' = IF entered # <<>> /\ Last(entered) = ed.line THEN entered ELSE Append(entered, Take(ed.line, MaxCmdLen))
  /\ unsent' = <<>>
  /\ UNCHANGED <<Reading, kill, clipboard>>

Printable(ch) ==
  /\ mode = "line" /\ ch \in 32..126 /\ Len(ed.line) < BufLen - 1
  /\ Edit(Edited(splice_insert(ed, <<ch>>)))

MoveTo(e, cursor) == [e EXCEPT !.cursor = cursor]
Left(e) == MoveTo(e, Max({0, e.cursor - 1}))
Right(e) == MoveTo(e, Min({Len(e.line), e.cursor + 1}))

Motion(ch) ==
  /\ mode = "line"
  /\ \/ ch = 1 /\ Edit(MoveTo(ed, 0))
     \/ ch = 5 /\ Edit(MoveTo(ed, Len(ed.line)))
     \/ ch = 2 /\ Edit(Left(ed))
     \/ ch = 6 /\ Edit(Right(ed))

YankKey(ch) == mode = "line" /\ ch = 25 /\ Edit(Edited(splice_insert(ed, kill)))

DeleteKey(ch) == mode = "line" /\ ch = 4 /\ Edit(IF ed.line = <<>> THEN Empty ELSE delete_char(ed))

BackspaceKey(ch) == mode = "line" /\ ch \in {8, 127} /\ Edit(backspace(ed))

KillKey(ch) ==
  /\ mode = "line"
  /\ \/ ch = 11 /\ kill_to_end
     \/ ch = 21 /\ kill_to_start
     \/ ch = 23 /\ kill_word_backward
  /\ UNCHANGED <<Reading, ring, entered, unsent>>

StartEscape(ch) ==
  /\ mode = "line" /\ ch = ESC
  /\ mode' = "escape" /\ bytes' = <<>>
  /\ UNCHANGED <<ed, paste, menu, Kept>>

-----------------------------------------------------------------------------
(* parse_escape_sequence.  In ASCII: 91 is [, 79 is O, 126 is ~, 59 is ;.  *)

NeedsMore(b) ==
  \/ Len(b) = 1 /\ b[1] \in {91, 79}
  \/ Len(b) = 2 /\ b[1] = 91 /\ b[2] \in {49, 50, 51, 52, 55, 56}
  \/ Len(b) = 3 /\ b[1] = 91 /\ (b[2] = 50 \/ (b[2] = 49 /\ b[3] = 59))
  \/ Len(b) = 4

Keys ==
  [Up |-> {<<91, 65>>, <<79, 65>>}, Down |-> {<<91, 66>>, <<79, 66>>},
   Right |-> {<<91, 67>>, <<79, 67>>}, Left |-> {<<91, 68>>, <<79, 68>>},
   Home |-> {<<91, 72>>, <<79, 72>>, <<91, 49, 126>>, <<91, 55, 126>>},
   End |-> {<<91, 70>>, <<79, 70>>, <<91, 52, 126>>, <<91, 56, 126>>},
   Delete |-> {<<91, 51, 126>>},
   WordLeft |-> {<<98>>, <<91, 49, 59, 53, 68>>}, WordRight |-> {<<102>>, <<91, 49, 59, 53, 67>>},
   PasteStart |-> {<<91, 50, 48, 48, 126>>}]

Key(b) == IF \E k \in DOMAIN Keys : b \in Keys[k] THEN CHOOSE k \in DOMAIN Keys : b \in Keys[k] ELSE "None"

Trailer == <<ESC, 91, 50, 48, 49, 126>>

EscapeEnds(key) ==
  /\ bytes' = <<>>
  /\ mode' = IF key = "PasteStart" THEN "paste" ELSE "line"
  /\ paste' = NoPaste
  /\ ed' = CASE key = "Up"        -> history_prev(Edited(ed))
             [] key = "Down"      -> history_next(ed)
             [] key = "Left"      -> Left(ed)
             [] key = "Right"     -> Right(ed)
             [] key = "Home"      -> MoveTo(ed, 0)
             [] key = "End"       -> MoveTo(ed, Len(ed.line))
             [] key = "WordLeft"  -> MoveTo(ed, word_left(ed.line, ed.cursor))
             [] key = "WordRight" -> MoveTo(ed, word_right(ed.line, ed.cursor))
             [] key = "Delete"    -> delete_char(ed)
             [] OTHER             -> ed
  /\ unsent' = IF ed'.history = 0 THEN <<>> ELSE IF ed.history = 0 THEN ed.line ELSE unsent
  /\ UNCHANGED <<menu, kill, clipboard, ring, entered>>

EscapeByte(ch) ==
  /\ mode = "escape"
  /\ IF NeedsMore(Append(bytes, ch))
     THEN bytes' = Append(bytes, ch) /\ UNCHANGED <<ed, mode, paste, menu, Kept>>
     ELSE EscapeEnds(Key(Append(bytes, ch)))

-----------------------------------------------------------------------------
(* read_bracketed_paste: state counts the bytes of the trailer matched so  *)
(* far.  A byte that does not go on with the trailer is stored behind the  *)
(* bytes held back, if all of them fit.                                    *)

FaultyPasteByte(s, ch) ==
  IF ch = Trailer[s.state + 1] THEN [s EXCEPT !.state = @ + 1]
  ELSE [state |-> 0, buf |-> IF Len(s.buf) < PasteLen THEN Append(s.buf, ch) ELSE s.buf]

PasteByte(s, ch) ==
  LET held == Append(Take(Trailer, s.state), ch) IN
  IF ch = Trailer[s.state + 1] THEN [s EXCEPT !.state = @ + 1]
  ELSE [state |-> 0, buf |-> IF Len(s.buf) + Len(held) <= PasteLen THEN s.buf \o held ELSE s.buf]

read_bracketed_paste(ch) ==
  LET next == PasteByte(paste, ch) IN
  /\ mode = "paste"
  /\ IF ch = EOF \/ next.state = Len(Trailer)
     THEN /\ ed' = Edited(splice_insert(ed, paste.buf))
          /\ mode' = "line" /\ paste' = NoPaste
     ELSE ed' = ed /\ mode' = mode /\ paste' = next
  /\ UNCHANGED <<bytes, menu, Kept>>

-----------------------------------------------------------------------------
(* Completion.                                                             *)

handle_tab_completion(ch) ==
  LET matches == Ranked(Candidates(ed.line, Commands, Directory))
      start == ReplaceStart(ed.line)
      done == Stay([ed EXCEPT !.line = Completed(@, start, matches[1], TRUE, BufLen)])
  IN /\ mode = "line" /\ ch = 9
     /\ ed' = IF Len(matches) = 1 THEN done ELSE Stay(ed)
     /\ IF Len(matches) > 1
        THEN mode' = "menu" /\ menu' = [matches |-> matches, sel |-> 1, start |-> start]
        ELSE UNCHANGED <<mode, menu>>
     /\ UNCHANGED <<bytes, paste, Kept>>

SelectNext == [menu EXCEPT !.sel = (@ % Len(menu.matches)) + 1]
SelectPrev == [menu EXCEPT !.sel = IF @ = 1 THEN Len(menu.matches) ELSE @ - 1]

Leave(e) == ed' = Stay(e) /\ mode' = "line" /\ menu' = NoMenu /\ UNCHANGED <<bytes, paste, Kept>>

(* The menu's loop: Tab and the arrows select, Enter and space accept, any *)
(* other byte is read and closes the menu.                                 *)
show_completion_menu(ch) ==
  /\ mode = "menu" /\ ch # EOF
  /\ \/ /\ ch \in {9, 6} /\ menu' = SelectNext
        /\ UNCHANGED <<ed, mode, bytes, paste, Kept>>
     \/ /\ ch = ESC /\ mode' = "menu escape"
        /\ UNCHANGED <<ed, menu, bytes, paste, Kept>>
     \/ /\ ch \in Enter \union {Space}
        /\ Leave([ed EXCEPT !.line = Completed(@, menu.start, menu.matches[menu.sel], ch = Space, BufLen)])
     \/ /\ ch \notin Enter \union {Space, 9, 6, ESC}
        /\ Leave(ed)

MenuArrow(ch) ==
  /\ mode = "menu escape"
  /\ IF bytes = <<>> THEN bytes' = <<ch>> /\ UNCHANGED <<mode, menu>>
     ELSE /\ bytes' = <<>> /\ mode' = "menu"
          /\ menu' = CASE bytes[1] = 91 /\ ch = 67 -> SelectNext
                       [] bytes[1] = 91 /\ ch = 68 -> SelectPrev
                       [] OTHER -> menu
  /\ UNCHANGED <<ed, paste, Kept>>

(* The terminal, which is not part of the program: it sends what it is     *)
(* pasting and the trailer, and otherwise what the user types.             *)
Terminal(ch) ==
  IF sent # <<>>
  THEN /\ ch = Head(sent) /\ sent' = Tail(sent)
       /\ pasted' = IF sent' = <<>> THEN <<>> ELSE pasted
  ELSE /\ ch \in user.bytes
       /\ IF mode # "paste" /\ mode' = "paste"
          THEN \E text \in Clipboards : pasted' = text /\ sent' = text \o Trailer
          ELSE UNCHANGED <<pasted, sent>>

Next ==
  /\ \E ch \in IF sent # <<>> THEN {Head(sent)} ELSE user.bytes :
       /\ \/ EnterLine(ch) \/ Printable(ch) \/ Motion(ch) \/ KillKey(ch)
          \/ YankKey(ch) \/ DeleteKey(ch) \/ BackspaceKey(ch)
          \/ StartEscape(ch) \/ EscapeByte(ch) \/ read_bracketed_paste(ch)
          \/ handle_tab_completion(ch) \/ show_completion_menu(ch) \/ MenuArrow(ch)
       /\ Terminal(ch)
  /\ UNCHANGED user

Spec == Init /\ [][Next]_vars

-----------------------------------------------------------------------------
(* Types: the line leaves room for its NUL and the cursor is in it.        *)
TypeOK ==
  /\ Len(ed.line) < BufLen /\ ed.cursor \in 0..Len(ed.line)
  /\ ed.history \in 0..Min({ring.count, MaxHistory}) /\ Len(ed.draft) <= MaxCmdLen
  /\ Len(paste.buf) <= PasteLen /\ paste.state \in 0..(Len(Trailer) - 1)
  /\ mode \in {"line", "escape", "paste", "menu", "menu escape"}
  /\ mode = "menu" => menu.sel \in 1..Len(menu.matches)

(* Browsing shows the k-th newest command, however often the ring has      *)
(* wrapped, and coming back to 0 shows what had been typed, both cut to    *)
(* MAX_CMD_LEN.                                                            *)
HistoryExact ==
  [][ed'.history # ed.history /\ mode = "escape" =>
       ed'.line = IF ed'.history = 0 THEN Take(unsent, MaxCmdLen)
                  ELSE entered[Len(entered) - ed'.history + 1]]_vars

Digit(d) == IF d = Pad THEN 0 ELSE d
DecodedGroup(q) ==
  LET b == <<Digit(q[1]) * 4 + Digit(q[2]) \div 16, (Digit(q[2]) % 16) * 16 + Digit(q[3]) \div 4,
             (Digit(q[3]) % 4) * 64 + Digit(q[4])>>
  IN IF q[3] = Pad THEN Take(b, 1) ELSE IF q[4] = Pad THEN Take(b, 2) ELSE b

(* RFC 4648 *)
Base64Decoded(digits) ==
  FlattenSeq([g \in 1..(Len(digits) \div 4) |-> DecodedGroup(SubSeq(digits, 4 * g - 3, 4 * g))])

Interrupts(text) ==
  \E i, j \in 1..Len(text) : i < j /\ text[j] = ESC /\ IsPrefix(SubSeq(text, i, j - 1), Trailer)

(* No text is lost or invented.  What a kill takes out of the line is what *)
(* the ring holds afterwards, in one piece at the cursor, so that yanking  *)
(* it there undoes the kill, and what the host's clipboard decodes to.  A  *)
(* paste ends with the last byte the terminal sends of it, and is then     *)
(* inserted as it was, its line breaks as spaces, as far as the line has   *)
(* room: stated for texts that fit the buffer and in which no escape byte  *)
(* interrupts what could be the trailer.                                   *)
TextConserved ==
  [][/\ TypeOK'
     /\ kill' # kill \/ clipboard' # clipboard =>
          ed.line = Insert(ed'.line, ed'.cursor, kill') /\ Base64Decoded(clipboard') = kill'
     /\ mode = "paste" /\ Len(sent) = 1 /\ ~ Interrupts(pasted \o Trailer) /\ Len(pasted) <= PasteLen
          => /\ mode' = "line"
             /\ ed'.line = Insert(ed.line, ed.cursor, OneLine(Take(pasted, BufLen - 1 - Len(ed.line))))]_vars

Subsequence(p, t) ==
  \E f \in [1..Len(p) -> 1..Len(t)] :
    /\ \A i \in 1..Len(p) : Lower(t[f[i]]) = Lower(p[i])
    /\ \A i \in 1..(Len(p) - 1) : f[i] < f[i + 1]

(* fuzzy_score accepts a name exactly when the pattern is a subsequence of *)
(* it but for case; and the menu offers the matching names, best first.    *)
CandidatesExact ==
  mode = "line" => LET word == Drop(ed.line, ReplaceStart(ed.line))
                       offered == Ranked(Candidates(ed.line, Commands, <<>>)) IN
    IsCommandName(ed.line) =>
      /\ {offered[i].name : i \in 1..Len(offered)} =
           {Commands[i].name : i \in {k \in 1..Len(Commands) : Subsequence(word, Commands[k].name)}}
      /\ \A i \in 1..(Len(offered) - 1) : offered[i].score >= offered[i + 1].score
=============================================================================
