----------------------------- MODULE Completion -----------------------------
(***************************************************************************)
(* The shell's completion (userland/shell/src/completion.rs) and the text  *)
(* operations of its line editor, as operators on sequences of bytes.      *)
(***************************************************************************)
EXTENDS Integers, Sequences, FiniteSets, SequencesExt, FiniteSetsExt

Space == 32
Slash == 47
Lower(b) == IF b \in 65..90 THEN b + 32 ELSE b

Take(s, n) == SubSeq(s, 1, Min({n, Len(s)}))
Drop(s, n) == SubSeq(s, n + 1, Len(s))

-----------------------------------------------------------------------------
(* fuzzy_score: the target is scanned once, each byte taken for the next   *)
(* byte of the pattern when they agree but for case.  -1 as prev is none.  *)
Boundary(target, i) == i = 1 \/ target[i - 1] \in {Slash, 45, 95}

ScoreByte(pattern, target, acc, i) ==
  LET p == acc.taken + 1 IN
  IF p > Len(pattern) \/ Lower(pattern[p]) # Lower(target[i]) THEN acc
  ELSE [taken |-> p, prev |-> i,
        score |-> acc.score + 10 + (IF Boundary(target, i) THEN 15 ELSE 0)
                                 + (IF acc.prev = i - 1 THEN 20 ELSE 0)
                                 + (IF pattern[p] = target[i] THEN 5 ELSE 0)]

Scanned(pattern, target) ==
  FoldLeft(LAMBDA acc, i : ScoreByte(pattern, target, acc, i),
           [taken |-> 0, prev |-> -1, score |-> 0], [i \in 1..Len(target) |-> i])

FaultyMatches(pattern, target) ==
  Len(pattern) <= Len(target) /\ Scanned(pattern, target).taken + 1 >= Len(pattern)

fuzzy_matches(pattern, target) ==
  Len(pattern) <= Len(target) /\ Scanned(pattern, target).taken = Len(pattern)

fuzzy_score(pattern, target) ==
  IF pattern = <<>> THEN 0 ELSE Scanned(pattern, target).score - (Len(target) - Len(pattern))

-----------------------------------------------------------------------------
(* The candidates for a line, in the order in which the exchange sort      *)
(* leaves them.  The limit of 24 is above the 22 commands and the entries  *)
(* that one getdents64 buffer holds.                                       *)

Blank(b) == b \in {Space, 9}

FirstWord(line) == Min({i \in 1..(Len(line) + 1) : i = Len(line) + 1 \/ ~ Blank(line[i])})

IsCommandName(line) == \A i \in FirstWord(line)..Len(line) : ~ Blank(line[i])

(* Where the word to complete starts, counted from 0.                      *)
ReplaceStart(line) ==
  IF IsCommandName(line) THEN FirstWord(line) - 1
  ELSE Max({i \in 0..Len(line) : i = 0 \/ Blank(line[i])})

Candidate(name, is_dir, pattern) == [name |-> name, is_dir |-> is_dir, score |-> fuzzy_score(pattern, name)]

Candidates(line, commands, dir) ==
  LET pattern == Drop(line, ReplaceStart(line))
      from == IF IsCommandName(line) THEN commands
              ELSE SelectSeq(dir, LAMBDA e : e.name[1] # 46 \/ (pattern # <<>> /\ pattern[1] = 46))
      matching == SelectSeq(from, LAMBDA e : fuzzy_matches(pattern, e.name))
  IN [i \in 1..Len(matching) |-> Candidate(matching[i].name, matching[i].is_dir, pattern)]

Exchange(s, i, j) == IF s[j].score > s[i].score THEN [s EXCEPT ![i] = s[j], ![j] = s[i]] ELSE s

Pairs(n) == FlattenSeq([i \in 1..n |-> [k \in 1..(n - i) |-> <<i, i + k>>]])

Ranked(s) == FoldLeft(LAMBDA acc, ij : Exchange(acc, ij[1], ij[2]), s, Pairs(Len(s)))

(* The line with the chosen candidate in place of the word, when it fits a *)
(* buffer of size bytes; a directory gets a slash, another name a space    *)
(* when space is TRUE.                                                     *)
Completed(line, start, m, space, size) ==
  IF start + Len(m.name) + 1 < size
  THEN Take(line, start) \o m.name \o (IF m.is_dir THEN <<Slash>> ELSE IF space THEN <<Space>> ELSE <<>>)
  ELSE line

-----------------------------------------------------------------------------
(* The editor's operations on a line.                                      *)

Insert(line, at, data) == Take(line, at) \o data \o Drop(line, at)
Without(line, from, to) == Take(line, from) \o Drop(line, to)

OneLine(data) == [i \in 1..Len(data) |-> IF data[i] \in {10, 13} THEN Space ELSE data[i]]

word_left(line, at) ==
  LET end == Max({i \in 0..at : i = 0 \/ ~ Blank(line[i])})
  IN Max({i \in 0..end : i = 0 \/ Blank(line[i])})

word_right(line, at) ==
  LET end == Min({i \in at..Len(line) : i = Len(line) \/ Blank(line[i + 1])})
  IN Min({i \in end..Len(line) : i = Len(line) \/ ~ Blank(line[i + 1])})

(* Base64, as digits 0..63, with 64 for the padding.                       *)
Pad == 64

Group(b) ==
  LET b1 == IF Len(b) > 1 THEN b[2] ELSE 0
      b2 == IF Len(b) > 2 THEN b[3] ELSE 0
  IN <<b[1] \div 4, (b[1] % 4) * 16 + b1 \div 16,
       IF Len(b) > 1 THEN (b1 % 16) * 4 + b2 \div 64 ELSE Pad,
       IF Len(b) > 2 THEN b2 % 64 ELSE Pad>>

base64_encode(src) ==
  FlattenSeq([g \in 1..((Len(src) + 2) \div 3) |-> Group(SubSeq(src, 3 * g - 2, Min({3 * g, Len(src)})))])
=============================================================================
