---------------------------- MODULE CommandLine ----------------------------
(***************************************************************************)
(* How a typed line becomes a command: fgets_wrapper, userinputtocommand,  *)
(* append_path and freecommand, and the heap blocks they allocate, each of *)
(* which may be refused.  A word is a sequence of characters; the word of  *)
(* a command is abstracted to one character, and a tab to a blank.         *)
(***************************************************************************)
EXTENDS Integers, Sequences, FiniteSets

CONSTANTS
  BufferSize,  \* CMD_READ_BUFFER_SIZE
  Inputs       \* what the user may type in a run

\* Two of the commandlist: one with a wildcard form and one without.
CommandNames == {"get", "mget"}
Separators == {" ", "nl"}
CommandWords == {<<c>> : c \in CommandNames}
Chars == CommandNames \cup Separators \cup {"x", ":", "*", "cr"}

ASSUME BufferAssumption == BufferSize \in Nat /\ BufferSize >= 2
ASSUME InputsAssumption == Inputs \subseteq Seq(Chars)

VARIABLES
  stdin,       \* what has been typed and not read
  consumed,    \* history: what has been read
  cmd_read,    \* the line that fgets_wrapper returned
  rest,        \* what strtok_r has not looked at
  line,        \* history: how many lines were read, to name the blocks
  heap,        \* the blocks that are allocated
  input_copy,  \* the pointer is not NULL
  id,          \* the fields of struct command, "none" for -1
  npaths,
  paths,       \* the texts that were stored
  pc           \* where in main's loop and in userinputtocommand

vars == <<stdin, consumed, cmd_read, rest, line, heap, input_copy,
          id, npaths, paths, pc>>

Kinds == {"cmd", "copy", "array", "path"}
Blocks == [kind : Kinds, line : Nat, nth : Nat]

\* Every variable has its type.
TypeOK ==
  /\ stdin \in Seq(Chars) /\ consumed \in Seq(Chars)
  /\ cmd_read \in Seq(Chars) /\ rest \in Seq(Chars)
  /\ line \in Nat
  /\ heap \subseteq Blocks
  /\ input_copy \in BOOLEAN
  /\ id \in CommandNames \cup {"none", "mgetwild"}
  /\ npaths \in Nat
  /\ paths \in Seq(Seq(Chars))
  /\ pc \in {"prompt", "parse", "failed", "run", "exited"}

Init ==
  /\ stdin \in Inputs
  /\ consumed = <<>> /\ cmd_read = <<>> /\ rest = <<>>
  /\ line = 0
  /\ heap = {}
  /\ input_copy = FALSE
  /\ id = "none" /\ npaths = 0 /\ paths = <<>>
  /\ pc = "prompt"

-----------------------------------------------------------------------------
(* Text.                                                                    *)

\* Mutant: fgets is told of a buffer that is one character smaller.
FgetsTakesLess(text, k) ==
  /\ k <= BufferSize - 2
  /\ k < Len(text) /\ k < BufferSize - 2 => text[k] = "nl"
  /\ \A i \in 1..k - 1 : text[i] # "nl"

\* fgets stops after a newline and where the buffer is full.
FgetsTakes(text, k) ==
  /\ k <= BufferSize - 1
  /\ k < Len(text) /\ k < BufferSize - 1 => text[k] = "nl"
  /\ \A i \in 1..k - 1 : text[i] # "nl"

WithoutLast(text, c) ==
  IF text # <<>> /\ text[Len(text)] = c THEN SubSeq(text, 1, Len(text) - 1) ELSE text

\* Mutant: the carriage return is looked for before the newline.
ChompCrFirst(text) == WithoutLast(WithoutLast(text, "cr"), "nl")

Chomp(text) == WithoutLast(WithoutLast(text, "nl"), "cr")

IsBlank(text) == \A i \in 1..Len(text) : text[i] \in Separators

IsWord(text, i, j) ==
  /\ i <= j /\ \A k \in i..j : text[k] \notin Separators
  /\ i > 1 => text[i - 1] \in Separators
  /\ j < Len(text) => text[j + 1] \in Separators

\* strtok_r finds the word from i to j.
IsFirstWord(text, i, j) == IsWord(text, i, j) /\ IsBlank(SubSeq(text, 1, i - 1))

\* Mutant: one character too many is taken for the separator.
AfterSkipping(text, end) == SubSeq(text, end + 3, Len(text))

\* It goes on behind the separator that ends a word.
After(text, end) == SubSeq(text, end + 2, Len(text))

WithBlanks(word) == [i \in 1..Len(word) |-> IF word[i] = ":" THEN " " ELSE word[i]]

-----------------------------------------------------------------------------
(* The heap.                                                                *)

Block(kind, n) == [kind |-> kind, line |-> line, nth |-> n]

\* Mutant: the paths are taken to be in the array's block.
FreecommandShallow ==
  {Block("cmd", 0)} \cup IF npaths > 0 THEN {Block("array", 0)} ELSE {}

\* What freecommand frees.
Freecommand ==
  {Block("cmd", 0)} \cup
  IF npaths > 0 THEN {Block("array", 0)} \cup {Block("path", k) : k \in 1..npaths} ELSE {}

\* What free(input_copy) frees.
FreeCopy == IF input_copy THEN {Block("copy", 0)} ELSE {}

-----------------------------------------------------------------------------

\* A line is read and userinputtocommand allocates the command and a copy of
\* the line. Without memory for them it returns NULL and the loop goes on.
ReadLine ==
  /\ pc = "prompt" /\ stdin # <<>>
  /\ \E k \in 1..Len(stdin) :
       /\ FgetsTakes(stdin, k)
       /\ stdin' = SubSeq(stdin, k + 1, Len(stdin))
       /\ consumed' = consumed \o SubSeq(stdin, 1, k)
       /\ cmd_read' = Chomp(SubSeq(stdin, 1, k))
  /\ line' = line + 1
  /\ rest' = cmd_read'
  /\ id' = "none" /\ npaths' = 0 /\ paths' = <<>>
  /\ \/ pc' = "prompt" /\ input_copy' = FALSE /\ heap' = heap
     \/ /\ pc' = "parse" /\ input_copy' = TRUE
        /\ heap' = heap \cup {Block("cmd", 0)', Block("copy", 0)'}

\* One path is stored; the array that realloc may move keeps its name here.
AppendPath(word) ==
  /\ npaths' = npaths + 1
  /\ paths' = Append(paths, WithBlanks(word))
  /\ heap' = heap \cup {Block("array", 0), Block("path", npaths + 1)}
  /\ pc' = pc

\* Mutant: npaths is not taken back when the text cannot be stored.
AppendPathFailsCounting ==
  /\ pc' = "failed"
  /\ heap' \in {heap, heap \cup {Block("array", 0)}}
  /\ npaths' = IF heap' = heap THEN npaths ELSE npaths + 1
  /\ paths' = paths

\* realloc fails and leaves the array as it was, or malloc fails behind it.
AppendPathFails ==
  /\ pc' = "failed"
  /\ heap' \in {heap, heap \cup {Block("array", 0)}}
  /\ UNCHANGED <<npaths, paths>>

\* A word is skipped until one is a command, and is a path then.
Token(word) ==
  IF id = "none"
  THEN /\ id' = IF word \in CommandWords THEN word[1] ELSE "none"
       /\ UNCHANGED <<heap, npaths, paths, pc>>
  ELSE (AppendPath(word) \/ AppendPathFails) /\ id' = id

\* One turn of the loop, which ends with input_copy = NULL.
Word ==
  /\ pc = "parse"
  /\ \E start, end \in 1..Len(rest) :
       /\ IsFirstWord(rest, start, end)
       /\ rest' = After(rest, end)
       /\ Token(SubSeq(rest, start, end))
  /\ input_copy' = FALSE
  /\ UNCHANGED <<stdin, consumed, cmd_read, line>>

\* A path could not be stored: everything is freed and the line forgotten.
GiveUp ==
  /\ pc = "failed"
  /\ heap' = heap \ (FreeCopy \cup Freecommand)
  /\ pc' = "prompt"
  /\ UNCHANGED <<stdin, consumed, cmd_read, rest, line, input_copy, id, npaths, paths>>

Wildcard(name) ==
  IF name = "mget" /\ npaths > 0 /\ paths[1] = <<"*">> THEN "mgetwild" ELSE name

\* Mutant: a line without a command is forgotten as it is.
EndOfWordsKeeping ==
  /\ pc = "parse" /\ IsBlank(rest)
  /\ id' = Wildcard(id)
  /\ pc' = IF id = "none" THEN "prompt" ELSE "run"
  /\ heap' = heap \ FreeCopy
  /\ UNCHANGED <<stdin, consumed, cmd_read, rest, line, input_copy, npaths, paths>>

\* The rest of userinputtocommand: NULL unless there was a command.
EndOfWords ==
  /\ pc = "parse" /\ IsBlank(rest)
  /\ id' = Wildcard(id)
  /\ IF id = "none"
     THEN pc' = "prompt" /\ heap' = heap \ (FreeCopy \cup Freecommand)
     ELSE pc' = "run" /\ heap' = heap \ FreeCopy
  /\ UNCHANGED <<stdin, consumed, cmd_read, rest, line, input_copy, npaths, paths>>

\* The command was executed, or refused for want of a connection.
Execute ==
  /\ pc = "run"
  /\ heap' = heap \ Freecommand
  /\ pc' = "prompt"
  /\ UNCHANGED <<stdin, consumed, cmd_read, rest, line, input_copy, id, npaths, paths>>

EndOfInput ==
  /\ pc = "prompt" /\ stdin = <<>>
  /\ pc' = "exited"
  /\ UNCHANGED <<stdin, consumed, cmd_read, rest, line, heap, input_copy, id, npaths, paths>>

Terminated == pc = "exited" /\ UNCHANGED vars

Next == ReadLine \/ Word \/ GiveUp \/ EndOfWords \/ Execute \/ EndOfInput \/ Terminated

Spec == Init /\ [][Next]_vars

-----------------------------------------------------------------------------
(* Properties.                                                              *)

\* Whatever allocation failed before, freecommand follows only pointers to
\* blocks that are allocated: nothing is freed twice or without being stored.
FreesAreValid == pc \in {"parse", "failed", "run"} => Freecommand \subseteq heap

\* Back at the prompt no command and no path is left on the heap. What is left
\* are copies of lines (common.c:126 frees NULL) and path arrays of which the
\* first path could not be stored (common.c:169 does not free them).
OnlyCopiesAndArraysLeak ==
  pc = "prompt" => \A b \in heap : b.kind \in {"copy", "array"}

\* Where the words of a text are, and those that begin in its first n characters.
WordPlaces(text) ==
  {p \in (1..Len(text)) \X (1..Len(text)) : IsWord(text, p[1], p[2])}

WordsWithin(text, n) == {p \in WordPlaces(text) : p[1] <= n}

\* The words of a text, in their order.
WordPlace(text, k) ==
  CHOOSE p \in WordPlaces(text) : Cardinality(WordsWithin(text, p[1])) = k

Words(text) ==
  [k \in 1..Cardinality(WordPlaces(text)) |->
     SubSeq(text, WordPlace(text, k)[1], WordPlace(text, k)[2])]

\* A command that is executed is the first command word of the line, and its
\* paths are the words behind it: none is lost, joined or taken twice.
CommandIsTyped ==
  LET words == Words(cmd_read)
  IN pc = "run" =>
       \E n \in 1..Len(words) :
         /\ words[n] \in CommandWords /\ id = Wildcard(words[n][1])
         /\ \A i \in 1..n - 1 : words[i] \notin CommandWords
         /\ npaths = Len(words) - n
         /\ paths = [i \in 1..npaths |-> WithBlanks(words[n + i])]

\* The line that the end of a text belongs to.
LastLine(text) ==
  SubSeq(text, 1 + CHOOSE i \in 0..Len(text) - 1 :
                     /\ i = 0 \/ text[i] = "nl"
                     /\ \A j \in i + 1..Len(text) - 1 : text[j] # "nl", Len(text))

LineEnds == {<<>>, <<"nl">>, <<"cr">>, <<"cr", "nl">>}

EndsWith(text, e) ==
  Len(e) <= Len(text) /\ SubSeq(text, Len(text) - Len(e) + 1, Len(text)) = e

\* A line that fits into the buffer with its end is read whole, alone and
\* without any of its end; only longer ones are split (ftp_client_funcs.c:355).
ShortLinesAreWhole ==
  LET typed == LastLine(consumed)
  IN consumed # <<>> /\ Len(typed) < BufferSize =>
       \E e \in LineEnds :
         /\ typed = cmd_read \o e
         /\ \A f \in LineEnds : EndsWith(typed, f) => Len(f) <= Len(e)

-----------------------------------------------------------------------------
(* The inductive invariant behind the heap's properties.                    *)

\* The blocks on the heap are those of the current command, and leaks; blocks
\* of lines to come do not exist.
HeapInv ==
  /\ \A b \in heap :
       /\ b.line <= line
       /\ b.kind \in {"cmd", "path"} =>
            pc \in {"parse", "failed", "run"} /\ b \in Freecommand
  /\ FreesAreValid

CommandInv == TypeOK /\ HeapInv

-----------------------------------------------------------------------------
(* The inductive invariant behind the texts' properties.                    *)

\* Where fgets begins: behind a line, or behind a full buffer of one line.
Begins(text, n) ==
  \/ n = 0 \/ text[n] = "nl"
  \/ n >= BufferSize - 1 /\ \A i \in n - BufferSize + 2..n : text[i] # "nl"

\* cmd_read is what fgets took last, chomped: it lies within one line.
ReadInv ==
  /\ \E n \in 0..Len(consumed) :
       /\ n = Len(consumed) => consumed = <<>>
       /\ Begins(consumed, n)
       /\ \A i \in n + 1..Len(consumed) - 1 : consumed[i] # "nl"
       /\ cmd_read = Chomp(SubSeq(consumed, n + 1, Len(consumed)))
  /\ stdin # <<>> => Begins(consumed, Len(consumed))

\* What strtok_r has passed of a text, and what is behind it.
Splits(text, a, behind) ==
  /\ a \in 0..Len(text) /\ behind = SubSeq(text, a + 1, Len(text))
  /\ a > 0 /\ behind # <<>> => text[a] \in Separators

\* The command and the paths that the first k words make.
CommandOf(words, k, name, number, texts) ==
  \/ /\ name = "none" /\ number = 0 /\ texts = <<>>
     /\ \A i \in 1..k : words[i] \notin CommandWords
  \/ \E n \in 1..k :
       /\ words[n] \in CommandWords /\ name = words[n][1]
       /\ \A i \in 1..n - 1 : words[i] \notin CommandWords
       /\ number = k - n
       /\ texts = [i \in 1..number |-> WithBlanks(words[n + i])]

\* strtok_r stands between two words, and the command so far is the one that
\* the words before it make.
ParseInv ==
  LET passed == Len(cmd_read) - Len(rest)
      seen == Cardinality(WordsWithin(cmd_read, passed))
  IN pc = "parse" =>
       /\ Splits(cmd_read, passed, rest)
       /\ CommandOf(Words(cmd_read), seen, id, npaths, paths)

TextInv == TypeOK /\ ReadInv /\ ParseInv /\ CommandIsTyped
=============================================================================
