------------------------- MODULE CommandLineProofs -------------------------
(***************************************************************************)
(* The heap of the command line, for every size of the buffer, every input *)
(* and every pattern of allocation failures.                               *)
(***************************************************************************)
EXTENDS CommandLine, TLAPS

USE BufferAssumption

\* The texts the actions compute are texts.
LEMMA Slices ==
  ASSUME NEW text \in Seq(Chars), NEW i \in Nat \ {0}, NEW j \in Nat, j <= Len(text)
  PROVE  SubSeq(text, i, j) \in Seq(Chars)
OBVIOUS

LEMMA ChompType ==
  ASSUME NEW text \in Seq(Chars)
  PROVE  Chomp(text) \in Seq(Chars)
<1>1. \A s \in Seq(Chars), c \in Chars : WithoutLast(s, c) \in Seq(Chars)
  BY DEF WithoutLast
<1>2. "nl" \in Chars /\ "cr" \in Chars
  BY DEF Chars, Separators
<1>3. QED
  BY <1>1, <1>2 DEF Chomp

LEMMA WithBlanksType ==
  ASSUME NEW word \in Seq(Chars)
  PROVE  WithBlanks(word) \in Seq(Chars)
<1>1. " " \in Chars
  BY DEF Chars, Separators
<1>2. Len(word) \in Nat /\ \A i \in 1..Len(word) : word[i] \in Chars
  OBVIOUS
<1>3. \A i \in 1..Len(word) :
        (IF word[i] = ":" THEN " " ELSE word[i]) \in Chars
  BY <1>1, <1>2
<1>4. WithBlanks(word) \in [1..Len(word) -> Chars]
  BY <1>3 DEF WithBlanks
<1>5. QED
  BY <1>2, <1>4

LEMMA BlockType ==
  ASSUME TypeOK, NEW kind \in Kinds, NEW n \in Nat
  PROVE  Block(kind, n) \in Blocks
BY DEF TypeOK, Block, Blocks

-----------------------------------------------------------------------------
(* Type correctness.                                                        *)

LEMMA ReadLineType ==
  ASSUME TypeOK, ReadLine
  PROVE  TypeOK'
<1> USE DEF TypeOK, ReadLine
<1>1. PICK k \in 1..Len(stdin) :
        /\ stdin' = SubSeq(stdin, k + 1, Len(stdin))
        /\ consumed' = consumed \o SubSeq(stdin, 1, k)
        /\ cmd_read' = Chomp(SubSeq(stdin, 1, k))
  OBVIOUS
<1>2. SubSeq(stdin, 1, k) \in Seq(Chars) /\ SubSeq(stdin, k + 1, Len(stdin)) \in Seq(Chars)
  BY <1>1, Slices
<1>3. stdin' \in Seq(Chars)
  BY <1>1, <1>2
<1>4. consumed' \in Seq(Chars)
  BY <1>1, <1>2
<1>5. cmd_read' \in Seq(Chars)
  <2>1. Chomp(SubSeq(stdin, 1, k)) \in Seq(Chars)
    BY <1>2, ChompType
  <2>2. QED
    BY <1>1, <2>1
<1>6. rest' \in Seq(Chars)
  BY <1>5
<1>7. line' \in Nat /\ heap' \subseteq Blocks
  BY DEF Block, Blocks, Kinds
<1>8. id' = "none" /\ npaths' = 0 /\ paths' = <<>> /\ paths' \in Seq(Seq(Chars))
  <2>1. <<>> \in Seq(Seq(Chars))
    OBVIOUS
  <2>2. QED
    BY <2>1
<1>9. input_copy' \in BOOLEAN /\ pc' \in {"prompt", "parse"}
  OBVIOUS
<1>10. QED
  BY <1>3, <1>4, <1>5, <1>6, <1>7, <1>8, <1>9

LEMMA WordType ==
  ASSUME TypeOK, Word
  PROVE  TypeOK'
<1> USE DEF TypeOK
<1>1. PICK start \in 1..Len(rest), end \in 1..Len(rest) :
        rest' = After(rest, end) /\ Token(SubSeq(rest, start, end))
  BY DEF Word
<1> DEFINE word == SubSeq(rest, start, end)
<1>2. word \in Seq(Chars)
  BY <1>1, Slices
<1>3. rest' \in Seq(Chars)
  BY <1>1 DEF After
<1>4. /\ input_copy' = FALSE
      /\ UNCHANGED <<stdin, consumed, cmd_read, line>>
      /\ pc = "parse"
  BY DEF Word
<1> HIDE DEF word
<1>5. Token(word)
  BY <1>1 DEF word
<1>6. CASE id = "none"
  <2>1. id' \in CommandNames \cup {"none"}
    BY <1>5, <1>6 DEF Token, CommandWords
  <2>2. QED
    BY <1>3, <1>4, <1>5, <1>6, <2>1 DEF Token
<1>7. CASE id # "none" /\ AppendPath(word) /\ id' = id
  <2>1. paths' \in Seq(Seq(Chars))
    BY <1>2, <1>7, WithBlanksType DEF AppendPath
  <2>2. heap' \subseteq Blocks
    BY <1>7, BlockType DEF AppendPath, Kinds
  <2>3. npaths' \in Nat /\ pc' = pc
    BY <1>7 DEF AppendPath
  <2>4. QED
    BY <1>3, <1>4, <1>7, <2>1, <2>2, <2>3
<1>8. CASE id # "none" /\ AppendPathFails /\ id' = id
  <2>1. heap' \subseteq Blocks
    BY <1>8, BlockType DEF AppendPathFails, Kinds
  <2>2. QED
    BY <1>3, <1>4, <1>8, <2>1 DEF AppendPathFails
<1>9. QED
  BY <1>5, <1>6, <1>7, <1>8 DEF Token

\* Every step keeps the types.
LEMMA TypeStep ==
  ASSUME TypeOK, [Next]_vars
  PROVE  TypeOK'
<1>1. CASE ReadLine
  BY <1>1, ReadLineType
<1>2. CASE Word
  BY <1>2, WordType
<1>3. CASE GiveUp
  BY <1>3 DEF GiveUp, TypeOK
<1>4. CASE EndOfWords
  BY <1>4 DEF EndOfWords, Wildcard, TypeOK
<1>5. CASE Execute
  BY <1>5 DEF Execute, TypeOK
<1>6. CASE EndOfInput
  BY <1>6 DEF EndOfInput, TypeOK
<1>7. CASE UNCHANGED vars
  BY <1>7 DEF vars, TypeOK
<1>8. QED
  BY <1>1, <1>2, <1>3, <1>4, <1>5, <1>6, <1>7 DEF Next, Terminated

-----------------------------------------------------------------------------
(* The heap.                                                                *)

\* Freecommand in the next state, when the line is the same.
LEMMA SameCommand ==
  ASSUME npaths' = npaths, line' = line
  PROVE  Freecommand' = Freecommand
BY DEF Freecommand, Block

LEMMA FreedKinds ==
  ASSUME TypeOK
  PROVE  /\ \A b \in Freecommand : b.kind \in {"cmd", "array", "path"} /\ b.line = line
         /\ \A b \in FreeCopy : b.kind = "copy"
BY DEF Freecommand, FreeCopy, Block, TypeOK

LEMMA ReadLineHeap ==
  ASSUME TypeOK, HeapInv, ReadLine
  PROVE  HeapInv'
<1>1. line \in Nat /\ line' = line + 1 /\ npaths' = 0 /\ pc = "prompt"
  BY DEF ReadLine, TypeOK
<1>2. \A b \in heap : b.line <= line /\ b.line \in Nat /\ b.kind \notin {"cmd", "path"}
  BY <1>1 DEF HeapInv, TypeOK, Blocks
<1>3. Freecommand' = {Block("cmd", 0)'}
  BY <1>1 DEF Freecommand
<1>4. CASE pc' = "prompt" /\ heap' = heap
  BY <1>1, <1>2, <1>4 DEF HeapInv, FreesAreValid
<1>5. CASE pc' = "parse" /\ heap' = heap \cup {Block("cmd", 0)', Block("copy", 0)'}
  <2>1. /\ Block("cmd", 0)'.kind = "cmd" /\ Block("cmd", 0)'.line = line'
        /\ Block("copy", 0)'.kind = "copy" /\ Block("copy", 0)'.line = line'
    BY DEF Block
  <2>2. \A b \in heap' :
          /\ b.line <= line'
          /\ b.kind \in {"cmd", "path"} => pc' = "parse" /\ b \in Freecommand'
    BY <1>1, <1>2, <1>3, <1>5, <2>1
  <2>3. FreesAreValid'
    BY <1>3, <1>5 DEF FreesAreValid
  <2>4. QED
    BY <2>2, <2>3 DEF HeapInv
<1>6. QED
  BY <1>4, <1>5 DEF ReadLine

LEMMA TokenHeap ==
  ASSUME TypeOK, HeapInv, pc = "parse", line' = line, NEW word, Token(word)
  PROVE  HeapInv'
<1>1. Freecommand \subseteq heap
  BY DEF HeapInv, FreesAreValid
<1>2. line \in Nat /\ npaths \in Nat
  BY DEF TypeOK
<1>3. CASE UNCHANGED <<heap, npaths, pc>>
  BY <1>1, <1>3, SameCommand DEF HeapInv, FreesAreValid
<1>4. CASE AppendPath(word)
  <2>1. /\ npaths' = npaths + 1 /\ pc' = pc
        /\ heap' = heap \cup {Block("array", 0), Block("path", npaths + 1)}
    BY <1>4 DEF AppendPath
  <2>2. Freecommand' = Freecommand \cup {Block("array", 0), Block("path", npaths + 1)}
    BY <1>2, <2>1 DEF Freecommand, Block
  <2>3. Block("array", 0).line = line /\ Block("path", npaths + 1).line = line
    BY DEF Block
  <2>4. QED
    BY <1>1, <1>2, <2>1, <2>2, <2>3 DEF HeapInv, FreesAreValid
<1>5. CASE AppendPathFails
  <2>1. /\ npaths' = npaths /\ pc' = "failed"
        /\ heap' = heap \/ heap' = heap \cup {Block("array", 0)}
    BY <1>5 DEF AppendPathFails
  <2>2. Block("array", 0).kind = "array" /\ Block("array", 0).line = line
    BY DEF Block
  <2>3. QED
    BY <1>1, <1>2, <2>1, <2>2, SameCommand DEF HeapInv, FreesAreValid
<1>6. QED
  BY <1>3, <1>4, <1>5 DEF Token

\* Freeing the command leaves copies and arrays only.
LEMMA Forgotten ==
  ASSUME TypeOK, HeapInv, NEW more, heap' = heap \ (more \cup Freecommand),
         pc' = "prompt", line' = line
  PROVE  HeapInv'
BY DEF HeapInv, FreesAreValid

LEMMA EndOfWordsHeap ==
  ASSUME TypeOK, HeapInv, EndOfWords
  PROVE  HeapInv'
<1>1. CASE id = "none"
  BY <1>1, Forgotten DEF EndOfWords
<1>2. CASE id # "none"
  <2>1. /\ pc = "parse" /\ pc' = "run" /\ heap' = heap \ FreeCopy
        /\ line' = line /\ npaths' = npaths
    BY <1>2 DEF EndOfWords
  <2>2. Freecommand' = Freecommand /\ Freecommand \subseteq heap'
    BY <2>1, SameCommand, FreedKinds DEF HeapInv, FreesAreValid
  <2>3. QED
    BY <2>1, <2>2 DEF HeapInv, FreesAreValid
<1>3. QED
  BY <1>1, <1>2

LEMMA InitialTypes ==
  ASSUME Init
  PROVE  TypeOK
<1>1. stdin \in Seq(Chars)
  BY InputsAssumption DEF Init
<1>2. /\ consumed = <<>> /\ cmd_read = <<>> /\ rest = <<>> /\ paths = <<>>
      /\ line = 0 /\ npaths = 0 /\ heap = {} /\ input_copy = FALSE
      /\ id = "none" /\ pc = "prompt"
  BY DEF Init
<1>3. <<>> \in Seq(Chars) /\ <<>> \in Seq(Seq(Chars))
  OBVIOUS
<1>4. QED
  BY <1>1, <1>2, <1>3 DEF TypeOK

\* CommandInv is inductive.
THEOREM CommandInvariant == Spec => []CommandInv
<1>1. Init => CommandInv
  <2>1. Init => HeapInv
    BY DEF Init, HeapInv, FreesAreValid
  <2>2. QED
    BY <2>1, InitialTypes DEF CommandInv
<1>2. CommandInv /\ [Next]_vars => CommandInv'
  <2> SUFFICES ASSUME TypeOK, HeapInv, [Next]_vars PROVE HeapInv'
    BY TypeStep DEF CommandInv
  <2>1. CASE ReadLine
    BY <2>1, ReadLineHeap
  <2>2. CASE Word
    BY <2>2, TokenHeap DEF Word
  <2>3. CASE GiveUp
    BY <2>3, Forgotten DEF GiveUp
  <2>4. CASE EndOfWords
    BY <2>4, EndOfWordsHeap
  <2>5. CASE Execute
    <3>1. heap' = heap \ ({} \cup Freecommand) /\ pc' = "prompt" /\ line' = line
      BY <2>5 DEF Execute
    <3>2. QED
      BY <3>1, Forgotten
  <2>6. CASE EndOfInput
    BY <2>6 DEF EndOfInput, HeapInv, FreesAreValid
  <2>7. CASE UNCHANGED vars
    BY <2>7, SameCommand DEF vars, HeapInv, FreesAreValid
  <2>8. QED
    BY <2>1, <2>2, <2>3, <2>4, <2>5, <2>6, <2>7 DEF Next, Terminated
<1>3. QED
  BY <1>1, <1>2, PTL DEF Spec

\* freecommand only follows pointers to allocated blocks (common.c:169).
THEOREM FreesValid == Spec => []FreesAreValid
<1>1. CommandInv => FreesAreValid
  BY DEF CommandInv, HeapInv
<1>2. QED
  BY <1>1, CommandInvariant, PTL

\* No command and no path ever leaks (userinputtocommand and main's loop).
THEOREM LeaksAreKnown == Spec => []OnlyCopiesAndArraysLeak
<1>1. CommandInv => OnlyCopiesAndArraysLeak
  BY DEF CommandInv, HeapInv, TypeOK, OnlyCopiesAndArraysLeak, Blocks, Kinds
<1>2. QED
  BY <1>1, CommandInvariant, PTL
=============================================================================
