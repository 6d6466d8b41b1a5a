------------------------------- MODULE WordCount -------------------------------
(***************************************************************************)
(* Project-1/wc_multi.c: a parent forks one child per file; a child counts *)
(* its file and writes the three numbers to a pipe; the parent, which      *)
(* never calls wait, reads one record per file and adds it to the total.   *)
(* The children are asynchronous, fork and pipe may fail, and a child may  *)
(* be killed: the model is of who holds which end of the pipe, and so of   *)
(* when a read blocks, when it meets the end of the pipe and when a write  *)
(* kills its writer.                                                       *)
(*                                                                         *)
(* A record is 12 bytes and is written and read whole; MAX_FILES records   *)
(* do not fill a pipe, so that writes do not block.  A file that cannot be *)
(* opened counts as an empty one and is given as an empty text.            *)
(***************************************************************************)
EXTENDS Integers, Sequences, SequencesExt

CONSTANTS MAX_FILES,   \* bound on the command line's number of files, 10 in the code
          MAX_SIZE,    \* bound on the files and their characters, added up
          Garbage      \* what the uninitialised record of a read may hold

Chars == {"letter", "space", "newline", "xFF"}

\* What count_t may hold, and what the counting of a text makes of it.
Records == [lines : Int, words : Int, chars : Int]
Counts == [lines : Nat, words : Nat, chars : Nat]
ZeroCount == [lines |-> 0, words |-> 0, chars |-> 0]

ASSUME WordCountAssumption == /\ MAX_FILES \in Nat \ {0} /\ MAX_SIZE \in Nat
                              /\ ZeroCount \in Garbage /\ Garbage \subseteq Records

Texts(max) == UNION {[1 .. n -> Chars] : n \in 0 .. max}

VARIABLES
  text,    \* contents of each file: its domain is the set of files
  ppc,     \* parent: "pipe", "fork", "read", "done", and when it gives up
           \* "failed" (fork) and "noPipe" (pipe)
  i,       \* files forked for
  j,       \* records read
  cpc,     \* child: "none", "count", "close", "write", "exit", "done", "killed"
  tmp,     \* count of each child
  pipe,    \* records written and not read
  readers, writers,    \* processes that hold fp[0] and fp[1]
  kk,      \* record the parent read last
  count    \* total of the parent

vars == <<text, ppc, i, j, cpc, tmp, pipe, readers, writers, kk, count>>

Files == DOMAIN text
numFiles == Cardinality(Files)
Parent == -1

-----------------------------------------------------------------------------
(* word_count.                                                             *)

Separators == {"space", "newline"}

Add(a, b) == [lines |-> a.lines + b.lines, words |-> a.words + b.words,
              chars |-> a.chars + b.chars]

CountChar(c, ch) ==
  [lines |-> IF ch = "newline" THEN c.lines + 1 ELSE c.lines,
   words |-> IF ch \in Separators THEN c.words + 1 ELSE c.words,
   chars |-> IF ch \in Separators THEN c.chars ELSE c.chars + 1]

\* ch is a char: byte 255 is read as EOF and ends the loop.
BeforeEOF(t) ==
  LET ends == {k \in 1 .. Len(t) : t[k] = "xFF"}
  IN  IF ends = {} THEN t ELSE SubSeq(t, 1, Min(ends) - 1)

\* Mutant of WordCount: the last word, which no separator ends, is forgotten.
WordCountOpen(t) == FoldLeft(CountChar, ZeroCount, BeforeEOF(t))

\* Separators are counted; the last line and word, which none ends, are added.
WordCount(t) ==
  LET c == FoldLeft(CountChar, ZeroCount, BeforeEOF(t))
  IN  IF c.chars > 0 THEN [c EXCEPT !.lines = @ + 1, !.words = @ + 1] ELSE c

-----------------------------------------------------------------------------
(* The parent.                                                             *)

Init ==
  /\ \E n \in 1 .. MAX_FILES : text \in [0 .. n - 1 -> Texts(MAX_SIZE - n)]
  /\ numFiles + MapThenSumSet(LAMBDA f : Len(text[f]), Files) <= MAX_SIZE
  /\ ppc = "pipe"
  /\ i = 0 /\ j = 0
  /\ cpc = [f \in Files |-> "none"]
  /\ tmp = [f \in Files |-> ZeroCount]
  /\ pipe = <<>>
  /\ readers = {} /\ writers = {}
  /\ kk = ZeroCount
  /\ count = ZeroCount

MakePipe ==
  /\ ppc = "pipe"
  /\ ppc' = "fork"
  /\ readers' = {Parent} /\ writers' = {Parent}
  /\ UNCHANGED <<text, i, j, cpc, tmp, pipe, kk, count>>

\* Without a pipe nothing is counted and a total of zero is printed.
PipeFails ==
  /\ ppc = "pipe"
  /\ ppc' = "noPipe"
  /\ UNCHANGED <<text, i, j, cpc, tmp, pipe, readers, writers, kk, count>>

\* Mutant of Fork: the loop forks one child too many.
ForkPast ==
  /\ ppc = "fork"
  /\ i <= numFiles
  /\ cpc' = [f \in Files \cup {i} |-> IF f = i THEN "count" ELSE cpc[f]]
  /\ readers' = readers \cup {i} /\ writers' = writers \cup {i}
  /\ i' = i + 1
  /\ UNCHANGED <<text, ppc, j, tmp, pipe, kk, count>>

\* The child inherits both ends.
Fork ==
  /\ ppc = "fork"
  /\ i < numFiles
  /\ cpc' = [cpc EXCEPT ![i] = "count"]
  /\ readers' = readers \cup {i} /\ writers' = writers \cup {i}
  /\ i' = i + 1
  /\ UNCHANGED <<text, ppc, j, tmp, pipe, kk, count>>

\* exit(EXIT_FAILURE): the children forked so far are left behind.
ForkFails ==
  /\ ppc = "fork"
  /\ i < numFiles
  /\ ppc' = "failed"
  /\ readers' = readers \ {Parent} /\ writers' = writers \ {Parent}
  /\ UNCHANGED <<text, i, j, cpc, tmp, pipe, kk, count>>

\* Mutant of CloseWrite: the parent keeps its write end while it reads.
CloseWriteForgotten ==
  /\ ppc = "fork"
  /\ i = numFiles
  /\ ppc' = "read"
  /\ UNCHANGED <<text, i, j, cpc, tmp, pipe, readers, writers, kk, count>>

CloseWrite ==
  /\ ppc = "fork"
  /\ i = numFiles
  /\ ppc' = "read"
  /\ writers' = writers \ {Parent}
  /\ UNCHANGED <<text, i, j, cpc, tmp, pipe, readers, kk, count>>

\* Mutant of ReadRecord: the record is left in the pipe.
ReadRecordTwice ==
  /\ ppc = "read" /\ j < numFiles
  /\ pipe # <<>>
  /\ kk' = Head(pipe)
  /\ pipe' = IF j = 0 THEN pipe ELSE Tail(pipe)
  /\ count' = Add(count, kk')
  /\ j' = j + 1
  /\ UNCHANGED <<text, ppc, i, cpc, tmp, readers, writers>>

\* read blocks while the pipe is empty and somebody may still write.
ReadRecord ==
  /\ ppc = "read" /\ j < numFiles
  /\ pipe # <<>>
  /\ kk' = Head(pipe)
  /\ pipe' = Tail(pipe)
  /\ count' = Add(count, kk')
  /\ j' = j + 1
  /\ UNCHANGED <<text, ppc, i, cpc, tmp, readers, writers>>

\* Mutant of ReadEnd: a read of an empty pipe does not wait.
ReadEndEarly ==
  /\ ppc = "read" /\ j < numFiles
  /\ pipe = <<>>
  /\ kk' \in {kk} \cup Garbage
  /\ count' = Add(count, kk')
  /\ j' = j + 1
  /\ UNCHANGED <<text, ppc, i, cpc, tmp, pipe, readers, writers>>

\* At the end of the pipe read returns 0 and leaves kk as it was: what the
\* previous turn of the loop left in its place, or any bytes.  It is added.
ReadEnd ==
  /\ ppc = "read" /\ j < numFiles
  /\ pipe = <<>> /\ writers = {}
  /\ kk' \in {kk} \cup Garbage
  /\ count' = Add(count, kk')
  /\ j' = j + 1
  /\ UNCHANGED <<text, ppc, i, cpc, tmp, pipe, readers, writers>>

\* Mutant of Report: the loop that reads is one short.
ReportShort ==
  /\ ppc = "read"
  /\ j >= numFiles - 1
  /\ ppc' = "done"
  /\ readers' = readers \ {Parent}
  /\ UNCHANGED <<text, i, j, cpc, tmp, pipe, writers, kk, count>>

\* The total is printed and main returns, without a wait.
Report ==
  /\ ppc = "read"
  /\ j = numFiles
  /\ ppc' = "done"
  /\ readers' = readers \ {Parent}
  /\ UNCHANGED <<text, i, j, cpc, tmp, pipe, writers, kk, count>>

-----------------------------------------------------------------------------
(* A child.                                                                *)

Count(c) ==
  /\ cpc[c] = "count"
  /\ tmp' = [tmp EXCEPT ![c] = WordCount(text[c])]
  /\ cpc' = [cpc EXCEPT ![c] = "close"]
  /\ UNCHANGED <<text, ppc, i, j, pipe, readers, writers, kk, count>>

CloseRead(c) ==
  /\ cpc[c] = "close"
  /\ readers' = readers \ {c}
  /\ cpc' = [cpc EXCEPT ![c] = "write"]
  /\ UNCHANGED <<text, ppc, i, j, tmp, pipe, writers, kk, count>>

Write(c) ==
  /\ cpc[c] = "write"
  /\ readers # {}
  /\ pipe' = Append(pipe, tmp[c])
  /\ cpc' = [cpc EXCEPT ![c] = "exit"]
  /\ UNCHANGED <<text, ppc, i, j, tmp, readers, writers, kk, count>>

\* Nobody can read any more: SIGPIPE.
WriteKills(c) ==
  /\ cpc[c] = "write"
  /\ readers = {}
  /\ cpc' = [cpc EXCEPT ![c] = "killed"]
  /\ writers' = writers \ {c}
  /\ UNCHANGED <<text, ppc, i, j, tmp, pipe, readers, kk, count>>

Exit(c) ==
  /\ cpc[c] = "exit"
  /\ cpc' = [cpc EXCEPT ![c] = "done"]
  /\ writers' = writers \ {c}
  /\ UNCHANGED <<text, ppc, i, j, tmp, pipe, readers, kk, count>>

\* The environment: a child dies before it wrote, and its ends are closed.
Kill(c) ==
  /\ cpc[c] \in {"count", "close", "write"}
  /\ cpc' = [cpc EXCEPT ![c] = "killed"]
  /\ readers' = readers \ {c} /\ writers' = writers \ {c}
  /\ UNCHANGED <<text, ppc, i, j, tmp, pipe, kk, count>>

ParentStep == \/ MakePipe \/ PipeFails \/ Fork \/ ForkFails \/ CloseWrite
              \/ ReadRecord \/ ReadEnd \/ Report
ChildStep(c) == Count(c) \/ CloseRead(c) \/ Write(c) \/ WriteKills(c) \/ Exit(c)

Next == ParentStep \/ \E c \in Files : ChildStep(c) \/ Kill(c)

Spec == Init /\ [][Next]_vars

FairSpec == /\ Spec
            /\ WF_vars(ParentStep)
            /\ \A c \in 0 .. MAX_FILES - 1 : WF_vars(c \in Files /\ ChildStep(c))

-----------------------------------------------------------------------------
(* Properties.                                                             *)

\* Types; the parent forks and reads within its loops, and a pipe end is held
\* by a process that lives.
TypeOK ==
  /\ ppc \in {"pipe", "fork", "read", "done", "failed", "noPipe"}
  /\ i \in 0 .. numFiles /\ j \in 0 .. numFiles
  /\ cpc \in [Files -> {"none", "count", "close", "write", "exit", "done", "killed"}]
  /\ tmp \in [Files -> Counts]
  /\ pipe \in Seq(Counts) /\ Len(pipe) <= numFiles
  /\ readers \subseteq Files \cup {Parent} /\ writers \subseteq Files \cup {Parent}
  /\ \A c \in Files : c \in writers <=> cpc[c] \notin {"none", "done", "killed"}
  /\ kk \in Records /\ count \in Records

\* A text in which single separators stand between words, and nowhere else.
Tidy(t) ==
  /\ t # <<>> /\ \A k \in 1 .. Len(t) : t[k] # "xFF"
  /\ t[1] = "letter" /\ t[Len(t)] = "letter"
  /\ \A k \in 1 .. Len(t) - 1 : t[k] \in Separators => t[k + 1] = "letter"

\* On a tidy text word_count, which counts separators, counts the lines and the
\* words: maximal runs of letters (wc_multi.c 21-60).
CountsWords ==
  \A c \in Files : cpc[c] \in {"close", "write", "exit", "done"} /\ Tidy(text[c]) =>
    LET t == text[c] IN
    tmp[c] = [lines |-> 1 + Cardinality({k \in 1 .. Len(t) : t[k] = "newline"}),
              words |-> Cardinality({k \in 1 .. Len(t) :
                          /\ t[k] = "letter"
                          /\ k = 1 \/ t[k - 1] \in Separators}),
              chars |-> Cardinality({k \in 1 .. Len(t) : t[k] = "letter"})]

SumOf(fs) == FoldFunctionOnSet(Add, ZeroCount, [f \in Files |-> WordCount(text[f])], fs)

\* While no child was killed and no call failed, no count is lost, doubled or
\* invented on its way through the pipe: what the parent has added, what is in
\* the pipe and what is still to be written make up the files (64-139).
CountsConserved ==
  ppc \notin {"failed", "noPipe"} /\ (\A c \in Files : cpc[c] # "killed") =>
    Add(count, Add(FoldSeq(Add, ZeroCount, pipe),
                   SumOf({c \in Files : cpc[c] \notin {"exit", "done"}}))) = SumOf(Files)

\* Without a wait in the code, the parent still reports only when every child
\* has written or died: no child loses its reader to a parent that finished.
ReportsLast ==
  ppc = "done" => \A c \in Files : cpc[c] \in {"exit", "done", "killed"}

\* Every process ends, whichever children are killed and whichever call fails:
\* the parent's reads return because it has closed its own write end (118).
EveryProcessEnds ==
  <>(/\ ppc \in {"done", "failed", "noPipe"}
     /\ \A c \in Files : cpc[c] \in {"none", "done", "killed"})
==============================================================================
