------------------------------- MODULE HttpReply -------------------------------
(***************************************************************************)
(* The function process of Project-2/webserver_part1.c and _part2.c, which *)
(* have the same text: the reply to a request, by the file tree and the    *)
(* directory the server runs in.  A path is a sequence of names and "/";   *)
(* of what the pages say there are the ends of line, and whose they are.   *)
(***************************************************************************)
EXTENDS Integers, Sequences, SequencesExt, FiniteSets

CONSTANTS Cwd,          \* path of the server's working directory
          Files,        \* names, from the root, of the regular files
          Dirs,         \* and of the directories
          Unreadable,   \* those that fopen or opendir refuses
          Text,         \* body of each page: ends of line and the text between
          Buffer        \* what the stream's buffer holds of a reply

ASSUME HttpReplyAssumption == /\ Unreadable \subseteq Files \cup Dirs
                              /\ Text \in [Files \cup Dirs -> Seq({"text", "crlf"})]
                              /\ Buffer \in Nat \ {0}

\* A path denotes a file or directory when it has slashes between its names;
\* a path that ends in a slash denotes a directory only.
Name(path) == SelectSeq(path, LAMBDA e : e # "/")
Slashed(path) == \A k \in 1 .. Len(path) - 1 : path[k] = "/" \/ path[k + 1] = "/"
EndsInSlash(path) == Last(path) = "/"
IsDir(path) == Slashed(path) /\ Name(path) \in Dirs
Exists(path) == \/ IsDir(path)
                \/ Slashed(path) /\ ~EndsInSlash(path) /\ Name(path) \in Files

\* A reply: its status and what it is of.  Two that are none: a line of fewer
\* than three words is not answered, and to list a directory that could not be
\* opened is readdir(NULL), which ends the server.
Page(status, path) == [status |-> status, of |-> Name(path)]
NoReply == Page(0, <<>>)
Crash == Page(-1, <<>>)

\* send_error; of the pages of errors only a redirection names the path.
Error(status) == Page(status, <<>>)

\* fopen and opendir need a descriptor, and the right to read.
CanOpen(path, free) == free /\ Name(path) \notin Unreadable

\* send_file: 403 when the file cannot be opened.
SendFile(path, free) == IF CanOpen(path, free) THEN Page(200, path) ELSE Error(403)

\* The loop over the directory's entries, which are not told apart.
Listing(path, free) == IF CanOpen(path, free) THEN Page(200, path) ELSE Crash

\* The index is looked for under the working directory's path taken twice.
IndexPath(path) == Cwd \o path \o <<"index.html">>

\* A request line of fewer than three words has no path.
Malformed(req) == req.path = <<>>

\* process, after the parse; free: there is a descriptor for a file.
Reply(req, free) ==
  LET path == Cwd \o req.path IN
  CASE Malformed(req) -> NoReply
    [] ~Malformed(req) /\ req.method # "GET" -> Error(501)
    [] ~Malformed(req) /\ req.method = "GET" ->
         IF ~Exists(path) THEN Error(404)
         ELSE IF ~IsDir(path) THEN SendFile(path, free)
         ELSE IF ~EndsInSlash(path) THEN Page(302, path)
         ELSE IF Exists(IndexPath(path)) THEN SendFile(IndexPath(path), free)
         ELSE Listing(path, free)

\* What is written to the stream: the headers up to the line that ends them,
\* the two ends of line that make the blank line, and the body.
HeaderLen == 3
Body(page) == IF page.status = 200 THEN Text[page.of] ELSE <<"text">>
Kinds(page) == IF page.status > 0 THEN <<"headers", "crlf", "crlf">> \o Body(page) ELSE <<>>
Carried(page) == [k \in 1 .. Len(Kinds(page)) |-> [is |-> Kinds(page)[k], page |-> page, at |-> k]]
==============================================================================
