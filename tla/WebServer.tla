------------------------------- MODULE WebServer -------------------------------
(***************************************************************************)
(* The two web servers of Project-2 with their peers.  webserver_part1.c   *)
(* creates a thread per connection, webserver_part2.c gives connections to *)
(* the thread pool; but for that they are one program, and the variable    *)
(* design says which one runs.  The peers are htmlget.c (one connection),  *)
(* the threads of one process of htmlget_multi.c, and foreign peers, which *)
(* may stall, leave or break their connection at any point.                *)
(*                                                                         *)
(* The pool is the abstract one, JobPool, which ThreadPool implements.  A  *)
(* connection is also the name of the job that handles it; the job itself  *)
(* knows only the descriptor it was given.  Sockets are external: Linux's  *)
(* TCP as far as the programs can tell it.                                 *)
(***************************************************************************)
EXTENDS Integers, HttpReply

CONSTANTS Conns,        \* connections that peers may make, each once
          Loads,        \* who may make them: functions from Conns to Peers
          Requests,     \* requests of foreign peers
          Workers,      \* threads of the pool
          MaxThreads,   \* threads the system lets part1 create
          MaxFd,        \* descriptors the system lets the server have open
          Backlog       \* of listen: 5 in the code

\* "none": the connection is not made.
Peers == {"htmlget", "multi", "foreign", "none"}

ASSUME WebServerAssumption ==
  /\ Loads \subseteq [Conns -> Peers]
  /\ Workers \in Nat \ {0} /\ MaxThreads \in Nat /\ MaxFd \in Nat /\ Backlog \in Nat

VARIABLES
  design,     \* "threads" (part1) or "pool" (part2)
  who,        \* the peer of each connection
  alive,      \* the server runs
  backlog,    \* connections made and not accepted
  fds,        \* connection of each open descriptor of the server
  lpc, s,     \* listener: "accept" or "check" the descriptor s, which is local to
              \* one turn of the loop
  arg,        \* the descriptor each job was given
  hpc,        \* handler: "none", "read", "line", "path", "takepath", "proto",
              \* "takeproto", "reply", "done"
  todo,       \* what is in the handler's stream or still to be put there
  file,       \* descriptor of the file or directory it has open, 0: none
  saved,      \* strtok's position, one for all threads: it is in the line of
              \* this connection's handler (none before the first line)
  from,       \* the position that the strtok a handler is in has read
  spoiled,    \* handlers whose words may not be those of their own line
  torn,       \* handlers whose line may have been written to anywhere, until the
              \* line is gone
  created,    \* threads created by part1, which reclaims none
  pending, running, finished,    \* the pool's jobs
  peer,       \* peer's end: "none", "open", "closed", "aborted" (it broke the
              \* connection), "reset" (the next write of the server kills it)
  request,    \* requests sent, on each connection at most one
  reply,      \* what was written to each connection
  cpc,        \* client: "start", "send", "recv", "done", "exit"
  taken,      \* how much of reply the client has received
  buf,        \* htmlget: contents of its buffer, up to the last byte not 0
  htmlstart,  \* htmlget: the end of the headers was seen
  shown,      \* htmlget: what it printed
  mixed,      \* history: handlers that took their line apart while another did
  cut         \* history: connections where a recv ended inside the blank line

parse == <<saved, from, spoiled, torn, mixed>>
server == <<alive, backlog, fds, lpc, s, arg, hpc, todo, file, created, parse>>
pool == <<pending, running, finished>>
sockets == <<peer, request, reply>>
client == <<cpc, taken, buf, htmlstart, shown, cut>>
vars == <<design, who, server, pool, sockets, client>>

None == [method |-> "none", path |-> <<>>]
OwnRequest == [method |-> "GET", path |-> <<"/", "index.html">>]

Pool == INSTANCE JobPool WITH Clients <- {}, Jobs <- Conns,
                              waiting <- {}, phase <- "open"

Init ==
  /\ design \in {"threads", "pool"}
  /\ who \in Loads
  /\ alive = TRUE
  /\ backlog = <<>> /\ fds = [d \in {} |-> None] /\ lpc = "accept" /\ s = 0
  /\ arg = [c \in Conns |-> 0] /\ hpc = [c \in Conns |-> "none"]
  /\ todo = [c \in Conns |-> <<>>]
  /\ file = [c \in Conns |-> 0]
  /\ saved = {} /\ from = [c \in Conns |-> {}] /\ spoiled = {} /\ torn = {} /\ mixed = {}
  /\ created = 0
  /\ Pool!Init
  /\ peer = [c \in Conns |-> "none"]
  /\ request = [c \in Conns |-> None]
  /\ reply = [c \in Conns |-> <<>>]
  /\ cpc = [c \in Conns |-> IF who[c] = "none" THEN "exit" ELSE "start"]
  /\ taken = [c \in Conns |-> 0]
  /\ buf = [c \in Conns |-> <<>>]
  /\ htmlstart = [c \in Conns |-> FALSE]
  /\ shown = [c \in Conns |-> <<>>]
  /\ cut = {}

-----------------------------------------------------------------------------
(* The listener.                                                           *)

Fds == 1 .. MaxFd
Open(d, c) == [e \in DOMAIN fds \cup {d} |-> IF e = d THEN c ELSE fds[e]]
Closed(d) == [e \in DOMAIN fds \ {d} |-> fds[e]]

\* The system gives out the lowest descriptor that no socket or file has.
FreeFds == Fds \ (DOMAIN fds \cup {file[j] : j \in Conns})
Lowest == CHOOSE d \in FreeFds : \A e \in FreeFds : d <= e

\* accept.  Without a descriptor it returns -1, for which getpeername fails
\* twice, and the loop turns: nothing changes.
Accept ==
  /\ alive /\ lpc = "accept"
  /\ backlog # <<>>
  /\ FreeFds # {}
  /\ s' = Lowest
  /\ fds' = Open(s', Head(backlog))
  /\ backlog' = Tail(backlog)
  /\ lpc' = "check"
  /\ UNCHANGED <<design, who, alive, arg, hpc, todo, file, created, parse, pool, sockets, client>>

\* getpeername fails: the descriptor is kept open and forgotten.
Forget ==
  /\ alive /\ lpc = "check"
  /\ peer[fds[s]] = "aborted"
  /\ lpc' = "accept" /\ s' = 0
  /\ UNCHANGED <<design, who, alive, backlog, fds, arg, hpc, todo, file, created, parse,
                 pool, sockets, client>>

\* Mutant of AddWork: the listener closes the descriptor it has handed over.
AddWorkClosing ==
  /\ alive /\ lpc = "check" /\ design = "pool"
  /\ peer[fds[s]] # "aborted"
  /\ Pool!Submit /\ pending' = Append(pending, fds[s])
  /\ arg' = [arg EXCEPT ![fds[s]] = s]
  /\ fds' = Closed(s)
  /\ lpc' = "accept" /\ s' = 0
  /\ UNCHANGED <<design, who, alive, backlog, hpc, todo, file, created, parse,
                 sockets, client>>

\* part2: thpool_add_work(thpool, handler, s)
AddWork ==
  /\ alive /\ lpc = "check" /\ design = "pool"
  /\ peer[fds[s]] # "aborted"
  /\ Pool!Submit /\ pending' = Append(pending, fds[s])
  /\ arg' = [arg EXCEPT ![fds[s]] = s]
  /\ lpc' = "accept" /\ s' = 0
  /\ UNCHANGED <<design, who, alive, backlog, fds, hpc, todo, file, created, parse,
                 sockets, client>>

\* part1: pthread_create(&thread1, NULL, handler, s)
CreateThread ==
  /\ alive /\ lpc = "check" /\ design = "threads"
  /\ peer[fds[s]] # "aborted"
  /\ created < MaxThreads
  /\ created' = created + 1
  /\ arg' = [arg EXCEPT ![fds[s]] = s]
  /\ running' = running \cup {fds[s]}
  /\ hpc' = [hpc EXCEPT ![fds[s]] = "read"]
  /\ lpc' = "accept" /\ s' = 0
  /\ UNCHANGED <<design, who, alive, backlog, fds, todo, file, parse, pending, finished,
                 sockets, client>>

\* part1: the error number of a failed pthread_create is printed as a string.
CreateFails ==
  /\ alive /\ lpc = "check" /\ design = "threads"
  /\ peer[fds[s]] # "aborted"
  /\ created = MaxThreads
  /\ alive' = FALSE
  /\ UNCHANGED <<design, who, backlog, fds, lpc, s, arg, hpc, todo, file, created, parse,
                 pool, sockets, client>>

Listener == Accept \/ Forget \/ AddWork \/ CreateThread \/ CreateFails

-----------------------------------------------------------------------------
(* handler and process, on the connection that the descriptor stands for.  *)

\* Mutant of Socket: the job is given the listener's variable, not its value.
SocketShared(j) == IF s \in DOMAIN fds THEN fds[s] ELSE fds[arg[j]]
Socket(j) == fds[arg[j]]

\* A thread of the pool takes the job.
StartJob ==
  /\ alive /\ design = "pool"
  /\ Cardinality(running) < Workers
  /\ Pool!Start
  /\ hpc' = [hpc EXCEPT ![Head(pending)] = "read"]
  /\ UNCHANGED <<design, who, alive, backlog, fds, lpc, s, arg, todo, file, created, parse,
                 sockets, client>>

\* Handlers that take their line apart: fgets is done, the last strtok is not.
Parsing == {j \in Conns : hpc[j] \in {"line", "path", "takepath", "proto", "takeproto"}}

\* fgets blocks until a line is there or the peer's end is gone.
ReadLine(j) ==
  /\ alive /\ hpc[j] = "read"
  /\ request[Socket(j)] # None
  /\ mixed' = IF Parsing = {} THEN mixed ELSE mixed \cup Parsing \cup {j}
  /\ hpc' = [hpc EXCEPT ![j] = "line"]
  /\ UNCHANGED <<design, who, alive, backlog, fds, lpc, s, arg, todo, file, created,
                 saved, from, spoiled, torn, pool, sockets, client>>

ReadFails(j) ==
  /\ alive /\ hpc[j] = "read"
  /\ request[Socket(j)] = None
  /\ peer[Socket(j)] \in {"closed", "aborted"}
  /\ hpc' = [hpc EXCEPT ![j] = "reply"]
  /\ UNCHANGED <<design, who, alive, backlog, fds, lpc, s, arg, todo, file, created, parse,
                 pool, sockets, client>>

\* method = strtok(buf, " ") sets the position that all threads share.
TakeMethod(j) ==
  /\ alive /\ hpc[j] = "line"
  /\ saved' = {j}
  /\ hpc' = [hpc EXCEPT ![j] = "path"]
  /\ UNCHANGED <<design, who, alive, backlog, fds, lpc, s, arg, todo, file, created,
                 from, spoiled, torn, mixed, pool, sockets, client>>

\* strtok(NULL, ...) begins: it reads the position ...
Resume(j) ==
  /\ alive /\ hpc[j] \in {"path", "proto"}
  /\ from' = [from EXCEPT ![j] = saved]
  /\ hpc' = [hpc EXCEPT ![j] = IF hpc[j] = "path" THEN "takepath" ELSE "takeproto"]
  /\ UNCHANGED <<design, who, alive, backlog, fds, lpc, s, arg, todo, file, created,
                 saved, spoiled, torn, mixed, pool, sockets, client>>

\* ... and ends: a NUL is written behind the word, and the position set behind it.
\* In the line of another handler this spoils the words of both.  The line of a
\* handler that is done was on a stack which a thread of the pool uses again,
\* perhaps for the line of another, which is torn anywhere; part1 joins no thread,
\* and their stacks stay.
Stale(j) == design = "pool" /\ from[j] \subseteq finished
Spoils(j) == CASE from[j] = {j} -> {{}}
               [] from[j] # {j} /\ Stale(j) -> {{j, k} : k \in Parsing}
               [] from[j] # {j} /\ ~Stale(j) -> {{j} \cup (from[j] \cap Parsing)}
Tears(j, hit) == IF Stale(j) \/ from[j] \cap torn # {} THEN hit ELSE {}

\* _path = strtok(NULL, " ")
TakePath(j) ==
  /\ alive /\ hpc[j] = "takepath"
  /\ \E hit \in Spoils(j) : spoiled' = spoiled \cup hit /\ torn' = torn \cup Tears(j, hit)
  /\ saved' = from[j] /\ from' = [from EXCEPT ![j] = {}]
  /\ hpc' = [hpc EXCEPT ![j] = "proto"]
  /\ UNCHANGED <<design, who, alive, backlog, fds, lpc, s, arg, todo, file, created,
                 mixed, pool, sockets, client>>

\* What a handler with spoiled words may take for its request: as the path a
\* word of any line that was read, or nothing; when its line is torn any piece of
\* these, and a part of its method.
LineRead == {c \in Conns : hpc[c] # "none"}
Words == {<<>>, <<"HTTP/1.0">>} \cup {request[c].path : c \in LineRead}
Pieces(path) == {SubSeq(path, a, b) : a \in 1 .. Len(path), b \in 0 .. Len(path)}
Misread(req) == [method : {req.method}, path : Words]
Mangled(req) == [method : {req.method, "part"}, path : UNION {Pieces(word) : word \in Words}]
Understood(j, hit) ==
  LET req == request[Socket(j)] IN
  IF j \in torn \cup Tears(j, hit) THEN Mangled(req)
  ELSE IF j \in spoiled \cup hit THEN Misread(req)
  ELSE {req}

\* protocol = strtok(NULL, "\r"), and the rest of process up to the first write.
\* Its words are done with; and when nobody else is in a line the position is not
\* read again before it is set.
Respond(j) ==
  /\ alive /\ hpc[j] = "takeproto"
  /\ saved' = IF Parsing = {j} THEN {} ELSE from[j]
  /\ from' = [from EXCEPT ![j] = {}]
  /\ \E hit \in Spoils(j) :
       /\ spoiled' = (spoiled \cup hit) \ {j} /\ torn' = torn \cup Tears(j, hit)
       /\ \E req \in Understood(j, hit) :
            LET page == Reply(req, FreeFds # {})
            IN  IF page = Crash THEN alive' = FALSE /\ UNCHANGED <<hpc, todo, file>>
                ELSE /\ todo' = [todo EXCEPT ![j] = Carried(page)]
                     /\ file' = IF page.status = 200 THEN [file EXCEPT ![j] = Lowest] ELSE file
                     /\ hpc' = [hpc EXCEPT ![j] = "reply"]
                     /\ alive' = alive
  /\ UNCHANGED <<design, who, backlog, fds, lpc, s, arg, created, mixed, pool, sockets, client>>

\* The stream is written when its buffer is full, and by fclose at the end, when
\* the file has been read and closed.
Writing(j) == /\ alive /\ hpc[j] = "reply" /\ todo[j] # <<>>
              /\ file[j] = 0 \/ Len(todo[j]) > Buffer
Block(j) == IF Len(todo[j]) > Buffer THEN Buffer ELSE Len(todo[j])

\* One write of the stream's buffer.  What is written to a peer that has left
\* is lost, and may be answered with a reset before the next write.
WriteOut(j) ==
  LET c == Socket(j) IN
  /\ Writing(j)
  /\ peer[c] # "reset"
  /\ todo' = [todo EXCEPT ![j] = SubSeq(@, Block(j) + 1, Len(@))]
  /\ reply' = IF peer[c] = "open" THEN [reply EXCEPT ![c] = @ \o SubSeq(todo[j], 1, Block(j))]
              ELSE reply
  /\ \/ peer[c] = "aborted" /\ peer' = [peer EXCEPT ![c] = "reset"]
     \/ peer[c] = "closed" /\ peer' = [peer EXCEPT ![c] = "reset"]
     \/ peer[c] # "aborted" /\ peer' = peer
  /\ UNCHANGED <<design, who, alive, backlog, fds, lpc, s, arg, hpc, file, created, parse,
                 pool, request, client>>

\* SIGPIPE is not ignored: the write after a reset ends the server.
WriteKills(j) ==
  /\ Writing(j)
  /\ peer[Socket(j)] = "reset"
  /\ alive' = FALSE
  /\ UNCHANGED <<design, who, backlog, fds, lpc, s, arg, hpc, todo, file, created, parse,
                 pool, sockets, client>>

\* fclose(file), or closedir, when all of it is in the stream.
CloseFile(j) ==
  /\ alive /\ hpc[j] = "reply" /\ file[j] # 0
  /\ Len(todo[j]) <= Buffer
  /\ file' = [file EXCEPT ![j] = 0]
  /\ UNCHANGED <<design, who, alive, backlog, fds, lpc, s, arg, hpc, todo, created, parse,
                 pool, sockets, client>>

\* Mutant of CloseStream: the stream is flushed but not closed.
CloseStreamNot(j) ==
  /\ alive /\ hpc[j] = "reply" /\ todo[j] = <<>> /\ file[j] = 0
  /\ hpc' = [hpc EXCEPT ![j] = "done"]
  /\ Pool!Finish /\ finished' = finished \cup {j}
  /\ UNCHANGED <<design, who, alive, backlog, fds, lpc, s, arg, todo, file, created, parse,
                 sockets, client>>

\* Mutant of CloseStream: the handler ends without giving its thread back.
CloseStreamStays(j) ==
  /\ alive /\ hpc[j] = "reply" /\ todo[j] = <<>> /\ file[j] = 0
  /\ fds' = Closed(arg[j])
  /\ hpc' = [hpc EXCEPT ![j] = "done"]
  /\ UNCHANGED <<design, who, alive, backlog, lpc, s, arg, todo, file, created, parse, pool,
                 sockets, client>>

\* fclose(f), after which the thread is free for another job.
CloseStream(j) ==
  /\ alive /\ hpc[j] = "reply" /\ todo[j] = <<>> /\ file[j] = 0
  /\ fds' = Closed(arg[j]) /\ arg' = [arg EXCEPT ![j] = 0]
  /\ hpc' = [hpc EXCEPT ![j] = "done"] /\ torn' = torn \ {j}
  /\ Pool!Finish /\ finished' = finished \cup {j}
  /\ UNCHANGED <<design, who, alive, backlog, lpc, s, todo, file, created,
                 saved, from, spoiled, mixed, sockets, client>>

Handler(j) == \/ ReadLine(j) \/ ReadFails(j) \/ TakeMethod(j) \/ Resume(j) \/ TakePath(j) \/ Respond(j)
              \/ WriteOut(j) \/ WriteKills(j) \/ CloseFile(j) \/ CloseStream(j)

-----------------------------------------------------------------------------
(* htmlget and the threads of htmlget_multi.                               *)

\* The process of connection c exits: the threads of htmlget_multi together.
\* A connection with data that was not received is broken, not closed.
Process(c) == IF who[c] = "multi" THEN {d \in Conns : who[d] = "multi"} ELSE {c}
ExitProcess(c) ==
  /\ cpc' = [d \in Conns |-> IF d \in Process(c) /\ cpc[d] # "done" THEN "exit" ELSE cpc[d]]
  /\ peer' = [d \in Conns |-> IF d \notin Process(c) \/ peer[d] # "open" THEN peer[d]
                              ELSE IF taken[d] < Len(reply[d]) THEN "aborted" ELSE "closed"]

\* The kernel completes the connection while the backlog has room.
Connect(c) ==
  /\ cpc[c] = "start"
  /\ alive /\ Len(backlog) <= Backlog
  /\ backlog' = Append(backlog, c)
  /\ peer' = [peer EXCEPT ![c] = "open"]
  /\ cpc' = [cpc EXCEPT ![c] = "send"]
  /\ UNCHANGED <<design, who, alive, fds, lpc, s, arg, hpc, todo, file, created, parse, pool,
                 request, reply, taken, buf, htmlstart, shown, cut>>

\* connect is refused, or gives up while the backlog is full: exit(1).
ConnectFails(c) ==
  /\ who[c] # "foreign" /\ cpc[c] = "start"
  /\ ~alive \/ Len(backlog) > Backlog
  /\ ExitProcess(c)
  /\ UNCHANGED <<design, who, server, pool, request, reply, taken, buf, htmlstart, shown, cut>>

SendQuery(c) ==
  /\ who[c] # "foreign" /\ cpc[c] = "send"
  /\ request' = [request EXCEPT ![c] = OwnRequest]
  /\ cpc' = [cpc EXCEPT ![c] = "recv"]
  /\ UNCHANGED <<design, who, server, pool, peer, reply, taken, buf, htmlstart, shown, cut>>

\* The server is gone: exit(1), or the death of the process by SIGPIPE.
SendFails(c) ==
  /\ who[c] # "foreign" /\ cpc[c] = "send"
  /\ ~alive
  /\ ExitProcess(c)
  /\ UNCHANGED <<design, who, server, pool, request, reply, taken, buf, htmlstart, shown, cut>>

\* recv puts the data over the start of the buffer.
View(c, data) == data \o SubSeq(buf[c], Len(data) + 1, Len(buf[c]))

\* Mutant of Cleared: without the memset what was received before stays.
ClearedNot(view, n) == view

\* memset(buf, 0, tmpres)
Cleared(view, n) == IF n >= Len(view) THEN <<>>
                    ELSE [k \in 1 .. Len(view) |-> IF k <= n THEN None ELSE view[k]]

\* Where strstr finds a blank line in the buffer: the place of its first half.
BlankLines(view) == {k \in 1 .. Len(view) - 1 : view[k].is = "crlf" /\ view[k + 1].is = "crlf"}

\* htmlget: print the buffer, from after the first blank line on if there is one.
Show(c, view) ==
  /\ htmlstart' = [htmlstart EXCEPT ![c] = @ \/ BlankLines(view) # {}]
  /\ shown' = [shown EXCEPT ![c] =
                 IF htmlstart[c] THEN @ \o view
                 ELSE IF BlankLines(view) = {} THEN @
                 ELSE SubSeq(view, Min(BlankLines(view)) + 2, Len(view))]

\* recv returns any part of what has arrived; htmlget_multi takes no notice.
Receive(c) ==
  /\ who[c] # "foreign" /\ cpc[c] = "recv"
  /\ \E upto \in taken[c] + 1 .. Len(reply[c]) :
       LET data == SubSeq(reply[c], taken[c] + 1, upto)
           view == View(c, data)
       IN  /\ taken' = [taken EXCEPT ![c] = upto]
           /\ cut' = IF upto = HeaderLen - 1 THEN cut \cup {c} ELSE cut
           /\ IF who[c] = "htmlget"
              THEN /\ Show(c, view)
                   /\ buf' = [buf EXCEPT ![c] = Cleared(view, Len(data))]
              ELSE /\ upto = Len(reply[c])
                   /\ UNCHANGED <<buf, htmlstart, shown>>
  /\ UNCHANGED <<design, who, server, pool, sockets, cpc>>

\* The server has closed its end of the connection.
Ended(c) == /\ peer[c] # "none" /\ c \notin ToSet(backlog)
            /\ \A d \in DOMAIN fds : fds[d] # c

\* recv returns 0 once the server has closed its end and everything was
\* received, or -1 when the server died; close(sock).
ReceiveEnd(c) ==
  /\ who[c] # "foreign" /\ cpc[c] = "recv"
  /\ \/ ~alive
     \/ Ended(c) /\ taken[c] = Len(reply[c])
  /\ cpc' = [cpc EXCEPT ![c] = "done"]
  /\ peer' = [peer EXCEPT ![c] = "closed"]
  /\ UNCHANGED <<design, who, server, pool, request, reply, taken, buf, htmlstart, shown, cut>>

Client(c) == \/ Connect(c) \/ ConnectFails(c) \/ SendQuery(c) \/ SendFails(c)
             \/ Receive(c) \/ ReceiveEnd(c)

-----------------------------------------------------------------------------
(* Foreign peers; they connect as the others do.                           *)

Ask(c) ==
  /\ who[c] = "foreign" /\ peer[c] = "open"
  /\ request[c] = None
  /\ \E r \in Requests : request' = [request EXCEPT ![c] = r]
  /\ UNCHANGED <<design, who, server, pool, peer, reply, client>>

Leave(c) ==
  /\ who[c] = "foreign" /\ peer[c] = "open"
  /\ peer' \in {[peer EXCEPT ![c] = "closed"], [peer EXCEPT ![c] = "aborted"]}
  /\ UNCHANGED <<design, who, server, pool, request, reply, client>>

\* A step of the server or of one of the course's own clients.
ProgramStep == \/ Listener \/ StartJob
               \/ \E c \in Conns : Handler(c) \/ (who[c] # "foreign" /\ Client(c))

ForeignStep == \E c \in Conns : \/ who[c] = "foreign" /\ Connect(c)
                                \/ Ask(c) \/ Leave(c)

Next == ProgramStep \/ ForeignStep

Spec == Init /\ [][Next]_vars

\* The machine does not idle while a program can take a step.  No more is needed:
\* a connection is made once and takes a bounded number of steps.
FairSpec == Spec /\ WF_vars(ProgramStep)

-----------------------------------------------------------------------------
(* Properties.                                                             *)

Jobs == ToSet(pending) \cup running

\* Types, the limits of the system and of the pool, and no more pool jobs
\* running than the pool has threads.
TypeOK ==
  /\ alive \in BOOLEAN /\ lpc \in {"accept", "check"} /\ s \in 0 .. MaxFd
  /\ backlog \in Seq(Conns) /\ Len(backlog) <= Backlog + 1
  /\ DOMAIN fds \subseteq Fds /\ \A d \in DOMAIN fds : fds[d] \in Conns
  /\ arg \in [Conns -> 0 .. MaxFd]
  /\ hpc \in [Conns -> {"none", "read", "line", "path", "takepath", "proto", "takeproto",
                    "reply", "done"}]
  /\ file \in [Conns -> 0 .. MaxFd]
  /\ saved \subseteq Conns /\ from \in [Conns -> SUBSET Conns] /\ spoiled \subseteq Conns
  /\ created \in 0 .. MaxThreads
  /\ design = "pool" => Cardinality(running) <= Workers
  /\ \A j \in Conns : j \in running <=> hpc[j] \notin {"none", "done"}
  /\ peer \in [Conns -> {"none", "open", "closed", "aborted", "reset"}]
  /\ cpc \in [Conns -> {"start", "send", "recv", "done", "exit"}]
  /\ \A c \in Conns : taken[c] \in 0 .. Len(reply[c])

\* A handler knows its connection only by the number it was given, and numbers
\* are used again: while a job is queued or running its number still stands for
\* the connection it was accepted for, and for no file.  No descriptor is lost but
\* those of peers that broke their connection before getpeername (part1 204,
\* part2 703), and a file is open only while its handler replies.
DescriptorsAccounted ==
  alive =>
    /\ \A j \in Jobs : arg[j] \in DOMAIN fds /\ fds[arg[j]] = j
    /\ \A d \in DOMAIN fds :
         \/ lpc = "check" /\ s = d
         \/ \E j \in Jobs : arg[j] = d
         \/ fds[d] \notin Jobs \cup finished /\ peer[fds[d]] = "aborted"
    /\ \A j \in Conns : file[j] # 0 =>
         /\ hpc[j] = "reply" /\ file[j] \notin DOMAIN fds
         /\ \A k \in Conns : file[k] = file[j] => k = j

\* The replies to a request: send_file depends on a free descriptor.
Answers(req) == {Reply(req, TRUE), Reply(req, FALSE)}

\* The handler of c has answered the request made on c: what is written there is,
\* from the start, the reply to it, and a client that ends while the server runs
\* has received all of it.
AnswersItsOwn(c) ==
  \E page \in Answers(request[c]) :
    /\ IsPrefix(reply[c], Carried(page))
    /\ cpc[c] = "done" /\ alive => taken[c] = Len(Carried(page))

\* A handler answers its own request unless it takes its line apart while another
\* does: with strtok (part1 99-101, part2 127-129) they can take or lose each
\* other's words.
RepliesRight == \A c \in Conns \ mixed : AnswersItsOwn(c)

\* htmlget prints what it has received of the body, and nothing else, however the
\* reply was cut up on its way; but when a recv ends inside the blank line after
\* the headers (htmlget.c 78-81) it prints nothing, or only what follows a blank
\* line of the page itself.
ShownIsBody ==
  \A c \in Conns : who[c] = "htmlget" =>
    \/ c \notin cut /\ shown[c] = SubSeq(reply[c], HeaderLen + 1, taken[c])
    \/ c \in cut /\ shown[c] = <<>>
    \/ c \in cut /\ \E k \in BlankLines(reply[c]) :
         k >= HeaderLen /\ shown[c] = SubSeq(reply[c], k + 2, taken[c])

\* Every client of the course gets to its end, reply or error, whatever a
\* foreign peer does, while those are fewer than the pool's threads and the
\* descriptors: a peer that stalls keeps one of each for ever.
ClientsEnd ==
  <>(\A c \in Conns : who[c] = "foreign" \/ cpc[c] \in {"done", "exit"})
==============================================================================
