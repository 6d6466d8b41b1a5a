--------------------------- MODULE WebServerProofs ---------------------------
(***************************************************************************)
(* Theorems about WebServer, for both designs and for every number of      *)
(* connections, threads and descriptors, every file tree, any pages and    *)
(* any requests.                                                           *)
(***************************************************************************)
EXTENDS WebServer, SequenceTheorems, FiniteSetTheorems, TLAPS

-----------------------------------------------------------------------------
(* The inductive invariant.                                                *)

\* What TypeOK leaves out because the properties do not need it said.
Typed ==
  /\ TypeOK
  /\ design \in {"threads", "pool"} /\ who \in [Conns -> Peers]
  /\ pending \in Seq(Conns) /\ running \subseteq Conns /\ finished \subseteq Conns
  /\ IsFiniteSet(running) /\ mixed \subseteq Conns /\ torn \subseteq Conns
  /\ DOMAIN request = Conns /\ DOMAIN reply = Conns /\ DOMAIN todo = Conns
  /\ DOMAIN taken = Conns /\ DOMAIN buf = Conns /\ DOMAIN shown = Conns
  /\ htmlstart \in [Conns -> BOOLEAN]

Distinct(q) == \A i, k \in 1 .. Len(q) : q[i] = q[k] => i = k

\* The connections that the kernel or the server has seen.
OnFds == {fds[d] : d \in DOMAIN fds}
Known == ToSet(backlog) \cup OnFds \cup finished

\* A connection is in one place at a time: not made, in the backlog, on one
\* descriptor - the listener's, a job's or a forgotten one - or finished.
Places ==
  /\ Distinct(backlog) /\ Distinct(pending)
  /\ \A d, e \in DOMAIN fds : fds[d] = fds[e] => d = e
  /\ ToSet(backlog) \cap OnFds = {} /\ ToSet(backlog) \cap finished = {}
  /\ OnFds \cap finished = {}
  /\ ToSet(pending) \cap running = {}
  /\ \A j \in Jobs : arg[j] \in DOMAIN fds /\ fds[arg[j]] = j
  /\ lpc = "check" => s \in DOMAIN fds /\ fds[s] \notin Jobs
  /\ \A c \in Conns : hpc[c] = "done" <=> c \in finished
  /\ \A c \in Conns : c \in Known => cpc[c] # "start"
  /\ \A c \in Conns : peer[c] # "none" => c \in Known

\* A descriptor that no job has and the listener does not hold was forgotten.
Forgotten ==
  alive => \A d \in DOMAIN fds :
             \/ lpc = "check" /\ s = d
             \/ fds[d] \in Jobs
             \/ peer[fds[d]] = "aborted"

\* An open file has a descriptor of its own, until its handler closes it.
OpenFile(j) == /\ hpc[j] = "reply" /\ file[j] \in Fds /\ file[j] \notin DOMAIN fds
               /\ \A k \in Conns : file[k] = file[j] => k = j
FilesOpen == \A j \in Conns : file[j] # 0 => OpenFile(j)

\* Two handlers in their lines are both mixed; the words of one that is not are
\* still its own, and strtok's position, once it has set it, is in its line.
Undisturbed(j) == /\ hpc[j] # "line" => saved = {j}
                  /\ hpc[j] \in {"takepath", "takeproto"} => from[j] = {j}
Overlaps == \A i, j \in Parsing : i # j => i \in mixed /\ j \in mixed
ParseApart ==
  alive => /\ Overlaps
           /\ \A j \in Parsing \ mixed : Undisturbed(j)
           /\ spoiled \subseteq mixed /\ torn \subseteq mixed

\* What a handler sends: a page, of a file or directory that there is when its
\* status is 200, and an answer to the request unless the handler is mixed.
IsPage(page) == page.status = 200 => page.of \in Files \cup Dirs

\* How far it is with the page: n of its elements were written, what is behind
\* the first t is still to be written, and while the peer is there none is lost.
Sends(c, page, n, t) ==
  /\ IsPage(page) /\ (c \notin mixed => page \in Answers(request[c]))
  /\ n \in Nat /\ t \in n .. Len(Carried(page))
  /\ reply[c] = SubSeq(Carried(page), 1, n)
  /\ todo[c] = SubSeq(Carried(page), t + 1, Len(Carried(page)))
  /\ hpc[c] \in {"reply", "done"} /\ peer[c] = "open" => n = t
  /\ cpc[c] = "done" /\ alive => taken[c] = Len(Carried(page))

\* The handler, its peer and their connection in step.
InStep(c) ==
  /\ hpc[c] \notin {"reply", "done"} => reply[c] = <<>> /\ todo[c] = <<>>
  /\ hpc[c] = "done" => todo[c] = <<>>
  /\ request[c] = None => \/ hpc[c] \in {"none", "read"}
                          \/ hpc[c] \in {"reply", "done"} /\ peer[c] # "open"
  /\ cpc[c] = "start" => request[c] = None
  /\ cpc[c] = "send" /\ who[c] # "foreign" => request[c] = None /\ peer[c] = "open"
  /\ cpc[c] = "recv" /\ who[c] # "foreign" => peer[c] = "open"
  /\ cpc[c] = "done" => who[c] # "foreign" /\ (alive => hpc[c] = "done")

Talk(c) == InStep(c) /\ \E page, n, t : Sends(c, page, n, t)

\* A blank line of what was written to c, of which n elements were received: the
\* one after the headers unless a recv ended inside that.
BlankAt(c, k, n) ==
  /\ k \in 2 .. n - 1
  /\ reply[c][k].is = "crlf" /\ reply[c][k + 1].is = "crlf"
  /\ IF c \in cut THEN k >= HeaderLen ELSE k = HeaderLen - 1

\* htmlget's buffer is cleared from end to end after each recv, and what it has
\* shown is what follows the blank line it has found.
Shows(c) ==
  /\ buf[c] = <<>> /\ (htmlstart[c] => who[c] = "htmlget")
  /\ ~htmlstart[c] =>
       /\ shown[c] = <<>>
       /\ who[c] = "htmlget" => IF c \in cut THEN taken[c] >= 2 ELSE taken[c] <= 1
  /\ htmlstart[c] => \E k \in Nat : /\ BlankAt(c, k, taken[c])
                                    /\ shown[c] = SubSeq(reply[c], k + 2, taken[c])

WebInv == /\ Typed /\ Places /\ Forgotten /\ FilesOpen /\ ParseApart
          /\ \A c \in Conns : Talk(c) /\ Shows(c)

-----------------------------------------------------------------------------
(* Queues without repetitions.                                             *)

\* The members of a sequence.
LEMMA SetOfSeq ==
  ASSUME NEW S, NEW q \in Seq(S)
  PROVE  /\ ToSet(q) = {q[i] : i \in 1 .. Len(q)} /\ ToSet(q) \subseteq S
         /\ q # <<>> => Head(q) \in ToSet(q) /\ Head(q) \in S
<1>1. DOMAIN q = 1 .. Len(q) /\ \A i \in 1 .. Len(q) : q[i] \in S
  OBVIOUS
<1>2. q # <<>> => Head(q) = q[1] /\ 1 \in 1 .. Len(q)
  OBVIOUS
<1> QED
  BY <1>1, <1>2 DEF ToSet

\* Appending to a queue without repetitions something new leaves none.
LEMMA AppendDistinct ==
  ASSUME NEW S, NEW q \in Seq(S), NEW x \in S
  PROVE  /\ ToSet(Append(q, x)) = ToSet(q) \cup {x}
         /\ Distinct(q) /\ x \notin ToSet(q) => Distinct(Append(q, x))
<1> DEFINE r == Append(q, x)
<1>1. /\ r \in Seq(S) /\ Len(r) = Len(q) + 1 /\ Len(q) \in Nat
      /\ \A i \in 1 .. Len(q) : r[i] = q[i]
      /\ r[Len(q) + 1] = x
  OBVIOUS
<1> HIDE DEF r
<1>2. \A i \in 1 .. Len(r) : i \in 1 .. Len(q) \/ i = Len(q) + 1
  BY <1>1
<1>3. /\ ToSet(r) = {r[i] : i \in 1 .. Len(r)} /\ ToSet(q) = {q[i] : i \in 1 .. Len(q)}
  BY <1>1, SetOfSeq
<1>4. ToSet(r) = ToSet(q) \cup {x}
  <2>1. \A y \in ToSet(r) : y \in ToSet(q) \cup {x}
    BY <1>1, <1>2, <1>3
  <2>2. \A y \in ToSet(q) : y \in ToSet(r)
    <3>1. \A i \in 1 .. Len(q) : i \in 1 .. Len(r)
      BY <1>1
    <3> QED BY <3>1, <1>1, <1>3
  <2>3. x \in ToSet(r)
    <3>1. Len(q) + 1 \in 1 .. Len(r)
      BY <1>1
    <3> QED BY <3>1, <1>1, <1>3
  <2> QED BY <2>1, <2>2, <2>3
<1>5. ASSUME Distinct(q), x \notin ToSet(q) PROVE Distinct(r)
  <2>1. \A i \in 1 .. Len(q) : q[i] # x
    BY <1>3, <1>5
  <2> QED BY <2>1, <1>1, <1>2, <1>5 DEF Distinct
<1> QED
  BY <1>4, <1>5 DEF r

\* The head of such a queue is not in its tail.
LEMMA TailDistinct ==
  ASSUME NEW S, NEW q \in Seq(S), q # <<>>, Distinct(q)
  PROVE  ToSet(Tail(q)) = ToSet(q) \ {Head(q)} /\ Distinct(Tail(q))
<1> DEFINE r == Tail(q)
<1>1. /\ r \in Seq(S) /\ Len(r) = Len(q) - 1 /\ Len(q) \in Nat \ {0}
      /\ \A i \in 1 .. Len(r) : r[i] = q[i + 1]
      /\ Head(q) = q[1]
  BY HeadTailProperties, EmptySeq
<1> HIDE DEF r
<1>2. /\ ToSet(r) = {r[i] : i \in 1 .. Len(r)} /\ ToSet(q) = {q[i] : i \in 1 .. Len(q)}
  BY <1>1, SetOfSeq
<1>3. \A i \in 1 .. Len(r) : i + 1 \in 1 .. Len(q) /\ i + 1 # 1
  BY <1>1
<1>4. \A y \in ToSet(r) : y \in ToSet(q) /\ y # Head(q)
  <2> SUFFICES ASSUME NEW i \in 1 .. Len(r) PROVE r[i] \in ToSet(q) /\ r[i] # Head(q)
    BY <1>2
  <2>1. r[i] = q[i + 1] /\ i + 1 \in 1 .. Len(q) /\ i + 1 # 1 /\ 1 \in 1 .. Len(q)
    BY <1>1, <1>3
  <2> QED BY <2>1, <1>1, <1>2 DEF Distinct
<1>5. \A y \in ToSet(q) : y = Head(q) \/ y \in ToSet(r)
  <2> SUFFICES ASSUME NEW i \in 1 .. Len(q) PROVE q[i] = q[1] \/ q[i] \in ToSet(r)
    BY <1>1, <1>2
  <2>1. i = 1 \/ (i - 1 \in 1 .. Len(r) /\ (i - 1) + 1 = i)
    BY <1>1
  <2>2. i = 1 \/ q[i] = r[i - 1]
    BY <2>1, <1>1
  <2> QED BY <2>1, <2>2, <1>2
<1>6. Distinct(r)
  <2> SUFFICES ASSUME NEW i \in 1 .. Len(r), NEW k \in 1 .. Len(r), r[i] = r[k] PROVE i = k
    BY DEF Distinct
  <2>1. q[i + 1] = q[k + 1] /\ i + 1 \in 1 .. Len(q) /\ k + 1 \in 1 .. Len(q)
    BY <1>1, <1>3
  <2>2. i + 1 = k + 1
    BY <2>1 DEF Distinct
  <2> QED BY <2>2, <1>1
<1> QED
  BY <1>4, <1>5, <1>6 DEF r

-----------------------------------------------------------------------------
(* Descriptors.                                                            *)

\* The least-number principle: a nonempty set of naturals has a least member.
LEMMA LeastNumber ==
  ASSUME NEW T \in SUBSET Nat, T # {}
  PROVE  \E m \in T : \A x \in T : m <= x
<1>1. PICK n \in T : TRUE
  OBVIOUS
<1> DEFINE S == 0 .. n
           W == {0 .. k : k \in T \cap S}
           R == StrictSubsetOrdering(S)
<1>2. IsWellFoundedOn(R, SUBSET S)
  <2>1. IsFiniteSet(S)
    BY <1>1, FS_Interval
  <2> HIDE DEF S
  <2>2. FiniteSubsetsOf(S) = SUBSET S
    BY <2>1, FS_FiniteSubsetsOfFinite
  <2> QED
    BY <2>2, FS_StrictSubsetOrderingWellFounded
<1>3. W \subseteq SUBSET S /\ W # {}
  BY <1>1
<1>4. \E w \in W : \A v \in W : ~(<<v, w>> \in R)
  <2> HIDE DEF R, W
  <2> QED BY <1>2, <1>3, WFMin
<1>5. PICK m \in T \cap S : \A k \in T \cap S : ~(<<0 .. k, 0 .. m>> \in R)
  BY <1>4
<1>6. ASSUME NEW k \in T, k < m PROVE FALSE
  <2>1. k \in T \cap S /\ m \in Nat /\ k \in Nat
    BY <1>6, <1>1
  <2>2. 0 .. k \subseteq 0 .. m /\ 0 .. k # 0 .. m
    BY <1>6, <2>1
  <2>3. 0 .. k \in SUBSET S /\ 0 .. m \in SUBSET S
    BY <2>1, <1>1
  <2> QED
    BY <1>5, <2>1, <2>2, <2>3 DEF StrictSubsetOrdering
<1> QED
  BY <1>1, <1>5, <1>6



\* The descriptor given out is the lowest of the free ones, if there are any.
LEMMA LowestFree ==
  ASSUME FreeFds # {} PROVE Lowest \in FreeFds
<1>1. FreeFds \in SUBSET Nat
  BY WebServerAssumption DEF FreeFds, Fds
<1>2. \E d \in FreeFds : \A e \in FreeFds : d <= e
  BY <1>1, LeastNumber
<1> QED
  BY <1>2 DEF Lowest

-----------------------------------------------------------------------------
(* Where each connection is.                                               *)

\* The server's steps that move no connection, and the peers' own.
Unmoved == UNCHANGED <<backlog, fds, lpc, s, arg, pending, running, finished>>

Phases == {"none", "read", "line", "path", "takepath", "proto", "takeproto", "reply", "done"}

\* The job of a descriptor is its connection's (the invariant says so).
LEMMA SocketOfJob ==
  ASSUME Typed, Places, NEW j \in Conns, hpc[j] \notin {"none", "done"}
  PROVE  /\ Socket(j) = j /\ arg[j] \in DOMAIN fds
         /\ j \in OnFds /\ j \in running /\ j \in Jobs
  BY DEF Typed, TypeOK, Places, Jobs, Socket, OnFds

\* accept: a connection leaves the backlog and takes a free descriptor.
LEMMA AcceptKeepsPlaces ==
  ASSUME Typed, Places, Forgotten, Accept PROVE Places' /\ Forgotten'
<1>1. PICK d \in FreeFds : s' = d
  BY LowestFree DEF Accept
<1>2. PICK c : c = Head(backlog)
  OBVIOUS
<1>3. /\ fds' = Open(d, c) /\ backlog' = Tail(backlog) /\ backlog # <<>>
      /\ lpc' = "check" /\ lpc = "accept" /\ alive
      /\ UNCHANGED <<alive, arg, hpc, pending, running, finished, peer, cpc>>
  BY <1>1, <1>2 DEF Accept, pool, sockets, client
<1>4. backlog \in Seq(Conns)
  BY DEF Typed, TypeOK
<1>5. /\ c \in ToSet(backlog) /\ c \in Conns
      /\ ToSet(backlog)' = ToSet(backlog) \ {c} /\ Distinct(backlog')
  BY <1>2, <1>3, <1>4, SetOfSeq, TailDistinct DEF Places
<1>6. /\ DOMAIN fds' = DOMAIN fds \cup {d} /\ d \notin DOMAIN fds /\ fds'[d] = c
      /\ \A e \in DOMAIN fds : fds'[e] = fds[e]
  <2>1. d \notin DOMAIN fds
    BY <1>1 DEF FreeFds
  <2>2. /\ DOMAIN Open(d, c) = DOMAIN fds \cup {d} /\ Open(d, c)[d] = c
        /\ \A e \in DOMAIN fds : Open(d, c)[e] = fds[e]
    BY <2>1 DEF Open
  <2> QED BY <1>3, <2>1, <2>2
<1>7. OnFds' = OnFds \cup {c}
  BY <1>6 DEF OnFds
<1>8. c \notin OnFds /\ c \notin finished
  BY <1>5 DEF Places
<1>9. Jobs' = Jobs /\ c \notin Jobs
  <2>1. Jobs \subseteq OnFds
    BY DEF Places, OnFds
  <2> QED BY <2>1, <1>3, <1>8 DEF Jobs
<1>10. Known' = Known
  BY <1>3, <1>5, <1>7 DEF Known
<1>11. \A e, f \in DOMAIN fds' : fds'[e] = fds'[f] => e = f
  BY <1>6, <1>8 DEF Places, OnFds
<1>12. \A j \in Jobs' : arg'[j] \in DOMAIN fds' /\ fds'[arg'[j]] = j
  BY <1>3, <1>6, <1>9 DEF Places
<1>13. s' \in DOMAIN fds' /\ fds'[s'] \notin Jobs'
  BY <1>1, <1>6, <1>9
<1>14. /\ ToSet(backlog)' \cap OnFds' = {} /\ ToSet(backlog)' \cap finished' = {}
       /\ OnFds' \cap finished' = {} /\ ToSet(pending)' \cap running' = {}
  BY <1>3, <1>5, <1>7, <1>8 DEF Places
<1>15. Places'
  BY <1>3, <1>5, <1>10, <1>11, <1>12, <1>13, <1>14 DEF Places
<1>16. Forgotten'
  BY <1>1, <1>3, <1>6, <1>9 DEF Forgotten
<1> QED
  BY <1>15, <1>16

\* getpeername fails: the descriptor stays open for nobody.
LEMMA ForgetKeepsPlaces ==
  ASSUME Typed, Places, Forgotten, Forget PROVE Places' /\ Forgotten'
<1>1. /\ lpc = "check" /\ lpc' = "accept" /\ peer[fds[s]] = "aborted"
      /\ UNCHANGED <<alive, backlog, fds, arg, hpc, pending, running, finished, peer, cpc>>
  BY DEF Forget, pool, sockets, client
<1>2. Jobs' = Jobs /\ OnFds' = OnFds /\ Known' = Known /\ ToSet(backlog)' = ToSet(backlog)
      /\ ToSet(pending)' = ToSet(pending)
  BY <1>1 DEF Jobs, OnFds, Known
<1>3. Places'
  BY <1>1, <1>2 DEF Places
<1>4. Forgotten'
  BY <1>1, <1>2 DEF Forgotten
<1> QED
  BY <1>3, <1>4

\* The job handed over becomes a pending one, or a thread of its own.
LEMMA HandOverKeepsPlaces ==
  ASSUME Typed, Places, Forgotten, lpc = "check",
         arg' = [arg EXCEPT ![fds[s]] = s], lpc' = "accept",
         \/ /\ pending' = Append(pending, fds[s]) /\ UNCHANGED <<running, hpc>>
         \/ /\ running' = running \cup {fds[s]} /\ UNCHANGED pending
            /\ hpc' = [hpc EXCEPT ![fds[s]] = "read"],
         UNCHANGED <<alive, backlog, fds, finished, peer, cpc>>
  PROVE  Places' /\ Forgotten'
<1>1. PICK j : j = fds[s]
  OBVIOUS
<1>2. /\ s \in DOMAIN fds /\ j \notin Jobs /\ j \in Conns /\ j \notin finished
      /\ fds[s] = j /\ arg \in [Conns -> 0 .. MaxFd] /\ pending \in Seq(Conns)
      /\ hpc \in [Conns -> Phases]
  BY <1>1 DEF Typed, TypeOK, Phases, Places, OnFds
<1>3. /\ \/ ToSet(pending)' = ToSet(pending) \cup {j} /\ running' = running
         \/ pending' = pending /\ ToSet(pending)' = ToSet(pending) /\ running' = running \cup {j}
      /\ Distinct(pending')
  <2>1. j \notin ToSet(pending) /\ Distinct(pending)
    BY <1>2 DEF Jobs, Places
  <2>2. /\ ToSet(Append(pending, j)) = ToSet(pending) \cup {j}
        /\ Distinct(Append(pending, j))
    BY <2>1, <1>2, AppendDistinct
  <2>3. CASE pending' = Append(pending, fds[s]) /\ UNCHANGED <<running, hpc>>
    BY <2>2, <2>3, <1>1
  <2>4. CASE running' = running \cup {fds[s]} /\ UNCHANGED pending
    BY <2>1, <2>4, <1>1
  <2> QED BY <2>3, <2>4
<1>4. Jobs' = Jobs \cup {j} /\ ToSet(pending)' \cap running' = {}
  BY <1>2, <1>3 DEF Jobs, Places
<1>5. OnFds' = OnFds /\ Known' = Known /\ ToSet(backlog)' = ToSet(backlog)
  BY DEF OnFds, Known
<1>6. \A i \in Jobs' : arg'[i] \in DOMAIN fds' /\ fds'[arg'[i]] = i
  <2>1. arg'[j] = s /\ \A i \in Conns : i # j => arg'[i] = arg[i]
    BY <1>1, <1>2
  <2>2. Jobs \subseteq Conns
    BY <1>2, SetOfSeq DEF Jobs, Typed
  <2> QED BY <2>1, <2>2, <1>2, <1>4 DEF Places
<1>7. \A c \in Conns : hpc'[c] = "done" <=> c \in finished'
  <2>1. hpc[j] # "done"
    BY <1>2 DEF Places
  <2> QED BY <2>1, <1>1, <1>2 DEF Places
<1>8. Places'
  <2>1. /\ Distinct(backlog)' /\ \A d, e \in DOMAIN fds' : fds'[d] = fds'[e] => d = e
        /\ ToSet(backlog)' \cap OnFds' = {} /\ ToSet(backlog)' \cap finished' = {}
        /\ OnFds' \cap finished' = {}
    BY <1>5 DEF Places, Distinct
  <2>2. /\ \A c \in Conns : c \in Known' => cpc'[c] # "start"
        /\ \A c \in Conns : peer'[c] # "none" => c \in Known'
    BY <1>5 DEF Places
  <2> QED BY <2>1, <2>2, <1>3, <1>4, <1>6, <1>7 DEF Places
<1>9. Forgotten'
  BY <1>1, <1>4 DEF Forgotten
<1> QED
  BY <1>8, <1>9

\* A thread takes a job up.
LEMMA StartJobKeepsPlaces ==
  ASSUME Typed, Places, Forgotten, StartJob PROVE Places' /\ Forgotten'
<1>1. PICK j : j = Head(pending)
  OBVIOUS
<1>2. /\ pending # <<>> /\ running' = running \cup {j} /\ pending' = Tail(pending)
      /\ hpc' = [hpc EXCEPT ![j] = "read"]
      /\ UNCHANGED <<alive, backlog, fds, lpc, s, arg, finished, peer, cpc>>
  BY <1>1 DEF StartJob, Pool!Start, sockets, client
<1>3. /\ j \in ToSet(pending) /\ j \in Conns
      /\ ToSet(pending)' = ToSet(pending) \ {j} /\ Distinct(pending')
  BY <1>1, <1>2, SetOfSeq, TailDistinct DEF Places, Typed
<1>4. Jobs' = Jobs /\ ToSet(pending)' \cap running' = {} /\ j \notin finished
  BY <1>2, <1>3 DEF Jobs, Places, OnFds
<1>5. OnFds' = OnFds /\ Known' = Known /\ ToSet(backlog)' = ToSet(backlog)
  BY <1>2 DEF OnFds, Known
<1>6. \A c \in Conns : hpc'[c] = "done" <=> c \in finished'
  BY <1>2, <1>3, <1>4 DEF Places, Typed, TypeOK
<1>7. Places'
  BY <1>2, <1>3, <1>4, <1>5, <1>6 DEF Places
<1>8. Forgotten'
  BY <1>2, <1>4 DEF Forgotten
<1> QED
  BY <1>7, <1>8

\* fclose: the descriptor is free again and its job is over.
LEMMA CloseStreamKeepsPlaces ==
  ASSUME Typed, Places, Forgotten, NEW j \in Conns, CloseStream(j)
  PROVE  /\ Places' /\ Forgotten'
         /\ running' = running \ {j} /\ finished' = finished \cup {j} /\ pending' = pending
<1>1. /\ hpc[j] = "reply" /\ hpc' = [hpc EXCEPT ![j] = "done"]
      /\ fds' = Closed(arg[j]) /\ finished' = finished \cup {j} /\ Pool!Finish
      /\ arg' = [arg EXCEPT ![j] = 0]
      /\ UNCHANGED <<alive, backlog, lpc, s, peer, cpc>>
  BY DEF CloseStream, sockets, client
<1>2. j \in running
  BY <1>1 DEF Typed, TypeOK
<1>3. /\ j \notin finished /\ j \notin ToSet(pending) /\ arg[j] \in DOMAIN fds
      /\ fds[arg[j]] = j /\ j \in Jobs
  BY <1>2 DEF Places, Jobs, OnFds
<1>4. running' = running \ {j} /\ pending' = pending
  <2>1. PICK i \in running : running' = running \ {i} /\ finished' = finished \cup {i}
                             /\ UNCHANGED pending
    BY <1>1 DEF Pool!Finish
  <2>2. i \notin finished
    BY <2>1 DEF Places, Jobs, OnFds
  <2>3. i = j
    BY <2>1, <2>2, <1>1
  <2> QED BY <2>1, <2>3
<1>5. Jobs' = Jobs \ {j} /\ ToSet(pending)' = ToSet(pending)
      /\ ToSet(pending)' \cap running' = {}
  BY <1>3, <1>4 DEF Jobs, Places
<1>6. /\ DOMAIN fds' = DOMAIN fds \ {arg[j]}
      /\ \A d \in DOMAIN fds' : fds'[d] = fds[d]
  BY <1>1 DEF Closed
<1>7. OnFds' = OnFds \ {j}
  BY <1>3, <1>6 DEF OnFds, Places
<1>8. Known' = Known /\ ToSet(backlog)' = ToSet(backlog)
  <2>1. j \in OnFds
    BY <1>3 DEF OnFds
  <2> QED BY <2>1, <1>1, <1>7 DEF Known
<1>9. \A i \in Jobs' : arg'[i] \in DOMAIN fds' /\ fds'[arg'[i]] = i
  <2> SUFFICES ASSUME NEW i \in Jobs' PROVE arg'[i] \in DOMAIN fds' /\ fds'[arg'[i]] = i
    OBVIOUS
  <2>1. i \in Jobs /\ i # j /\ i \in Conns
    BY <1>5, SetOfSeq DEF Jobs, Typed
  <2>2. arg'[i] = arg[i] /\ arg[i] \in DOMAIN fds /\ fds[arg[i]] = i
    BY <2>1, <1>1 DEF Places, Typed, TypeOK
  <2>3. arg[i] # arg[j]
    BY <2>1, <2>2, <1>3
  <2> QED BY <2>2, <2>3, <1>6
<1>10. lpc' = "check" => s' \in DOMAIN fds' /\ fds'[s'] \notin Jobs'
  BY <1>1, <1>3, <1>5, <1>6 DEF Places
<1>11. \A c \in Conns : hpc'[c] = "done" <=> c \in finished'
  BY <1>1 DEF Places, Typed, TypeOK
<1>12. Places'
  <2>1. /\ Distinct(backlog)' /\ Distinct(pending)'
        /\ \A d, e \in DOMAIN fds' : fds'[d] = fds'[e] => d = e
    BY <1>1, <1>4, <1>6 DEF Places, Distinct
  <2>2. /\ ToSet(backlog)' \cap OnFds' = {} /\ ToSet(backlog)' \cap finished' = {}
        /\ OnFds' \cap finished' = {}
    <3>1. j \notin ToSet(backlog)
      BY <1>3 DEF Places, OnFds
    <3> QED BY <3>1, <1>1, <1>7, <1>8 DEF Places
  <2>3. /\ \A c \in Conns : c \in Known' => cpc'[c] # "start"
        /\ \A c \in Conns : peer'[c] # "none" => c \in Known'
    BY <1>1, <1>8 DEF Places
  <2> QED BY <2>1, <2>2, <2>3, <1>5, <1>9, <1>10, <1>11 DEF Places
<1>13. Forgotten'
  <2> SUFFICES ASSUME alive, NEW d \in DOMAIN fds'
               PROVE  (lpc = "check" /\ s = d) \/ fds[d] \in Jobs' \/ peer[fds[d]] = "aborted"
    BY <1>1, <1>6 DEF Forgotten
  <2>1. d \in DOMAIN fds /\ d # arg[j]
    BY <1>6
  <2>2. fds[d] # j
    BY <2>1, <1>3 DEF Places
  <2> QED BY <2>1, <2>2, <1>5 DEF Forgotten
<1> QED
  BY <1>1, <1>4, <1>12, <1>13

\* A peer connects.
LEMMA ConnectKeepsPlaces ==
  ASSUME Typed, Places, Forgotten, NEW c \in Conns, Connect(c)
  PROVE  Places' /\ Forgotten'
<1>1. /\ cpc[c] = "start" /\ backlog' = Append(backlog, c)
      /\ peer' = [peer EXCEPT ![c] = "open"] /\ cpc' = [cpc EXCEPT ![c] = "send"]
      /\ UNCHANGED <<alive, fds, lpc, s, arg, hpc, pending, running, finished>>
  BY DEF Connect, pool
<1>2. /\ backlog \in Seq(Conns) /\ c \notin Known
      /\ peer \in [Conns -> {"none", "open", "closed", "aborted", "reset"}]
      /\ cpc \in [Conns -> {"start", "send", "recv", "done", "exit"}]
  BY <1>1 DEF Typed, TypeOK, Places
<1>3. c \notin ToSet(backlog) /\ c \notin OnFds /\ c \notin finished
  BY <1>2 DEF Known
<1>4. ToSet(backlog)' = ToSet(backlog) \cup {c} /\ Distinct(backlog')
  BY <1>1, <1>2, <1>3, AppendDistinct DEF Places
<1>5. /\ Jobs' = Jobs /\ OnFds' = OnFds /\ Known' = Known \cup {c}
      /\ ToSet(pending)' = ToSet(pending)
  BY <1>1, <1>4 DEF Jobs, OnFds, Known
<1>6. /\ \A d \in Conns : d \in Known' => cpc'[d] # "start"
      /\ \A d \in Conns : peer'[d] # "none" => d \in Known'
  BY <1>1, <1>2, <1>5 DEF Places
<1>7. Places'
  BY <1>1, <1>3, <1>4, <1>5, <1>6 DEF Places
<1>8. Forgotten'
  <2>1. \A d \in DOMAIN fds : fds[d] # c /\ fds[d] \in Conns
    BY <1>3 DEF OnFds, Typed, TypeOK
  <2> QED BY <2>1, <1>1, <1>2, <1>5 DEF Forgotten
<1> QED
  BY <1>7, <1>8

\* A step that moves no connection, ends no handler and leaves the peers of
\* forgotten descriptors alone.
LEMMA UnmovedKeepsPlaces ==
  ASSUME Typed, Places, Forgotten, Unmoved, alive' => alive,
         \A c \in Conns : hpc'[c] = "done" <=> hpc[c] = "done",
         \A c \in Conns : cpc'[c] = "start" => cpc[c] = "start",
         \A c \in Conns : peer'[c] # "none" => peer[c] # "none",
         alive' => \A c \in OnFds \ Jobs : peer[c] = "aborted" => peer'[c] = "aborted"
  PROVE  Places' /\ Forgotten'
<1>1. /\ Jobs' = Jobs /\ OnFds' = OnFds /\ Known' = Known /\ ToSet(backlog)' = ToSet(backlog)
      /\ ToSet(pending)' = ToSet(pending)
      /\ UNCHANGED <<backlog, fds, lpc, s, arg, pending, running, finished>>
  BY DEF Unmoved, Jobs, OnFds, Known
<1>2. Places'
  BY <1>1 DEF Places
<1>3. Forgotten'
  <2> SUFFICES ASSUME alive', NEW d \in DOMAIN fds
               PROVE  (lpc = "check" /\ s = d) \/ fds[d] \in Jobs \/ peer'[fds[d]] = "aborted"
    BY <1>1 DEF Forgotten
  <2>1. fds[d] \in OnFds
    BY DEF OnFds
  <2> QED BY <2>1 DEF Forgotten
<1> QED
  BY <1>2, <1>3

\* The steps of a handler, but for the one that ends it.
HandlerStep(j) ==
  \/ ReadLine(j) \/ ReadFails(j) \/ TakeMethod(j) \/ Resume(j) \/ TakePath(j) \/ Respond(j)
  \/ WriteOut(j) \/ WriteKills(j) \/ CloseFile(j)

\* What they have in common.
LEMMA HandlerStepFrame ==
  ASSUME NEW j \in Conns, HandlerStep(j)
  PROVE  /\ Unmoved /\ UNCHANGED <<design, who, created, request, client>>
         /\ alive /\ (alive' = alive \/ alive' = FALSE) /\ hpc[j] \notin {"none", "done"}
         /\ \/ hpc' = hpc
            \/ \E p \in {"line", "path", "takepath", "proto", "takeproto", "reply"} :
                 hpc' = [hpc EXCEPT ![j] = p]
<1>1. CASE ReadLine(j) \/ ReadFails(j) \/ TakeMethod(j) \/ TakePath(j)
  BY <1>1 DEF ReadLine, ReadFails, TakeMethod, TakePath, Unmoved, pool, sockets
<1>2. CASE Resume(j)
  <2>1. (IF hpc[j] = "path" THEN "takepath" ELSE "takeproto") \in {"takepath", "takeproto"}
    OBVIOUS
  <2> QED BY <2>1, <1>2 DEF Resume, Unmoved, pool, sockets
<1>3. CASE Respond(j)
  BY <1>3 DEF Respond, Unmoved, pool, sockets
<1>4. CASE WriteOut(j) \/ WriteKills(j) \/ CloseFile(j)
  BY <1>4 DEF WriteOut, WriteKills, CloseFile, Writing, Unmoved, pool, sockets
<1> QED
  BY <1>1, <1>2, <1>3, <1>4 DEF HandlerStep

\* Only a write has to do with the connection.
LEMMA HandlerStepSockets ==
  ASSUME NEW j \in Conns, HandlerStep(j), ~WriteOut(j)
  PROVE  UNCHANGED <<peer, reply>>
  BY DEF HandlerStep, ReadLine, ReadFails, TakeMethod, Resume, TakePath, Respond, WriteKills,
         CloseFile, sockets

\* A handler takes its line apart or writes a part of the reply.
LEMMA HandlerKeepsPlaces ==
  ASSUME Typed, Places, Forgotten, NEW j \in Conns, HandlerStep(j)
  PROVE  Places' /\ Forgotten'
<1>1. /\ hpc \in [Conns -> Phases]
      /\ peer \in [Conns -> {"none", "open", "closed", "aborted", "reset"}]
  BY DEF Typed, TypeOK, Phases
<1>2. /\ Unmoved /\ (alive' => alive) /\ cpc' = cpc /\ hpc[j] \notin {"none", "done"}
      /\ \/ hpc' = hpc
         \/ \E p \in {"line", "path", "takepath", "proto", "takeproto", "reply"} :
              hpc' = [hpc EXCEPT ![j] = p]
  BY HandlerStepFrame DEF client
<1>3. \A c \in Conns : hpc'[c] = "done" <=> hpc[c] = "done"
  BY <1>1, <1>2
<1>4. peer' = peer \/ (peer[j] \in {"aborted", "closed"} /\ peer' = [peer EXCEPT ![j] = "reset"])
  <2>1. Socket(j) = j
    BY <1>2, SocketOfJob
  <2>2. CASE WriteOut(j)
    BY <2>1, <2>2 DEF WriteOut
  <2> QED BY <2>2, HandlerStepSockets
<1>5. \A c \in Conns : peer'[c] # "none" => peer[c] # "none"
  BY <1>1, <1>4
<1>6. \A c \in OnFds \ Jobs : peer[c] = "aborted" => peer'[c] = "aborted"
  <2>1. OnFds \subseteq Conns /\ j \in Jobs
    BY <1>2, SocketOfJob DEF OnFds, Typed, TypeOK
  <2> QED BY <2>1, <1>1, <1>4
<1> QED
  BY <1>2, <1>3, <1>5, <1>6, UnmovedKeepsPlaces

\* The steps of the peers, but for Connect.
PeerStep(c) ==
  \/ ConnectFails(c) \/ SendQuery(c) \/ SendFails(c) \/ Receive(c) \/ ReceiveEnd(c)
  \/ Ask(c) \/ Leave(c)

\* What they have in common: the server does not move.
LEMMA PeerStepFrame ==
  ASSUME NEW c \in Conns, PeerStep(c)
  PROVE  /\ Unmoved /\ UNCHANGED <<design, who, alive, hpc, todo, file, created, parse, reply>>
  BY DEF PeerStep, ConnectFails, SendQuery, SendFails, Receive, ReceiveEnd, Ask, Leave,
         Unmoved, server, pool, sockets, client

\* How they change the ends of the connections.
LEMMA PeerStepEnds ==
  ASSUME Typed, NEW c \in Conns, Talk(c), PeerStep(c)
  PROVE  /\ peer' \in [Conns -> {"none", "open", "closed", "aborted", "reset"}]
         /\ cpc' \in [Conns -> {"start", "send", "recv", "done", "exit"}]
         /\ \A d \in Conns : \/ peer'[d] = peer[d]
                             \/ peer[d] = "open" /\ peer'[d] \in {"closed", "aborted"}
         /\ \A d \in Conns : cpc'[d] = "start" => cpc[d] = "start"
<1>1. /\ peer \in [Conns -> {"none", "open", "closed", "aborted", "reset"}]
      /\ cpc \in [Conns -> {"start", "send", "recv", "done", "exit"}]
  BY DEF Typed, TypeOK
<1>2. CASE ConnectFails(c) \/ SendFails(c)
  BY <1>1, <1>2 DEF ConnectFails, SendFails, ExitProcess
<1>3. CASE SendQuery(c) \/ Receive(c) \/ Ask(c) \/ Leave(c)
  BY <1>1, <1>3 DEF SendQuery, Receive, Ask, Leave, sockets, client
<1>4. CASE ReceiveEnd(c)
  <2>1. peer[c] = "open"
    BY <1>4 DEF ReceiveEnd, Talk, InStep
  <2> QED BY <1>1, <1>4, <2>1 DEF ReceiveEnd
<1> QED
  BY <1>2, <1>3, <1>4 DEF PeerStep

\* A peer sends, receives, gives up.
LEMMA PeerStepKeepsPlaces ==
  ASSUME Typed, Places, Forgotten, NEW c \in Conns, Talk(c), PeerStep(c)
  PROVE  Places' /\ Forgotten'
<1>1. Unmoved /\ UNCHANGED <<alive, hpc>>
  BY PeerStepFrame
<1>2. \A d \in Conns : cpc'[d] = "start" => cpc[d] = "start"
  BY PeerStepEnds
<1>3. \A d \in Conns : \/ peer'[d] = peer[d]
                       \/ peer[d] = "open" /\ peer'[d] \in {"closed", "aborted"}
  BY PeerStepEnds, Zenon
<1>4. OnFds \subseteq Conns
  BY DEF OnFds, Typed, TypeOK
<1>5. \A d \in Conns : peer'[d] # "none" => peer[d] # "none"
  BY <1>3
<1>6. \A d \in OnFds \ Jobs : peer[d] = "aborted" => peer'[d] = "aborted"
  BY <1>3, <1>4
<1> QED
  BY <1>1, <1>2, <1>5, <1>6, UnmovedKeepsPlaces

\* Every step leaves each connection in one place, and forgets no descriptor
\* but that of a peer that broke its connection.
LEMMA NextKeepsPlaces ==
  ASSUME WebInv, [Next]_vars PROVE Places' /\ Forgotten'
<1> USE DEF WebInv
<1>1. CASE Accept
  BY <1>1, AcceptKeepsPlaces
<1>2. CASE Forget
  BY <1>2, ForgetKeepsPlaces
<1>3. CASE AddWork
  <2>1. /\ lpc = "check" /\ arg' = [arg EXCEPT ![fds[s]] = s] /\ lpc' = "accept"
        /\ pending' = Append(pending, fds[s]) /\ UNCHANGED <<running, hpc>>
        /\ UNCHANGED <<alive, backlog, fds, finished, peer, cpc>>
    BY <1>3 DEF AddWork, Pool!Submit, sockets, client
  <2> QED BY <2>1, HandOverKeepsPlaces
<1>4. CASE CreateThread
  <2>1. /\ lpc = "check" /\ arg' = [arg EXCEPT ![fds[s]] = s] /\ lpc' = "accept"
        /\ running' = running \cup {fds[s]} /\ UNCHANGED pending
        /\ hpc' = [hpc EXCEPT ![fds[s]] = "read"]
        /\ UNCHANGED <<alive, backlog, fds, finished, peer, cpc>>
    BY <1>4 DEF CreateThread, sockets, client
  <2> QED BY <2>1, HandOverKeepsPlaces
<1>5. CASE CreateFails
  <2>1. Unmoved /\ alive' = FALSE /\ UNCHANGED <<hpc, cpc, peer>>
    BY <1>5 DEF CreateFails, Unmoved, pool, sockets, client
  <2> QED BY <2>1, UnmovedKeepsPlaces
<1>6. CASE StartJob
  BY <1>6, StartJobKeepsPlaces
<1>7. ASSUME NEW j \in Conns, Handler(j) PROVE Places' /\ Forgotten'
  BY <1>7, HandlerKeepsPlaces, CloseStreamKeepsPlaces DEF Handler, HandlerStep
<1>8. ASSUME NEW c \in Conns, Connect(c) PROVE Places' /\ Forgotten'
  BY <1>8, ConnectKeepsPlaces
<1>9. ASSUME NEW c \in Conns, PeerStep(c) PROVE Places' /\ Forgotten'
  BY <1>9, PeerStepKeepsPlaces
<1>10. CASE UNCHANGED vars
  <2>1. Unmoved /\ UNCHANGED <<alive, hpc, cpc, peer>>
    BY <1>10 DEF vars, server, pool, sockets, client, Unmoved
  <2> QED BY <2>1, UnmovedKeepsPlaces
<1> QED
  BY <1>1, <1>2, <1>3, <1>4, <1>5, <1>6, <1>7, <1>8, <1>9, <1>10
  DEF Next, ProgramStep, ForeignStep, Listener, Client, PeerStep
-----------------------------------------------------------------------------
(* Pages.                                                                  *)

\* What a reply is of is there, and it is of nothing but with a descriptor.
LEMMA ReplyIsPage ==
  ASSUME NEW req, NEW free \in BOOLEAN
  PROVE  IsPage(Reply(req, free)) /\ (Reply(req, free).status = 200 => free)
<1> DEFINE path == Cwd \o req.path
<1>1. ASSUME NEW p, Exists(p)
      PROVE  IsPage(SendFile(p, free)) /\ (SendFile(p, free).status = 200 => free)
  BY <1>1 DEF Exists, IsDir, SendFile, CanOpen, Error, Page, IsPage
<1>2. ASSUME NEW p, IsDir(p)
      PROVE  IsPage(Listing(p, free)) /\ (Listing(p, free).status = 200 => free)
  BY <1>2 DEF IsDir, Listing, CanOpen, Crash, Page, IsPage
<1>3. IsPage(NoReply) /\ NoReply.status # 200
  BY DEF NoReply, Page, IsPage
<1>4. \A st \in {501, 404} : IsPage(Error(st)) /\ Error(st).status # 200
  BY DEF Error, Page, IsPage
<1>5. IsPage(Page(302, path)) /\ Page(302, path).status # 200
  BY DEF Page, IsPage
<1> HIDE DEF path
<1>6. Reply(req, free) =
        IF Malformed(req) THEN NoReply
        ELSE IF req.method # "GET" THEN Error(501)
        ELSE IF ~Exists(path) THEN Error(404)
        ELSE IF ~IsDir(path) THEN SendFile(path, free)
        ELSE IF ~EndsInSlash(path) THEN Page(302, path)
        ELSE IF Exists(IndexPath(path)) THEN SendFile(IndexPath(path), free)
        ELSE Listing(path, free)
  BY DEF Reply, path, Malformed
<1> QED
  BY <1>1, <1>2, <1>3, <1>4, <1>5, <1>6

\* The reply that the descriptors of the moment allow.
LEMMA ReplyNow ==
  ASSUME NEW req
  PROVE  LET page == Reply(req, FreeFds # {})
         IN  page \in Answers(req) /\ IsPage(page) /\ (page.status = 200 => FreeFds # {})
<1>1. PICK free \in BOOLEAN : free = (FreeFds # {})
  OBVIOUS
<1>2. Reply(req, FreeFds # {}) = Reply(req, free)
  BY <1>1, Zenon
<1>3. IsPage(Reply(req, free)) /\ (Reply(req, free).status = 200 => free)
  BY ReplyIsPage
<1>4. Reply(req, free) \in Answers(req)
  <2>1. free = TRUE \/ free = FALSE
    OBVIOUS
  <2>2. CASE free = TRUE
    <3>1. Reply(req, free) = Reply(req, TRUE)
      BY <2>2, Zenon
    <3> QED BY <3>1 DEF Answers
  <2>3. CASE free = FALSE
    <3>1. Reply(req, free) = Reply(req, FALSE)
      BY <2>3, Zenon
    <3> QED BY <3>1 DEF Answers
  <2> QED BY <2>1, <2>2, <2>3
<1>5. PICK page : page = Reply(req, FreeFds # {})
  OBVIOUS
<1>6. page \in Answers(req) /\ IsPage(page) /\ (page.status = 200 => free)
  BY <1>2, <1>3, <1>4, <1>5
<1> QED
  BY <1>1, <1>5, <1>6

\* What is written of a page: a blank line at the second and third place, behind
\* what is none.
LEMMA CarriedPage ==
  ASSUME NEW page, IsPage(page)
  PROVE  /\ \E S : Carried(page) \in Seq(S)
         /\ Len(Carried(page)) \in Nat
         /\ Carried(page) = <<>> \/ Len(Carried(page)) >= 3
         /\ Carried(page) # <<>> => /\ Carried(page)[1].is # "crlf"
                                    /\ Carried(page)[2].is = "crlf"
                                    /\ Carried(page)[3].is = "crlf"
<1> DEFINE S == {"headers", "crlf", "text"}
           h == <<"headers", "crlf", "crlf">>
           q == Kinds(page)
           T == {[is |-> q[k], page |-> page, at |-> k] : k \in 1 .. Len(q)}
<1>1. h \in Seq(S) /\ Len(h) = 3 /\ h[1] = "headers" /\ h[2] = "crlf" /\ h[3] = "crlf"
  OBVIOUS
<1>2. Body(page) \in Seq(S)
  <2>1. CASE page.status = 200
    <3>1. Text[page.of] \in Seq({"text", "crlf"})
      BY <2>1, HttpReplyAssumption DEF IsPage
    <3> QED BY <3>1, <2>1 DEF Body
  <2>2. CASE page.status # 200
    BY <2>2 DEF Body
  <2> QED BY <2>1, <2>2
<1>3. /\ q \in Seq(S) /\ (q = <<>> \/ Len(q) >= 3)
      /\ q # <<>> => q[1] = "headers" /\ q[2] = "crlf" /\ q[3] = "crlf"
  <2>1. PICK b \in Seq(S) : b = Body(page)
    BY <1>2
  <2>2. <<>> \in Seq(S)
    OBVIOUS
  <2>3. q = h \o b \/ q = <<>>
    BY <2>1 DEF Kinds
  <2> HIDE DEF q, S
  <2>4. PICK g \in Seq(S) : g = h
    BY <1>1
  <2>5. /\ g \o b \in Seq(S) /\ Len(g \o b) = Len(g) + Len(b)
        /\ \A i \in 1 .. Len(g) + Len(b) :
             (g \o b)[i] = IF i <= Len(g) THEN g[i] ELSE b[i - Len(g)]
    BY ConcatProperties, Zenon
  <2>6. Len(g) = 3 /\ Len(b) \in Nat /\ g[1] = "headers" /\ g[2] = "crlf" /\ g[3] = "crlf"
    BY <1>1, <2>4
  <2> HIDE DEF h
  <2>7. /\ Len(g \o b) >= 3 /\ (g \o b)[1] = "headers" /\ (g \o b)[2] = "crlf"
        /\ (g \o b)[3] = "crlf"
    BY <2>5, <2>6
  <2> QED BY <2>2, <2>3, <2>4, <2>5, <2>7
<1> HIDE DEF q, S, h
<1>4. Len(q) \in Nat /\ (q = <<>> <=> Len(q) = 0)
  BY <1>3, EmptySeq
<1>5. Carried(page) = [k \in 1 .. Len(q) |-> [is |-> q[k], page |-> page, at |-> k]]
  BY DEF Carried, q
<1>6. Carried(page) \in Seq(T) /\ Len(Carried(page)) = Len(q)
  <2>1. \A k \in 1 .. Len(q) : [is |-> q[k], page |-> page, at |-> k] \in T
    OBVIOUS
  <2> HIDE DEF T
  <2> QED BY <1>4, <1>5, <2>1
<1>7. \A k \in 1 .. Len(q) : Carried(page)[k].is = q[k]
  BY <1>5
<1>8. Carried(page) = <<>> <=> Len(q) = 0
  <2> HIDE DEF T
  <2> QED BY <1>4, <1>6, EmptySeq
<1>9. q # <<>> => 1 \in 1 .. Len(q) /\ 2 \in 1 .. Len(q) /\ 3 \in 1 .. Len(q)
  BY <1>3, <1>4
<1> QED
  BY <1>3, <1>4, <1>6, <1>7, <1>8, <1>9

-----------------------------------------------------------------------------
(* Open files.                                                             *)

\* Files that stay open keep their descriptors, whatever sockets are closed.
LEMMA FilesFrame ==
  ASSUME Typed, FilesOpen, file' = file, DOMAIN fds' \subseteq DOMAIN fds,
         \A c \in Conns : hpc[c] = "reply" /\ file[c] # 0 => hpc'[c] = "reply"
  PROVE  FilesOpen'
<1> SUFFICES ASSUME NEW c \in Conns, file[c] # 0 PROVE OpenFile(c)'
  BY DEF FilesOpen
<1>1. OpenFile(c)
  BY DEF FilesOpen
<1> QED
  BY <1>1 DEF OpenFile, Fds

\* A file is opened on a descriptor that nothing has, and a socket is too.
LEMMA NextKeepsFiles ==
  ASSUME WebInv, [Next]_vars PROVE FilesOpen'
<1>1. /\ Typed /\ Places /\ FilesOpen /\ hpc \in [Conns -> Phases]
      /\ file \in [Conns -> 0 .. MaxFd]
  BY DEF WebInv, Typed, TypeOK, Phases
<1>2. CASE Accept
  <2>1. PICK d \in FreeFds : s' = d
    BY <1>2, LowestFree DEF Accept
  <2>2. UNCHANGED <<hpc, file>> /\ DOMAIN fds' = DOMAIN fds \cup {d}
    BY <1>2, <2>1 DEF Accept, Open
  <2> SUFFICES ASSUME NEW c \in Conns, file[c] # 0 PROVE OpenFile(c)'
    BY <2>2 DEF FilesOpen
  <2>3. OpenFile(c) /\ file[c] # d
    BY <1>1, <2>1 DEF FilesOpen, FreeFds
  <2> QED BY <2>2, <2>3 DEF OpenFile, Fds
<1>3. CASE Forget \/ AddWork \/ CreateFails
  BY <1>1, <1>3, FilesFrame DEF Forget, AddWork, CreateFails
<1>4. CASE CreateThread \/ StartJob
  <2>1. /\ UNCHANGED <<file, fds>>
        /\ \E j : hpc' = [hpc EXCEPT ![j] = "read"] /\ hpc[j] # "reply"
    <3>1. CASE CreateThread
      <4>1. fds[s] \in Conns /\ fds[s] \notin running
        BY <1>1, <3>1 DEF CreateThread, Places, Jobs, Typed, TypeOK
      <4> QED BY <3>1, <4>1, <1>1 DEF CreateThread, Typed, TypeOK
    <3>2. CASE StartJob
      <4>1. pending # <<>>
        BY <3>2 DEF StartJob, Pool!Start
      <4>2. Head(pending) \in Conns /\ Head(pending) \notin running
        BY <4>1, <1>1, SetOfSeq DEF Places, Typed
      <4> QED BY <3>2, <4>2, <1>1 DEF StartJob, Typed, TypeOK
    <3> QED BY <3>1, <3>2, <1>4
  <2> QED BY <2>1, <1>1, FilesFrame
<1>5. ASSUME NEW j \in Conns, Handler(j) PROVE FilesOpen'
  <2>1. CASE ReadLine(j) \/ ReadFails(j) \/ TakeMethod(j) \/ Resume(j) \/ TakePath(j)
    <3>1. /\ UNCHANGED <<file, fds>> /\ hpc[j] # "reply"
          /\ \E p : hpc' = [hpc EXCEPT ![j] = p]
      BY <2>1 DEF ReadLine, ReadFails, TakeMethod, Resume, TakePath
    <3> QED BY <3>1, <1>1, FilesFrame
  <2>2. CASE Respond(j)
    <3>1. fds' = fds /\ hpc[j] = "takeproto"
      BY <2>2 DEF Respond
    <3>2. file[j] = 0
      BY <3>1, <1>1 DEF FilesOpen, OpenFile
    <3>3. \/ UNCHANGED <<hpc, file>>
          \/ hpc' = [hpc EXCEPT ![j] = "reply"] /\ file' = file
          \/ \E d \in FreeFds : /\ hpc' = [hpc EXCEPT ![j] = "reply"]
                                /\ file' = [file EXCEPT ![j] = d]
      <4>1. PICK req : LET page == Reply(req, FreeFds # {}) IN
              IF page = Crash THEN UNCHANGED <<hpc, file>>
              ELSE /\ file' = IF page.status = 200 THEN [file EXCEPT ![j] = Lowest] ELSE file
                   /\ hpc' = [hpc EXCEPT ![j] = "reply"]
        BY <2>2 DEF Respond
      <4>2. Reply(req, FreeFds # {}).status = 200 => FreeFds # {}
        BY ReplyNow
      <4> QED BY <4>1, <4>2, LowestFree
    <3>4. CASE UNCHANGED <<hpc, file>>
      BY <3>1, <3>4, <1>1, FilesFrame
    <3>5. CASE hpc' = [hpc EXCEPT ![j] = "reply"] /\ file' = file
      <4>1. \A c \in Conns : hpc[c] = "reply" /\ file[c] # 0 => hpc'[c] = "reply"
        BY <3>5, <1>1
      <4> QED BY <4>1, <3>1, <3>5, <1>1, FilesFrame
    <3>6. ASSUME NEW d \in FreeFds, hpc' = [hpc EXCEPT ![j] = "reply"],
                 file' = [file EXCEPT ![j] = d]
          PROVE  FilesOpen'
      <4>1. d \in Fds /\ d \notin DOMAIN fds /\ d # 0 /\ \A k \in Conns : file[k] # d
        BY <3>6, WebServerAssumption DEF FreeFds, Fds
      <4> SUFFICES ASSUME NEW c \in Conns, file'[c] # 0 PROVE OpenFile(c)'
        BY DEF FilesOpen
      <4>2. CASE c = j
        <5>1. file'[c] = d /\ hpc'[c] = "reply"
          BY <4>2, <3>6, <1>1
        <5>2. \A k \in Conns : file'[k] = d => k = c
          BY <4>1, <4>2, <3>6, <1>1
        <5> QED BY <5>1, <5>2, <4>1, <3>1 DEF OpenFile, Fds
      <4>3. CASE c # j
        <5>1. file'[c] = file[c] /\ hpc'[c] = hpc[c] /\ OpenFile(c)
          BY <4>3, <3>6, <1>1 DEF FilesOpen
        <5>2. \A k \in Conns : file'[k] = file[c] => k = c
          BY <4>1, <4>3, <5>1, <3>6, <1>1 DEF OpenFile
        <5> QED BY <5>1, <5>2, <3>1 DEF OpenFile, Fds
      <4> QED BY <4>2, <4>3
    <3> QED BY <3>3, <3>4, <3>5, <3>6
  <2>3. CASE WriteOut(j) \/ WriteKills(j)
    BY <2>3, <1>1, FilesFrame DEF WriteOut, WriteKills
  <2>4. CASE CloseFile(j)
    <3>1. UNCHANGED <<fds, hpc>> /\ file' = [file EXCEPT ![j] = 0]
      BY <2>4 DEF CloseFile
    <3> SUFFICES ASSUME NEW c \in Conns, file'[c] # 0 PROVE OpenFile(c)'
      BY DEF FilesOpen
    <3>2. file'[c] = file[c] /\ file[c] # 0 /\ OpenFile(c)
      BY <3>1, <1>1 DEF FilesOpen
    <3>3. \A k \in Conns : file'[k] = file[c] => file[k] = file[c]
      BY <3>1, <3>2, <1>1
    <3> QED BY <3>1, <3>2, <3>3 DEF OpenFile, Fds
  <2>5. CASE CloseStream(j)
    <3>1. /\ file' = file /\ file[j] = 0 /\ hpc' = [hpc EXCEPT ![j] = "done"]
          /\ DOMAIN fds' \subseteq DOMAIN fds
      BY <2>5 DEF CloseStream, Closed
    <3>2. \A c \in Conns : hpc[c] = "reply" /\ file[c] # 0 => hpc'[c] = "reply"
      BY <3>1, <1>1
    <3> QED BY <3>1, <3>2, <1>1, FilesFrame
  <2> QED BY <1>5, <2>1, <2>2, <2>3, <2>4, <2>5 DEF Handler
<1>6. ASSUME NEW c \in Conns, Connect(c) \/ PeerStep(c) PROVE FilesOpen'
  <2>1. UNCHANGED <<fds, hpc, file>>
    BY <1>6, PeerStepFrame DEF Connect, Unmoved
  <2> QED BY <2>1, <1>1, FilesFrame
<1>7. CASE UNCHANGED vars
  BY <1>1, <1>7, FilesFrame DEF vars, server
<1> QED
  BY <1>2, <1>3, <1>4, <1>5, <1>6, <1>7
  DEF Next, ProgramStep, ForeignStep, Listener, Client, PeerStep

-----------------------------------------------------------------------------
(* Lines taken apart.                                                      *)

\* A step after which no more handlers are in their lines, and those as they
\* were, with the same words spoiled or torn.
LEMMA ParseFrame ==
  ASSUME ParseApart, alive' => alive, Parsing' \subseteq Parsing,
         UNCHANGED <<saved, from, spoiled, torn, mixed>>,
         \A j \in Parsing' : hpc'[j] = hpc[j]
  PROVE  ParseApart'
  BY DEF ParseApart, Overlaps, Undisturbed

\* The same step of the machine but for the lines.
LEMMA PhasesKeepParse ==
  ASSUME Typed, ParseApart, alive' => alive, parse' = parse, NEW j \in Conns,
         NEW p \in {"none", "read", "reply", "done"}, hpc' = [hpc EXCEPT ![j] = p]
  PROVE  ParseApart'
<1>1. hpc \in [Conns -> Phases] /\ UNCHANGED <<saved, from, spoiled, torn, mixed>>
  BY DEF Typed, TypeOK, Phases, parse
<1>2. Parsing' \subseteq Parsing /\ \A i \in Parsing' : hpc'[i] = hpc[i]
  BY <1>1 DEF Parsing
<1> QED
  BY <1>1, <1>2, ParseFrame

\* What a strtok spoils is of handlers in their lines, and when it is not in its
\* own these are mixed.
LEMMA HitsAreMixed ==
  ASSUME Overlaps, NEW j \in Parsing, j \in mixed \/ from[j] = {j}, NEW hit \in Spoils(j)
  PROVE  /\ hit \subseteq mixed /\ Tears(j, hit) \subseteq mixed
         /\ j \notin mixed => hit = {} /\ Tears(j, hit) = {}
<1>1. CASE from[j] = {j}
  <2>1. hit = {}
    BY <1>1 DEF Spoils
  <2> QED BY <2>1 DEF Tears
<1>2. CASE from[j] # {j}
  <2>1. j \in mixed /\ Parsing \subseteq mixed
    BY <1>2 DEF Overlaps
  <2>2. hit \subseteq Parsing
    <3>1. hit \in {{j, k} : k \in Parsing} \/ hit = {j} \cup (from[j] \cap Parsing)
      BY <1>2 DEF Spoils
    <3> QED BY <3>1
  <2> QED BY <2>1, <2>2 DEF Tears
<1> QED
  BY <1>1, <1>2

\* A handler that is alone in its line finds its own words there.
LEMMA NextKeepsParse ==
  ASSUME WebInv, [Next]_vars PROVE ParseApart'
<1>1. Typed /\ Places /\ ParseApart /\ hpc \in [Conns -> Phases] /\ Parsing \subseteq Conns
  BY DEF WebInv, Typed, TypeOK, Phases, Parsing
<1>2. ASSUME alive' => alive, hpc' = hpc, parse' = parse PROVE ParseApart'
  BY <1>1, <1>2, ParseFrame DEF Parsing, parse
<1>3. CASE Accept \/ Forget \/ AddWork \/ CreateFails
  BY <1>2, <1>3 DEF Accept, Forget, AddWork, CreateFails
<1>4. CASE CreateThread
  <2>1. fds[s] \in Conns
    BY <1>1, <1>4 DEF CreateThread, Places, Typed, TypeOK
  <2> QED BY <2>1, <1>1, <1>4, PhasesKeepParse DEF CreateThread
<1>5. CASE StartJob
  <2>1. Head(pending) \in Conns
    BY <1>1, <1>5, SetOfSeq DEF StartJob, Pool!Start, Typed
  <2> QED BY <2>1, <1>1, <1>5, PhasesKeepParse DEF StartJob
<1>6. ASSUME NEW j \in Conns, Handler(j) PROVE ParseApart'
  <2>1. CASE ReadLine(j)
    <3>1. /\ alive /\ hpc[j] = "read" /\ hpc' = [hpc EXCEPT ![j] = "line"]
          /\ mixed' = IF Parsing = {} THEN mixed ELSE mixed \cup Parsing \cup {j}
          /\ UNCHANGED <<alive, saved, from, spoiled, torn>>
      BY <2>1 DEF ReadLine
    <3>2. Parsing' = Parsing \cup {j} /\ \A i \in Parsing : hpc'[i] = hpc[i]
      BY <3>1, <1>1 DEF Parsing
    <3>3. Overlaps'
      BY <3>1, <3>2, <1>1 DEF ParseApart, Overlaps
    <3>4. \A i \in Parsing' \ mixed' : Undisturbed(i)'
      BY <3>1, <3>2, <1>1 DEF ParseApart, Undisturbed
    <3>5. mixed \subseteq mixed'
      BY <3>1
    <3> QED BY <3>1, <3>3, <3>4, <3>5, <1>1 DEF ParseApart
  <2>2. CASE ReadFails(j)
    BY <2>2, <1>1, PhasesKeepParse DEF ReadFails
  <2>3. CASE TakeMethod(j)
    <3>1. /\ alive /\ hpc[j] = "line" /\ hpc' = [hpc EXCEPT ![j] = "path"] /\ saved' = {j}
          /\ UNCHANGED <<alive, from, spoiled, torn, mixed>>
      BY <2>3 DEF TakeMethod
    <3>2. Parsing' = Parsing /\ j \in Parsing /\ \A i \in Parsing : i # j => hpc'[i] = hpc[i]
      BY <3>1, <1>1 DEF Parsing
    <3>3. \A i \in Parsing \ mixed : i = j
      BY <3>1, <3>2, <1>1 DEF ParseApart, Overlaps
    <3>4. Undisturbed(j)'
      BY <3>1, <1>1 DEF Undisturbed
    <3> QED BY <3>1, <3>2, <3>3, <3>4, <1>1 DEF ParseApart, Overlaps
  <2>4. CASE Resume(j)
    <3>1. /\ alive /\ hpc[j] \in {"path", "proto"} /\ from' = [from EXCEPT ![j] = saved]
          /\ \E p \in {"takepath", "takeproto"} : hpc' = [hpc EXCEPT ![j] = p]
          /\ UNCHANGED <<alive, saved, spoiled, torn, mixed>>
      <4>1. (IF hpc[j] = "path" THEN "takepath" ELSE "takeproto") \in {"takepath", "takeproto"}
        OBVIOUS
      <4> QED BY <4>1, <2>4 DEF Resume
    <3>2. Parsing' = Parsing /\ j \in Parsing /\ \A i \in Parsing : i # j => hpc'[i] = hpc[i]
      BY <3>1, <1>1 DEF Parsing
    <3>3. \A i \in Parsing \ mixed : i = j
      BY <3>1, <3>2, <1>1 DEF ParseApart, Overlaps
    <3>4. j \notin mixed => saved = {j} /\ from'[j] = {j}
      BY <3>1, <3>2, <1>1 DEF ParseApart, Undisturbed, Typed, TypeOK
    <3>5. j \notin mixed => Undisturbed(j)'
      BY <3>1, <3>4 DEF Undisturbed
    <3> QED BY <3>1, <3>2, <3>3, <3>5, <1>1 DEF ParseApart, Overlaps
  <2>5. CASE TakePath(j)
    <3>1. PICK hit \in Spoils(j) :
            spoiled' = spoiled \cup hit /\ torn' = torn \cup Tears(j, hit)
      BY <2>5 DEF TakePath
    <3>2. /\ alive /\ hpc[j] = "takepath" /\ hpc' = [hpc EXCEPT ![j] = "proto"]
          /\ saved' = from[j] /\ UNCHANGED <<alive, mixed>>
      BY <2>5 DEF TakePath
    <3>3. Parsing' = Parsing /\ j \in Parsing /\ \A i \in Parsing : i # j => hpc'[i] = hpc[i]
      BY <3>2, <1>1 DEF Parsing
    <3>4. \A i \in Parsing \ mixed : i = j
      BY <3>2, <3>3, <1>1 DEF ParseApart, Overlaps
    <3>5. j \notin mixed => from[j] = {j}
      BY <3>2, <3>3, <1>1 DEF ParseApart, Undisturbed
    <3>6. hit \subseteq mixed /\ Tears(j, hit) \subseteq mixed
      BY <3>2, <3>3, <3>5, <1>1, HitsAreMixed DEF ParseApart
    <3>7. j \notin mixed => Undisturbed(j)'
      BY <3>2, <3>5, <1>1 DEF Undisturbed
    <3> QED BY <3>1, <3>2, <3>3, <3>4, <3>6, <3>7, <1>1 DEF ParseApart, Overlaps
  <2>6. CASE Respond(j)
    <3>1. PICK hit \in Spoils(j) :
            /\ spoiled' = (spoiled \cup hit) \ {j} /\ torn' = torn \cup Tears(j, hit)
            /\ alive' => hpc' = [hpc EXCEPT ![j] = "reply"]
      BY <2>6 DEF Respond
    <3>2. alive /\ hpc[j] = "takeproto" /\ mixed' = mixed
      BY <2>6 DEF Respond
    <3> SUFFICES ASSUME alive' PROVE ParseApart'
      BY DEF ParseApart
    <3>3. j \in Parsing /\ Parsing' = Parsing \ {j}
      BY <3>1, <3>2, <1>1 DEF Parsing
    <3>4. \A i \in Parsing' : i \in mixed
      BY <3>2, <3>3, <1>1 DEF ParseApart, Overlaps
    <3>5. j \in mixed \/ from[j] = {j}
      BY <3>2, <3>3, <1>1 DEF ParseApart, Undisturbed
    <3>6. hit \subseteq mixed /\ Tears(j, hit) \subseteq mixed
      BY <3>2, <3>3, <3>5, <1>1, HitsAreMixed DEF ParseApart
    <3> QED BY <3>1, <3>2, <3>3, <3>4, <3>6, <1>1 DEF ParseApart, Overlaps
  <2>7. CASE WriteOut(j) \/ WriteKills(j) \/ CloseFile(j)
    BY <2>7, <1>2 DEF WriteOut, WriteKills, CloseFile
  <2>8. CASE CloseStream(j)
    <3>1. /\ hpc[j] = "reply" /\ hpc' = [hpc EXCEPT ![j] = "done"] /\ torn' = torn \ {j}
          /\ UNCHANGED <<alive, saved, from, spoiled, mixed>>
      BY <2>8 DEF CloseStream
    <3>2. Parsing' = Parsing /\ j \notin Parsing /\ \A i \in Parsing : hpc'[i] = hpc[i]
      BY <3>1, <1>1 DEF Parsing
    <3>3. \A i \in Parsing : Undisturbed(i) => Undisturbed(i)'
      BY <3>1, <3>2 DEF Undisturbed
    <3> QED BY <3>1, <3>2, <3>3, <1>1 DEF ParseApart, Overlaps
  <2> QED BY <1>6, <2>1, <2>2, <2>3, <2>4, <2>5, <2>6, <2>7, <2>8 DEF Handler
<1>7. ASSUME NEW c \in Conns, Connect(c) \/ PeerStep(c) PROVE ParseApart'
  <2>1. alive' = alive /\ hpc' = hpc /\ parse' = parse
    BY <1>7, PeerStepFrame DEF Connect
  <2> QED BY <2>1, <1>2
<1>8. CASE UNCHANGED vars
  BY <1>2, <1>8 DEF vars, server
<1> QED
  BY <1>3, <1>4, <1>5, <1>6, <1>7, <1>8
  DEF Next, ProgramStep, ForeignStep, Listener, Client, PeerStep

-----------------------------------------------------------------------------
(* Replies.                                                                *)

\* Parts of a part, which may be empty.
LEMMA PartOfPart ==
  ASSUME NEW S, NEW w \in Seq(S), NEW m \in 1 .. Len(w) + 1, NEW n \in m - 1 .. Len(w),
         NEW a \in 1 .. n - m + 2, NEW b \in a - 1 .. n - m + 1
  PROVE  /\ Len(SubSeq(w, m, n)) = n - m + 1
         /\ SubSeq(SubSeq(w, m, n), a, b) = SubSeq(w, m + a - 1, m + b - 1)
<1>1. Len(w) \in Nat /\ \A i \in m .. n : w[i] \in S
  OBVIOUS
<1>2. Len(SubSeq(w, m, n)) = n - m + 1
  <2>1. Len(SubSeq(w, m, n)) = IF m <= n THEN n - m + 1 ELSE 0
    BY <1>1, SubSeqProperties
  <2> QED BY <2>1, <1>1
<1>3. CASE b < a
  <2>1. SubSeq(SubSeq(w, m, n), a, b) = <<>>
    BY <1>1, <1>3, SubSeqEmpty
  <2>2. m + b - 1 < m + a - 1 /\ m + a - 1 \in Int /\ m + b - 1 \in Int
    BY <1>1, <1>3
  <2>3. SubSeq(w, m + a - 1, m + b - 1) = <<>>
    BY <2>2, SubSeqEmpty
  <2> QED BY <1>2, <2>1, <2>3
<1>4. CASE ~(b < a)
  <2>1. /\ m \in 1 .. Len(w) /\ n \in 1 .. Len(w)
        /\ a \in 1 .. n - m + 1 /\ b \in 1 .. n - m + 1
    BY <1>1, <1>4
  <2>2. SubSeq(SubSeq(w, m, n), a, b) = SubSeq(w, m + a - 1, m + b - 1)
    BY <2>1, SubSeqOfSubSeq
  <2> QED BY <1>2, <2>2
<1> QED
  BY <1>3, <1>4

\* What a handler has written and has still to write are parts of a page.
LEMMA SentParts ==
  ASSUME NEW c, NEW page, NEW n, NEW t, Sends(c, page, n, t)
  PROVE  /\ n \in Nat /\ t \in Nat /\ Len(Carried(page)) \in Nat
         /\ n <= t /\ t <= Len(Carried(page))
         /\ Len(reply[c]) = n /\ Len(todo[c]) = Len(Carried(page)) - t
         /\ todo[c] = <<>> <=> t = Len(Carried(page))
         /\ \A k \in 1 .. n : reply[c][k] = Carried(page)[k]
         /\ \E S : reply[c] \in Seq(S) /\ todo[c] \in Seq(S) /\ Carried(page) \in Seq(S)
<1>1. PICK S, w : w \in Seq(S) /\ w = Carried(page)
  BY CarriedPage DEF Sends
<1>2. /\ Len(w) \in Nat /\ n \in Nat /\ t \in n .. Len(w)
      /\ reply[c] = SubSeq(w, 1, n) /\ todo[c] = SubSeq(w, t + 1, Len(w))
  BY <1>1 DEF Sends
<1>3. /\ \A i \in 1 .. n : w[i] \in S
      /\ \A i \in t + 1 .. Len(w) : w[i] \in S
      /\ t + 1 \in Int /\ Len(w) \in Int
  BY <1>1, <1>2
<1>4. /\ reply[c] \in Seq(S) /\ Len(reply[c]) = n
      /\ \A k \in 1 .. n : reply[c][k] = w[k]
  <2>1. \A i \in 1 .. n : w[i] \in S
    BY <1>3
  <2>2. /\ SubSeq(w, 1, n) \in Seq(S)
        /\ Len(SubSeq(w, 1, n)) = IF 1 <= n THEN n - 1 + 1 ELSE 0
        /\ \A i \in 1 .. n - 1 + 1 : SubSeq(w, 1, n)[i] = w[1 + i - 1]
    BY <2>1, <1>2, SubSeqProperties
  <2>3. \A k \in 1 .. n : k \in 1 .. n - 1 + 1 /\ 1 + k - 1 = k
    BY <1>2
  <2> QED BY <2>2, <2>3, <1>2
<1>5. todo[c] \in Seq(S) /\ Len(todo[c]) = Len(w) - t
  <2>1. \A i \in t + 1 .. Len(w) : w[i] \in S
    BY <1>3
  <2>2. /\ SubSeq(w, t + 1, Len(w)) \in Seq(S)
        /\ Len(SubSeq(w, t + 1, Len(w))) = IF t + 1 <= Len(w) THEN Len(w) - (t + 1) + 1 ELSE 0
    BY <2>1, <1>3, SubSeqProperties
  <2> QED BY <2>2, <1>2
<1>6. todo[c] = <<>> <=> t = Len(w)
  <2>1. PICK q : q = todo[c]
    OBVIOUS
  <2>2. q \in Seq(S) /\ Len(q) = Len(w) - t /\ Len(<<>>) = 0 /\ (q # <<>> => Len(q) # 0)
    BY <2>1, <1>5, EmptySeq
  <2>3. q = <<>> => Len(q) = Len(<<>>)
    OBVIOUS
  <2> QED BY <2>1, <2>2, <2>3, <1>2
<1> QED
  BY <1>1, <1>2, <1>4, <1>5, <1>6

\* What was written to a connection.
LEMMA ReplyWritten ==
  ASSUME NEW c, Talk(c)
  PROVE  Len(reply[c]) \in Nat /\ \E S : reply[c] \in Seq(S)
<1>1. PICK page, n, t : Sends(c, page, n, t)
  BY DEF Talk
<1> QED
  BY <1>1, SentParts

\* A step that leaves the conversation alone, but for the peer's leaving when
\* nobody of the course's own is there.
LEMMA TalkFrame ==
  ASSUME NEW c, Talk(c),
         reply'[c] = reply[c], todo'[c] = todo[c], hpc'[c] = hpc[c],
         request'[c] = request[c], cpc'[c] = cpc[c], taken'[c] = taken[c],
         who' = who, alive' => alive, c \in mixed => c \in mixed',
         peer'[c] = peer[c] \/ (peer'[c] # "open" /\
                                 (cpc[c] \notin {"send", "recv"} \/ who[c] = "foreign"))
  PROVE  Talk(c)'
<1>1. InStep(c)'
  BY DEF Talk, InStep
<1>2. PICK page, n, t : Sends(c, page, n, t)
  BY DEF Talk
<1>3. Sends(c, page, n, t)'
  BY <1>2 DEF Sends, IsPage, Answers
<1> QED
  BY <1>1, <1>3 DEF Talk

\* Of any request there is a page of which nothing was sent yet.
LEMMA NothingSent ==
  ASSUME NEW req
  PROVE  \E page, L : /\ IsPage(page) /\ page \in Answers(req)
                      /\ L \in Nat /\ L = Len(Carried(page))
                      /\ <<>> = SubSeq(Carried(page), 1, 0)
                      /\ <<>> = SubSeq(Carried(page), L + 1, L)
<1>1. PICK page : page = Reply(req, TRUE)
  BY Zenon
<1>2. IsPage(page) /\ page \in Answers(req)
  BY <1>1, ReplyIsPage DEF Answers
<1>3. PICK L \in Nat : L = Len(Carried(page))
  BY <1>2, CarriedPage
<1>4. SubSeq(Carried(page), 1, 0) = <<>> /\ SubSeq(Carried(page), L + 1, L) = <<>>
  BY <1>3, SubSeqEmpty
<1> QED
  BY <1>2, <1>3, <1>4

\* Before it answers a handler may send any page yet; one that has read no line
\* sends none, but its peer has left.
LEMMA TalkUnanswered ==
  ASSUME NEW c, InStep(c)', reply'[c] = <<>>, todo'[c] = <<>>, hpc'[c] # "done",
         hpc'[c] # "reply" \/ peer'[c] # "open"
  PROVE  Talk(c)'
<1>1. ~(cpc'[c] = "done" /\ alive')
  BY DEF InStep
<1>2. PICK req : req = request'[c]
  OBVIOUS
<1>3. PICK page, L : /\ IsPage(page) /\ page \in Answers(req)
                     /\ L \in Nat /\ L = Len(Carried(page))
                     /\ <<>> = SubSeq(Carried(page), 1, 0)
                     /\ <<>> = SubSeq(Carried(page), L + 1, L)
  BY NothingSent
<1>4. Sends(c, page, 0, L)'
  <2>1. (c \notin mixed => page \in Answers(request[c]))'
    BY <1>2, <1>3 DEF Answers
  <2>2. 0 \in Nat /\ L \in 0 .. Len(Carried(page))
    BY <1>3
  <2>3. /\ reply'[c] = SubSeq(Carried(page), 1, 0)
        /\ todo'[c] = SubSeq(Carried(page), L + 1, Len(Carried(page)))
    BY <1>3
  <2> QED BY <1>1, <1>3, <2>1, <2>2, <2>3 DEF Sends
<1> QED
  BY <1>4 DEF Talk

\* A step of a handler that has not answered yet.
LEMMA TalkStarts ==
  ASSUME NEW c, Talk(c), hpc[c] \notin {"reply", "done"}, hpc'[c] \notin {"reply", "done"},
         request[c] = None => hpc'[c] = "read", request[c] = None => request'[c] = None,
         UNCHANGED <<reply, todo, request, cpc, taken, who, peer>>, alive' => alive
  PROVE  Talk(c)'
<1>1. InStep(c)' /\ reply'[c] = <<>> /\ todo'[c] = <<>>
  BY DEF Talk, InStep
<1> QED
  BY <1>1, TalkUnanswered

\* Before the server accepts a connection, and until a handler takes it, no
\* handler has been on it.
LEMMA NotStarted ==
  ASSUME Typed, Places, NEW c \in Conns, c \notin running, c \notin finished
  PROVE  hpc[c] = "none"
  BY DEF Typed, TypeOK, Places

\* What is said over a connection is no concern of the listener.
LEMMA ListenerKeepsTalk ==
  ASSUME Typed, Places, NEW c \in Conns, Talk(c), Listener \/ StartJob
  PROVE  Talk(c)'
<1>1. /\ UNCHANGED <<reply, todo, request, cpc, taken, who, peer, mixed>> /\ (alive' => alive)
      /\ hpc \in [Conns -> Phases]
  BY DEF Listener, StartJob, Accept, Forget, AddWork, CreateThread, CreateFails,
         sockets, client, parse, Typed, TypeOK, Phases
<1>2. CASE Accept \/ Forget \/ AddWork \/ CreateFails
  <2>1. hpc' = hpc
    BY <1>2 DEF Accept, Forget, AddWork, CreateFails
  <2> QED BY <2>1, <1>1, TalkFrame
<1>3. CASE CreateThread \/ StartJob
  <2>1. PICK j : j = IF StartJob THEN Head(pending) ELSE fds[s]
    OBVIOUS
  <2>2. j \in Conns /\ j \notin running /\ j \notin finished
    <3>1. CASE StartJob
      <4>1. j = Head(pending) /\ pending # <<>>
        BY <2>1, <3>1 DEF StartJob, Pool!Start
      <4>2. j \in ToSet(pending) /\ j \in Conns
        BY <4>1, SetOfSeq DEF Typed
      <4>3. j \in Jobs
        BY <4>2 DEF Jobs
      <4> QED BY <4>2, <4>3 DEF Places, OnFds
    <3>2. CASE CreateThread /\ ~StartJob
      <4>1. j = fds[s] /\ lpc = "check"
        BY <2>1, <3>2 DEF CreateThread
      <4> QED BY <4>1 DEF Places, OnFds, Jobs, Typed, TypeOK
    <3> QED BY <3>1, <3>2, <1>3
  <2>3. hpc' = [hpc EXCEPT ![j] = "read"] /\ alive' = alive
    BY <1>3, <2>1 DEF CreateThread, StartJob
  <2>4. hpc[j] = "none"
    BY <2>2, NotStarted
  <2>5. CASE c = j
    <3>1. hpc'[c] = "read" /\ hpc[c] = "none"
      BY <2>3, <2>4, <2>5, <1>1
    <3> QED BY <3>1, <2>3, <1>1, TalkStarts
  <2>6. CASE c # j
    BY <2>3, <2>6, <1>1, TalkFrame
  <2> QED BY <2>5, <2>6
<1> QED
  BY <1>2, <1>3 DEF Listener

\* While it takes its line apart a handler sends nothing.
LEMMA ParsingKeepsTalk ==
  ASSUME Typed, Places, NEW j \in Conns, NEW c \in Conns, Talk(c),
         ReadLine(j) \/ ReadFails(j) \/ TakeMethod(j) \/ Resume(j) \/ TakePath(j)
  PROVE  Talk(c)'
<1>1. /\ hpc \in [Conns -> Phases]
      /\ UNCHANGED <<alive, who, request, reply, cpc, taken, peer, todo>>
      /\ hpc[j] \in {"read", "line", "path", "takepath", "proto"}
      /\ c \in mixed => c \in mixed'
  BY DEF ReadLine, ReadFails, TakeMethod, Resume, TakePath, sockets, client, parse,
         Typed, TypeOK, Phases
<1>2. \E p \in {"line", "path", "takepath", "proto", "takeproto", "reply"} :
        hpc' = [hpc EXCEPT ![j] = p]
  BY HandlerStepFrame, <1>1 DEF HandlerStep, ReadLine, ReadFails, TakeMethod, Resume, TakePath
<1>3. Socket(j) = j
  BY <1>1, SocketOfJob
<1>4. CASE c # j
  BY <1>1, <1>2, <1>4, TalkFrame
<1>5. CASE c = j /\ ReadFails(j)
  <2>1. peer[c] # "open" /\ hpc'[c] = "reply" /\ hpc[c] = "read"
    BY <1>1, <1>3, <1>5 DEF ReadFails
  <2>2. InStep(c)' /\ reply'[c] = <<>> /\ todo'[c] = <<>>
    BY <2>1, <1>1 DEF Talk, InStep
  <2> QED BY <2>1, <2>2, <1>1, TalkUnanswered
<1>6. CASE c = j /\ ~ReadFails(j)
  <2>1. request[c] # None
    BY <1>1, <1>3, <1>6 DEF ReadLine, TakeMethod, Resume, TakePath, Talk, InStep
  <2>2. hpc[c] \notin {"reply", "done"} /\ hpc'[c] \notin {"reply", "done"}
    BY <1>1, <1>6 DEF ReadLine, TakeMethod, Resume, TakePath
  <2> QED BY <2>1, <2>2, <1>1, TalkStarts
<1> QED
  BY <1>4, <1>5, <1>6

\* A handler that is not mixed answers what it was asked.
LEMMA RespondKeepsTalk ==
  ASSUME Typed, Places, ParseApart, NEW j \in Conns, NEW c \in Conns, Talk(c), Respond(j)
  PROVE  Talk(c)'
<1>1. /\ hpc \in [Conns -> Phases] /\ DOMAIN todo = Conns /\ alive /\ hpc[j] = "takeproto"
      /\ UNCHANGED <<who, request, reply, cpc, taken, peer, mixed>>
  BY DEF Respond, sockets, client, Typed, TypeOK, Phases
<1>2. Socket(j) = j /\ j \in Parsing
  BY <1>1, SocketOfJob DEF Parsing
<1>3. PICK hit, req :
        /\ hit \in Spoils(j) /\ req \in Understood(j, hit)
        /\ LET page == Reply(req, FreeFds # {})
           IN  IF page = Crash THEN alive' = FALSE /\ UNCHANGED <<hpc, todo>>
               ELSE /\ todo' = [todo EXCEPT ![j] = Carried(page)]
                    /\ hpc' = [hpc EXCEPT ![j] = "reply"]
                    /\ alive' = alive
  BY DEF Respond
<1>4. PICK page : page = Reply(req, FreeFds # {})
  BY Zenon
<1>5. page \in Answers(req) /\ IsPage(page)
  BY <1>4, ReplyNow
<1>6. CASE page = Crash
  <2>1. alive' = FALSE /\ UNCHANGED <<hpc, todo>>
    BY <1>3, <1>4, <1>6
  <2> QED BY <2>1, <1>1, TalkFrame
<1>7. CASE page # Crash
  <2>1. /\ todo' = [todo EXCEPT ![j] = Carried(page)] /\ hpc' = [hpc EXCEPT ![j] = "reply"]
        /\ alive' = alive
    BY <1>3, <1>4, <1>7
  <2>2. CASE c # j
    BY <2>1, <2>2, <1>1, TalkFrame
  <2>3. CASE c = j
    <3>1. j \notin mixed => req = request[j]
      <4>1. j \in mixed \/ from[j] = {j}
        BY <1>1, <1>2 DEF ParseApart, Undisturbed
      <4>2. j \notin mixed => hit = {} /\ Tears(j, hit) = {}
        BY <4>1, <1>1, <1>2, <1>3, HitsAreMixed DEF ParseApart
      <4>3. j \notin mixed => j \notin torn /\ j \notin spoiled
        BY <1>1 DEF ParseApart
      <4> QED BY <4>2, <4>3, <1>2, <1>3 DEF Understood
    <3>2. reply[c] = <<>> /\ request[c] # None /\ ~(cpc[c] = "done")
      BY <1>1, <2>3 DEF Talk, InStep
    <3>3. todo'[c] = Carried(page) /\ hpc'[c] = "reply"
      BY <2>1, <2>3, <1>1
    <3>4. InStep(c)'
      BY <3>2, <3>3, <2>1, <1>1 DEF Talk, InStep
    <3>5. /\ SubSeq(Carried(page), 1, 0) = <<>> /\ Len(Carried(page)) \in Nat
          /\ SubSeq(Carried(page), 0 + 1, Len(Carried(page))) = Carried(page)
      <4>1. PICK S, w : w \in Seq(S) /\ w = Carried(page)
        BY <1>5, CarriedPage
      <4> QED BY <4>1, SubSeqFull, SubSeqEmpty
    <3>6. Sends(c, page, 0, 0)'
      <4>1. (c \notin mixed => page \in Answers(request[c]))'
        BY <1>1, <1>5, <2>3, <3>1 DEF Answers
      <4>2. 0 \in Nat /\ 0 \in 0 .. Len(Carried(page))
        BY <3>5
      <4> QED BY <4>1, <4>2, <3>2, <3>3, <3>5, <1>1, <1>5 DEF Sends
    <3> QED BY <3>4, <3>6 DEF Talk
  <2> QED BY <2>2, <2>3
<1> QED
  BY <1>6, <1>7

\* What one write does to a page: its next elements go to the peer, if it is there.
LEMMA WriteOutSends ==
  ASSUME Typed, Places, NEW j \in Conns, InStep(j), WriteOut(j),
         NEW page, NEW n, NEW t, Sends(j, page, n, t), NEW u, u = t + Block(j)
  PROVE  \E m \in n .. Len(Carried(page)) : Sends(j, page, m, u)'
<1>1. /\ hpc[j] = "reply" /\ hpc' = hpc /\ alive' = alive /\ todo[j] # <<>>
      /\ DOMAIN todo = Conns /\ DOMAIN reply = Conns
      /\ UNCHANGED <<mixed, request, cpc, taken, who>>
      /\ peer \in [Conns -> {"none", "open", "closed", "aborted", "reset"}]
  BY DEF WriteOut, Writing, parse, client, Typed, TypeOK
<1>2. Socket(j) = j
  BY <1>1, SocketOfJob
<1>3. PICK b : b = Block(j)
  OBVIOUS
<1>4. /\ todo'[j] = SubSeq(todo[j], b + 1, Len(todo[j]))
      /\ reply'[j] = IF peer[j] = "open" THEN reply[j] \o SubSeq(todo[j], 1, b) ELSE reply[j]
      /\ peer'[j] = "open" => peer[j] = "open"
  BY <1>1, <1>2, <1>3 DEF WriteOut
<1>5. PICK S, w : w \in Seq(S) /\ w = Carried(page)
  BY CarriedPage DEF Sends
<1>6. /\ Len(w) \in Nat /\ n \in Nat /\ t \in Nat /\ n <= t /\ t <= Len(w)
      /\ reply[j] = SubSeq(w, 1, n) /\ todo[j] = SubSeq(w, t + 1, Len(w))
      /\ Len(todo[j]) = Len(w) - t /\ t # Len(w)
      /\ peer[j] = "open" => n = t
  BY <1>1, <1>5, SentParts DEF Sends
<1>7. b \in 1 .. Len(w) - t
  <2>1. Len(w) - t \in Nat \ {0} /\ Buffer \in Nat \ {0}
    BY <1>6, HttpReplyAssumption
  <2>2. b = IF Len(w) - t > Buffer THEN Buffer ELSE Len(w) - t
    BY <1>3, <1>6 DEF Block
  <2> QED BY <2>1, <2>2
<1>8. todo'[j] = SubSeq(w, (t + b) + 1, Len(w))
  <2>1. /\ t + 1 \in 1 .. Len(w) + 1 /\ Len(w) \in (t + 1) - 1 .. Len(w)
        /\ b + 1 \in 1 .. Len(w) - (t + 1) + 2
        /\ Len(w) - t \in (b + 1) - 1 .. Len(w) - (t + 1) + 1
    <3>1. b \in Nat /\ 1 <= b /\ b <= Len(w) - t
      BY <1>6, <1>7
    <3> QED BY <3>1, <1>6
  <2>2. SubSeq(SubSeq(w, t + 1, Len(w)), b + 1, Len(w) - t)
          = SubSeq(w, (t + 1) + (b + 1) - 1, (t + 1) + (Len(w) - t) - 1)
    <3>1. PICK x, y, p, q : x = t + 1 /\ y = Len(w) /\ p = b + 1 /\ q = Len(w) - t
      OBVIOUS
    <3>2. x \in 1 .. Len(w) + 1 /\ y \in x - 1 .. Len(w) /\ p \in 1 .. y - x + 2
          /\ q \in p - 1 .. y - x + 1
      BY <2>1, <3>1
    <3>3. SubSeq(SubSeq(w, x, y), p, q) = SubSeq(w, x + p - 1, x + q - 1)
      BY <3>2, <1>5, PartOfPart
    <3> QED BY <3>1, <3>3
  <2>3. (t + 1) + (b + 1) - 1 = (t + b) + 1 /\ (t + 1) + (Len(w) - t) - 1 = Len(w)
    BY <1>6, <1>7
  <2> QED BY <2>2, <2>3, <1>4, <1>6
<1>9. peer[j] = "open" => reply'[j] = SubSeq(w, 1, t + b)
  <2>1. /\ t + 1 \in 1 .. Len(w) + 1 /\ Len(w) \in (t + 1) - 1 .. Len(w)
        /\ 1 \in 1 .. Len(w) - (t + 1) + 2 /\ b \in 1 - 1 .. Len(w) - (t + 1) + 1
    BY <1>6, <1>7
  <2>2. SubSeq(SubSeq(w, t + 1, Len(w)), 1, b) = SubSeq(w, (t + 1) + 1 - 1, (t + 1) + b - 1)
    <3>1. PICK x, y, p : x = t + 1 /\ y = Len(w) /\ p = 1
      OBVIOUS
    <3>2. x \in 1 .. Len(w) + 1 /\ y \in x - 1 .. Len(w) /\ p \in 1 .. y - x + 2
          /\ b \in p - 1 .. y - x + 1
      BY <2>1, <3>1
    <3>3. SubSeq(SubSeq(w, x, y), p, b) = SubSeq(w, x + p - 1, x + b - 1)
      BY <3>2, <1>5, PartOfPart
    <3> QED BY <3>1, <3>3
  <2>3. (t + 1) + 1 - 1 = t + 1 /\ (t + 1) + b - 1 = t + b
    BY <1>6, <1>7
  <2>4. 1 \in 1 .. Len(w) + 1 /\ t \in 1 - 1 .. Len(w) /\ t + b \in t .. Len(w)
    <3>1. b \in Nat /\ 1 <= b /\ b <= Len(w) - t
      BY <1>6, <1>7
    <3> QED BY <3>1, <1>6
  <2>5. SubSeq(w, 1, t) \o SubSeq(w, t + 1, t + b) = SubSeq(w, 1, t + b)
    BY <2>4, <1>5, ConcatAdjacentSubSeq
  <2> QED BY <2>2, <2>3, <2>5, <1>4, <1>6
<1>10. ~(cpc'[j] = "done" /\ alive')
  BY <1>1 DEF InStep
<1>11. (j \notin mixed => page \in Answers(request[j]))' /\ IsPage(page)
  BY <1>1 DEF Sends, Answers
<1>12. u = t + b /\ u \in Nat /\ u \in u .. Len(w) /\ u \in n .. Len(w) /\ n \in n .. Len(w)
  <2>1. u = t + b /\ u \in Nat
    BY <1>3, <1>6, <1>7
  <2>2. n <= u /\ u <= Len(w) /\ n <= Len(w)
    BY <2>1, <1>6, <1>7
  <2>3. u \in u .. Len(w)
    BY <2>1, <2>2, <1>6
  <2>4. u \in n .. Len(w) /\ n \in n .. Len(w)
    BY <2>1, <2>2, <1>6
  <2> QED BY <2>1, <2>3, <2>4
<1>13. CASE peer[j] = "open"
  <2>1. Sends(j, page, u, u)'
    BY <1>5, <1>8, <1>9, <1>10, <1>11, <1>12, <1>13 DEF Sends
  <2> QED BY <2>1, <1>5, <1>12
<1>14. CASE peer[j] # "open"
  <2>1. Sends(j, page, n, u)'
    <3>1. reply'[j] = SubSeq(w, 1, n) /\ peer'[j] # "open"
      BY <1>4, <1>6, <1>14
    <3> QED BY <3>1, <1>5, <1>6, <1>8, <1>10, <1>11, <1>12 DEF Sends
  <2> QED BY <2>1, <1>5, <1>12
<1> QED
  BY <1>13, <1>14

\* A part of the page goes to the connection it was made for.
LEMMA WriteOutKeepsTalk ==
  ASSUME Typed, Places, NEW j \in Conns, NEW c \in Conns, Talk(c), WriteOut(j)
  PROVE  Talk(c)'
<1>1. /\ hpc[j] = "reply" /\ UNCHANGED <<alive, who, request, cpc, taken, hpc, mixed>>
      /\ todo[j] # <<>> /\ DOMAIN todo = Conns /\ DOMAIN reply = Conns
      /\ peer \in [Conns -> {"none", "open", "closed", "aborted", "reset"}]
  BY DEF WriteOut, Writing, parse, client, Typed, TypeOK
<1>2. Socket(j) = j
  BY <1>1, SocketOfJob
<1>3. CASE c # j
  <2>1. todo'[c] = todo[c] /\ reply'[c] = reply[c] /\ peer'[c] = peer[c]
    BY <1>1, <1>2, <1>3 DEF WriteOut
  <2> QED BY <2>1, <1>1, TalkFrame
<1>4. CASE c = j
  <2>1. PICK page, n, t : Sends(c, page, n, t)
    BY DEF Talk
  <2>2. PICK u : u = t + Block(j)
    OBVIOUS
  <2>3. InStep(c)'
    <3>1. peer'[c] = "open" <=> peer[c] = "open"
      BY <1>1, <1>2, <1>4 DEF WriteOut
    <3> QED BY <3>1, <1>1, <1>4 DEF Talk, InStep
  <2>4. PICK m : Sends(c, page, m, u)'
    BY <2>1, <2>2, <1>4, WriteOutSends DEF Talk
  <2> QED BY <2>3, <2>4 DEF Talk
<1> QED
  BY <1>3, <1>4

\* Whatever a handler does, each connection has a page of its own.
LEMMA HandlerKeepsTalk ==
  ASSUME Typed, Places, ParseApart, NEW j \in Conns, NEW c \in Conns, Talk(c), Handler(j)
  PROVE  Talk(c)'
<1>1. CASE ReadLine(j) \/ ReadFails(j) \/ TakeMethod(j) \/ Resume(j) \/ TakePath(j)
  BY <1>1, ParsingKeepsTalk
<1>2. CASE Respond(j)
  BY <1>2, RespondKeepsTalk
<1>3. CASE WriteOut(j)
  BY <1>3, WriteOutKeepsTalk
<1>4. CASE WriteKills(j) \/ CloseFile(j)
  <2>1. /\ alive' => alive
        /\ UNCHANGED <<who, request, reply, cpc, taken, peer, hpc, todo, mixed>>
    BY <1>4 DEF WriteKills, CloseFile, Writing, parse, sockets, client
  <2> QED BY <2>1, TalkFrame
<1>5. CASE CloseStream(j)
  <2>1. /\ hpc \in [Conns -> Phases]
        /\ UNCHANGED <<alive, who, request, reply, cpc, taken, peer, todo, mixed>> /\ alive
        /\ hpc[j] = "reply" /\ todo[j] = <<>> /\ hpc' = [hpc EXCEPT ![j] = "done"]
    BY <1>5 DEF CloseStream, sockets, client, parse, Typed, TypeOK, Phases
  <2>2. CASE c # j
    BY <2>1, <2>2, TalkFrame
  <2>3. CASE c = j
    <3>1. hpc[c] = "reply" /\ hpc'[c] = "done" /\ todo[c] = <<>>
      BY <2>1, <2>3
    <3>2. InStep(c)' /\ cpc[c] # "done"
      BY <3>1, <2>1 DEF Talk, InStep
    <3>3. PICK page, n, t : Sends(c, page, n, t)
      BY DEF Talk
    <3>4. Sends(c, page, n, t)'
      BY <3>1, <3>2, <3>3, <2>1 DEF Sends, Answers
    <3> QED BY <3>2, <3>4 DEF Talk
  <2> QED BY <2>2, <2>3
<1> QED
  BY <1>1, <1>2, <1>3, <1>4, <1>5 DEF Handler

\* A peer connects.
LEMMA ConnectKeepsTalk ==
  ASSUME Typed, Places, NEW x \in Conns, NEW c \in Conns, Talk(c), Connect(x)
  PROVE  Talk(c)'
<1>1. /\ UNCHANGED <<alive, who, hpc, todo, request, reply, taken, mixed>>
      /\ cpc[x] = "start" /\ peer' = [peer EXCEPT ![x] = "open"]
      /\ cpc' = [cpc EXCEPT ![x] = "send"]
      /\ peer \in [Conns -> {"none", "open", "closed", "aborted", "reset"}]
      /\ cpc \in [Conns -> {"start", "send", "recv", "done", "exit"}]
  BY DEF Connect, parse, Typed, TypeOK
<1>2. CASE c # x
  <2>1. peer'[c] = peer[c] /\ cpc'[c] = cpc[c]
    BY <1>1, <1>2
  <2> QED BY <2>1, <1>1, TalkFrame
<1>3. CASE c = x
  <2>1. c \notin Known /\ cpc'[c] = "send" /\ peer'[c] = "open" /\ cpc[c] = "start"
    BY <1>1, <1>3 DEF Places
  <2>2. hpc[c] = "none"
    BY <2>1, NotStarted DEF Known, Places, Jobs, OnFds
  <2>3. InStep(c)' /\ reply'[c] = <<>> /\ todo'[c] = <<>>
    BY <2>1, <2>2, <1>1 DEF Talk, InStep
  <2> QED BY <2>2, <2>3, <1>1, TalkUnanswered
<1> QED
  BY <1>2, <1>3

\* A request is made; no handler has answered.
LEMMA AskKeepsTalk ==
  ASSUME Typed, NEW c \in Conns, Talk(c), request[c] = None, peer[c] = "open",
         UNCHANGED <<alive, who, hpc, todo, reply, peer, taken>>,
         \/ cpc[c] # "start" /\ who[c] = "foreign" /\ cpc'[c] = cpc[c]
         \/ cpc'[c] = "recv"
  PROVE  Talk(c)'
<1>1. hpc[c] \in {"none", "read"} /\ reply[c] = <<>> /\ todo[c] = <<>>
  BY DEF Talk, InStep
<1>2. InStep(c)'
  BY <1>1 DEF Talk, InStep
<1> QED
  BY <1>1, <1>2, TalkUnanswered

\* Whatever a peer does, each connection has a page of its own.
LEMMA PeerStepKeepsTalk ==
  ASSUME Typed, Places, NEW x \in Conns, NEW c \in Conns, Talk(x), Talk(c), PeerStep(x)
  PROVE  Talk(c)'
<1>1. UNCHANGED <<who, alive, hpc, todo, reply, mixed>>
  BY PeerStepFrame DEF parse
<1>2. /\ peer \in [Conns -> {"none", "open", "closed", "aborted", "reset"}]
      /\ cpc \in [Conns -> {"start", "send", "recv", "done", "exit"}]
      /\ DOMAIN request = Conns /\ DOMAIN taken = Conns
  BY DEF Typed, TypeOK
<1>3. CASE ConnectFails(x) \/ SendFails(x)
  <2>1. UNCHANGED <<request, taken>> /\ ExitProcess(x)
    BY <1>3 DEF ConnectFails, SendFails
  <2>2. CASE c \notin Process(x) \/ cpc[c] = "done"
    <3>1. cpc'[c] = cpc[c]
      BY <2>1, <2>2 DEF ExitProcess
    <3>2. peer'[c] = peer[c] \/ (peer'[c] # "open" /\ cpc[c] \notin {"send", "recv"})
      BY <2>1, <2>2 DEF ExitProcess
    <3> QED BY <3>1, <3>2, <2>1, <1>1, TalkFrame
  <2>3. CASE c \in Process(x) /\ cpc[c] # "done"
    <3>1. cpc'[c] = "exit" /\ (peer'[c] = peer[c] \/ peer'[c] # "open")
      BY <2>1, <2>3 DEF ExitProcess
    <3>2. InStep(c)'
      BY <3>1, <2>1, <1>1 DEF Talk, InStep
    <3>3. PICK page, n, t : Sends(c, page, n, t)
      BY DEF Talk
    <3>4. Sends(c, page, n, t)'
      BY <3>1, <3>3, <2>1, <1>1 DEF Sends, Answers
    <3> QED BY <3>2, <3>4 DEF Talk
  <2> QED BY <2>2, <2>3
<1>4. CASE SendQuery(x)
  <2>1. /\ UNCHANGED <<peer, taken>> /\ who[x] # "foreign" /\ cpc[x] = "send"
        /\ request' = [request EXCEPT ![x] = OwnRequest] /\ cpc' = [cpc EXCEPT ![x] = "recv"]
    BY <1>4 DEF SendQuery
  <2>2. CASE c # x
    <3>1. request'[c] = request[c] /\ cpc'[c] = cpc[c]
      BY <2>1, <2>2, <1>2
    <3> QED BY <3>1, <2>1, <1>1, TalkFrame
  <2>3. CASE c = x
    <3>1. request[c] = None /\ peer[c] = "open" /\ cpc'[c] = "recv"
      BY <2>1, <2>3, <1>2 DEF Talk, InStep
    <3> QED BY <3>1, <2>1, <1>1, AskKeepsTalk
  <2> QED BY <2>2, <2>3
<1>5. CASE Ask(x)
  <2>1. /\ UNCHANGED <<peer, taken, cpc>> /\ who[x] = "foreign" /\ peer[x] = "open"
        /\ request[x] = None /\ \E r : request' = [request EXCEPT ![x] = r]
    BY <1>5 DEF Ask, client
  <2>2. CASE c # x
    <3>1. request'[c] = request[c] /\ cpc'[c] = cpc[c]
      BY <2>1, <2>2, <1>2
    <3> QED BY <3>1, <2>1, <1>1, TalkFrame
  <2>3. CASE c = x
    <3>1. cpc[c] # "start"
      BY <2>1, <2>3 DEF Places
    <3> QED BY <3>1, <2>1, <2>3, <1>1, AskKeepsTalk
  <2> QED BY <2>2, <2>3
<1>6. CASE Receive(x)
  <2>1. /\ UNCHANGED <<peer, request, cpc>> /\ cpc[x] = "recv"
        /\ \E n : taken' = [taken EXCEPT ![x] = n]
    BY <1>6 DEF Receive, sockets
  <2>2. CASE c # x
    <3>1. taken'[c] = taken[c]
      BY <2>1, <2>2, <1>2
    <3> QED BY <3>1, <2>1, <1>1, TalkFrame
  <2>3. CASE c = x
    <3>1. InStep(c)' /\ cpc[c] # "done"
      BY <2>1, <2>3, <1>1 DEF Talk, InStep
    <3>2. PICK page, n, t : Sends(c, page, n, t)
      BY DEF Talk
    <3>3. Sends(c, page, n, t)'
      BY <3>1, <3>2, <2>1, <1>1 DEF Sends, Answers
    <3> QED BY <3>1, <3>3 DEF Talk
  <2> QED BY <2>2, <2>3
<1>7. CASE ReceiveEnd(x)
  <2>1. /\ UNCHANGED <<request, taken>> /\ who[x] # "foreign" /\ cpc[x] = "recv"
        /\ ~alive \/ (Ended(x) /\ taken[x] = Len(reply[x]))
        /\ cpc' = [cpc EXCEPT ![x] = "done"] /\ peer' = [peer EXCEPT ![x] = "closed"]
    BY <1>7 DEF ReceiveEnd
  <2>2. CASE c # x
    <3>1. cpc'[c] = cpc[c] /\ peer'[c] = peer[c]
      BY <2>1, <2>2, <1>2
    <3> QED BY <3>1, <2>1, <1>1, TalkFrame
  <2>3. CASE c = x
    <3>1. peer[c] = "open" /\ cpc'[c] = "done" /\ peer'[c] = "closed"
      BY <2>1, <2>3, <1>2 DEF Talk, InStep
    <3>2. alive => hpc[c] = "done" /\ todo[c] = <<>> /\ taken[c] = Len(reply[c])
      <4>1. Ended(c) => hpc[c] = "done"
        <5>1. peer[c] # "none" /\ c \in Known
          BY <3>1 DEF Places
        <5> QED BY <5>1 DEF Places, Known, Ended, OnFds
      <4> QED BY <4>1, <2>1, <2>3 DEF Talk, InStep
    <3>3. InStep(c)'
      BY <3>1, <3>2, <2>1, <2>3, <1>1 DEF Talk, InStep
    <3>4. PICK page, n, t : Sends(c, page, n, t)
      BY DEF Talk
    <3>5. alive => taken[c] = Len(Carried(page))
      <4>1. alive => n = t
        BY <3>1, <3>2, <3>4 DEF Sends
      <4>2. Len(reply[c]) = n /\ (todo[c] = <<>> => t = Len(Carried(page)))
        BY <3>4, SentParts
      <4> QED BY <4>1, <4>2, <3>2
    <3>6. Sends(c, page, n, t)'
      BY <3>1, <3>4, <3>5, <2>1, <1>1 DEF Sends, Answers
    <3> QED BY <3>3, <3>6 DEF Talk
  <2> QED BY <2>2, <2>3
<1>8. CASE Leave(x)
  <2>1. /\ UNCHANGED <<request, taken, cpc>> /\ who[x] = "foreign"
        /\ \E e \in {"closed", "aborted"} : peer' = [peer EXCEPT ![x] = e]
    BY <1>8 DEF Leave, client
  <2>2. peer'[c] = peer[c] \/ (peer'[c] # "open" /\ who[c] = "foreign")
    BY <2>1, <1>2
  <2> QED BY <2>1, <2>2, <1>1, TalkFrame
<1> QED
  BY <1>3, <1>4, <1>5, <1>6, <1>7, <1>8 DEF PeerStep

\* What each step does to a conversation.
LEMMA NextKeepsTalk ==
  ASSUME WebInv, [Next]_vars, NEW c \in Conns PROVE Talk(c)'
<1>1. Typed /\ Places /\ ParseApart /\ \A x \in Conns : Talk(x)
  BY DEF WebInv
<1>2. CASE Listener \/ StartJob
  BY <1>1, <1>2, ListenerKeepsTalk
<1>3. ASSUME NEW j \in Conns, Handler(j) PROVE Talk(c)'
  BY <1>1, <1>3, HandlerKeepsTalk
<1>4. ASSUME NEW x \in Conns, Connect(x) PROVE Talk(c)'
  BY <1>1, <1>4, ConnectKeepsTalk
<1>5. ASSUME NEW x \in Conns, PeerStep(x) PROVE Talk(c)'
  BY <1>1, <1>5, PeerStepKeepsTalk
<1>6. CASE UNCHANGED vars
  <2>1. UNCHANGED <<reply, todo, hpc, request, cpc, taken, who, alive, peer, mixed>>
    BY <1>6 DEF vars, server, parse, sockets, client
  <2> QED BY <2>1, <1>1, TalkFrame
<1> QED
  BY <1>2, <1>3, <1>4, <1>5, <1>6 DEF Next, ProgramStep, ForeignStep, Client, PeerStep

-----------------------------------------------------------------------------
(* What htmlget shows.                                                     *)

\* The front of a page, which is what was written of it.
LEMMA FrontOfPage ==
  ASSUME NEW page, IsPage(page), NEW m \in 0 .. Len(Carried(page)),
         NEW r, r = SubSeq(Carried(page), 1, m)
  PROVE  Len(r) = m /\ \A k \in 1 .. m : r[k] = Carried(page)[k]
<1>1. PICK S, w : w \in Seq(S) /\ w = Carried(page)
  BY CarriedPage
<1>2. m \in Nat /\ \A i \in 1 .. m : w[i] \in S
  BY <1>1
<1>3. /\ Len(SubSeq(w, 1, m)) = IF 1 <= m THEN m - 1 + 1 ELSE 0
      /\ \A i \in 1 .. m - 1 + 1 : SubSeq(w, 1, m)[i] = w[1 + i - 1]
  BY <1>2, SubSeqProperties
<1>4. \A k \in 1 .. m : k \in 1 .. m - 1 + 1 /\ 1 + k - 1 = k
  BY <1>2
<1> QED
  BY <1>1, <1>2, <1>3, <1>4

\* A write only adds to what was written before.
LEMMA WriteOutGrows ==
  ASSUME Typed, Places, NEW j \in Conns, NEW c \in Conns, Talk(c), WriteOut(j)
  PROVE  /\ Len(reply'[c]) \in Nat /\ Len(reply[c]) \in Nat /\ Len(reply[c]) <= Len(reply'[c])
         /\ \A i \in 1 .. Len(reply[c]) : reply'[c][i] = reply[c][i]
<1>1. Len(reply[c]) \in Nat
  BY ReplyWritten
<1>2. CASE c # j
  <2>1. Socket(j) = j /\ DOMAIN reply = Conns
    BY SocketOfJob DEF WriteOut, Writing, Typed
  <2>2. reply'[c] = reply[c]
    BY <1>2, <2>1 DEF WriteOut
  <2> QED BY <1>1, <2>2
<1>3. CASE c = j
  <2>1. PICK page, n, t : Sends(c, page, n, t)
    BY DEF Talk
  <2>2. PICK u : u = t + Block(j)
    OBVIOUS
  <2>3. PICK m \in n .. Len(Carried(page)) : Sends(c, page, m, u)'
    BY <2>1, <2>2, <1>3, WriteOutSends DEF Talk
  <2>4. PICK r : r = reply'[c]
    OBVIOUS
  <2>5. r = SubSeq(Carried(page), 1, m) /\ IsPage(page)
    BY <2>1, <2>3, <2>4 DEF Sends
  <2>6. /\ n \in Nat /\ Len(reply[c]) = n /\ m \in 0 .. Len(Carried(page)) /\ n <= m
        /\ \A k \in 1 .. n : reply[c][k] = Carried(page)[k]
    BY <2>1, <2>3, SentParts
  <2>7. Len(r) = m /\ \A k \in 1 .. m : r[k] = Carried(page)[k]
    BY <2>5, <2>6, FrontOfPage
  <2>8. \A k \in 1 .. n : k \in 1 .. m
    BY <2>6
  <2>9. m \in Nat
    BY <2>6
  <2> QED BY <2>4, <2>6, <2>7, <2>8, <2>9
<1> QED
  BY <1>2, <1>3

\* Sequences that agree agree in their parts.
LEMMA SamePart ==
  ASSUME NEW q, NEW r, NEW m \in Nat \ {0}, NEW n \in Nat,
         \A i \in 1 .. n : q[i] = r[i]
  PROVE  SubSeq(q, m, n) = SubSeq(r, m, n)
<1> DEFINE S == {q[i] : i \in 1 .. n}
<1>1. \A i \in m .. n : i \in 1 .. n
  OBVIOUS
<1>2. \A i \in m .. n : q[i] \in S /\ r[i] \in S /\ q[i] = r[i]
  BY <1>1
<1> HIDE DEF S
<1>3. /\ SubSeq(q, m, n) \in Seq(S) /\ SubSeq(r, m, n) \in Seq(S)
      /\ Len(SubSeq(q, m, n)) = IF m <= n THEN n - m + 1 ELSE 0
      /\ Len(SubSeq(r, m, n)) = IF m <= n THEN n - m + 1 ELSE 0
      /\ \A i \in 1 .. n - m + 1 : SubSeq(q, m, n)[i] = q[m + i - 1]
      /\ \A i \in 1 .. n - m + 1 : SubSeq(r, m, n)[i] = r[m + i - 1]
  BY <1>2, SubSeqProperties
<1>4. \A i \in 1 .. n - m + 1 : m + i - 1 \in m .. n
  OBVIOUS
<1>5. \A i \in 1 .. n - m + 1 : SubSeq(q, m, n)[i] = SubSeq(r, m, n)[i]
  BY <1>2, <1>3, <1>4
<1>6. \A i \in 1 .. Len(SubSeq(q, m, n)) : i \in 1 .. n - m + 1
  BY <1>3
<1> QED
  BY <1>3, <1>5, <1>6, SeqEqual

\* A step that shows nothing.
LEMMA ShowsFrame ==
  ASSUME NEW c, Shows(c), taken[c] \in Nat, taken[c] <= Len(reply[c]), Len(reply[c]) \in Nat,
         buf'[c] = buf[c], shown'[c] = shown[c], htmlstart'[c] = htmlstart[c],
         taken'[c] = taken[c], who' = who, cut' = cut,
         \A i \in 1 .. Len(reply[c]) : reply'[c][i] = reply[c][i]
  PROVE  Shows(c)'
<1>1. PICK n \in Nat : n = taken[c]
  OBVIOUS
<1>2. \A i \in 1 .. n : i \in 1 .. Len(reply[c])
  BY <1>1
<1>3. CASE htmlstart[c]
  <2>1. PICK k \in Nat : BlankAt(c, k, n) /\ shown[c] = SubSeq(reply[c], k + 2, n)
    BY <1>1, <1>3 DEF Shows
  <2>2. k \in 1 .. n /\ k + 1 \in 1 .. n
    <3>1. k \in 2 .. n - 1
      BY <2>1 DEF BlankAt
    <3> QED BY <3>1, <1>1
  <2>3. BlankAt(c, k, n)'
    BY <2>1, <2>2, <1>2 DEF BlankAt
  <2>4. SubSeq(reply'[c], k + 2, n) = SubSeq(reply[c], k + 2, n)
    <3>1. PICK m \in Nat \ {0} : m = k + 2
      BY <2>1
    <3>2. PICK q, r : q = reply'[c] /\ r = reply[c]
      OBVIOUS
    <3>3. \A i \in 1 .. n : q[i] = r[i]
      BY <3>2, <1>2
    <3>4. SubSeq(q, m, n) = SubSeq(r, m, n)
      BY <3>3, SamePart
    <3> QED BY <3>1, <3>2, <3>4
  <2> QED BY <1>1, <1>3, <2>1, <2>3, <2>4 DEF Shows
<1>4. CASE ~htmlstart[c]
  BY <1>4 DEF Shows
<1> QED
  BY <1>3, <1>4

\* What one recv returned: the reply from after its place n up to place m.
Received(q, c, n, m) ==
  /\ n < m /\ m <= Len(reply[c])
  /\ Len(q) = m - n /\ \A i \in 1 .. m - n : q[i] = reply[c][n + i]

\* The blank lines in what one recv returned are those of the reply that are in
\* it whole.  None is at the reply's first place, and one is at its second.
LEMMA BlankLinesFound ==
  ASSUME NEW c, Talk(c), NEW n \in Nat, NEW m \in Nat,
         NEW q, Received(q, c, n, m), NEW B, B = BlankLines(q)
  PROVE  /\ B \subseteq 1 .. m - n - 1
         /\ \A k \in B : /\ reply[c][n + k].is = "crlf" /\ reply[c][(n + k) + 1].is = "crlf"
                         /\ n + k >= 2
         /\ n <= 1 /\ m >= 3 => 2 - n \in B
         /\ B # {} => Min(B) \in B /\ \A k \in B : Min(B) <= k
<1> USE DEF Received
<1>1. B = {k \in 1 .. m - n - 1 : q[k].is = "crlf" /\ q[k + 1].is = "crlf"}
  BY DEF BlankLines
<1>2. \A k \in 1 .. m - n - 1 : k \in 1 .. m - n /\ k + 1 \in 1 .. m - n /\ n + (k + 1) = (n + k) + 1
  OBVIOUS
<1>3. \A k \in 1 .. m - n - 1 : q[k] = reply[c][n + k] /\ q[k + 1] = reply[c][(n + k) + 1]
  <2> SUFFICES ASSUME NEW k \in 1 .. m - n - 1
               PROVE  q[k] = reply[c][n + k] /\ q[k + 1] = reply[c][(n + k) + 1]
    OBVIOUS
  <2>1. q[k] = reply[c][n + k] /\ q[k + 1] = reply[c][n + (k + 1)]
    BY <1>2
  <2> QED BY <2>1, <1>2
<1>4. /\ reply[c][1].is # "crlf"
      /\ m >= 3 => reply[c][2].is = "crlf" /\ reply[c][3].is = "crlf"
  <2>1. PICK page, x, y : Sends(c, page, x, y)
    BY DEF Talk
  <2>2. /\ x \in Nat /\ Len(reply[c]) = x /\ x <= Len(Carried(page)) /\ IsPage(page)
        /\ Len(Carried(page)) \in Nat
        /\ \A k \in 1 .. x : reply[c][k] = Carried(page)[k]
    <3>1. /\ x \in Nat /\ y \in Nat /\ x <= y /\ y <= Len(Carried(page))
          /\ Len(Carried(page)) \in Nat /\ Len(reply[c]) = x
          /\ \A k \in 1 .. x : reply[c][k] = Carried(page)[k]
      BY <2>1, SentParts
    <3> QED BY <3>1, <2>1 DEF Sends
  <2>3. m <= x /\ 1 \in 1 .. x
    BY <2>2
  <2>4. Carried(page) # <<>>
    <3>1. Len(<<>>) = 0
      OBVIOUS
    <3>2. Len(Carried(page)) # 0
      BY <2>2, <2>3
    <3> QED BY <3>1, <3>2
  <2>5. /\ Carried(page)[1].is # "crlf" /\ Carried(page)[2].is = "crlf"
        /\ Carried(page)[3].is = "crlf"
    BY <2>2, <2>4, CarriedPage
  <2>6. m >= 3 => 2 \in 1 .. x /\ 3 \in 1 .. x
    BY <2>2, <2>3
  <2> QED BY <2>2, <2>3, <2>5, <2>6
<1>5. \A k \in B : n + k >= 2
  <2> SUFFICES ASSUME NEW k \in B, n + k < 2 PROVE FALSE
    BY <1>1
  <2>1. n + k = 1 /\ k \in 1 .. m - n - 1
    BY <1>1
  <2> QED BY <2>1, <1>1, <1>3, <1>4
<1>6. ASSUME n <= 1, m >= 3 PROVE 2 - n \in B
  <2>1. PICK k \in 1 .. m - n - 1 : k = 2 - n /\ n + k = 2
    BY <1>6
  <2>2. q[k].is = "crlf" /\ q[k + 1].is = "crlf"
    BY <2>1, <1>3, <1>4, <1>6
  <2> QED BY <2>1, <2>2, <1>1
<1>7. B # {} => Min(B) \in B /\ \A k \in B : Min(B) <= k
  <2>1. B \in SUBSET Nat
    BY <1>1
  <2>2. B # {} => \E k \in B : \A x \in B : k <= x
    BY <2>1, LeastNumber
  <2> QED BY <2>2 DEF Min
<1> QED
  BY <1>1, <1>3, <1>5, <1>6, <1>7


\* htmlget takes in a part of the reply and prints what follows the blank line.
LEMMA ReceiveKeepsShows ==
  ASSUME Typed, NEW x \in Conns, NEW c \in Conns, Talk(c), Shows(c), Receive(x)
  PROVE  Shows(c)'
<1>1. /\ DOMAIN taken = Conns /\ DOMAIN buf = Conns /\ DOMAIN shown = Conns
      /\ htmlstart \in [Conns -> BOOLEAN] /\ taken[c] \in 0 .. Len(reply[c])
  BY DEF Typed, TypeOK
<1>2. Len(reply[c]) \in Nat
  BY ReplyWritten
<1>3. reply' = reply /\ who' = who
  BY DEF Receive, sockets
<1>4. PICK m \in taken[x] + 1 .. Len(reply[x]) :
        LET data == SubSeq(reply[x], taken[x] + 1, m)
            view == View(x, data)
        IN  /\ taken' = [taken EXCEPT ![x] = m]
            /\ cut' = IF m = HeaderLen - 1 THEN cut \cup {x} ELSE cut
            /\ IF who[x] = "htmlget"
               THEN Show(x, view) /\ buf' = [buf EXCEPT ![x] = Cleared(view, Len(data))]
               ELSE UNCHANGED <<buf, htmlstart, shown>>
  BY DEF Receive
<1>5. CASE c # x
  <2>1. /\ taken'[c] = taken[c] /\ buf'[c] = buf[c]
        /\ htmlstart'[c] = htmlstart[c] /\ shown'[c] = shown[c]
    BY <1>1, <1>4, <1>5 DEF Show
  <2>2. c \in cut' <=> c \in cut
    BY <1>4, <1>5
  <2> QED BY <2>1, <2>2, <1>3 DEF Shows, BlankAt
<1>6. CASE c = x
  <2>1. PICK n \in Nat : n = taken[c]
    BY <1>1
  <2>2. m \in Nat /\ n < m /\ m <= Len(reply[c]) /\ taken'[c] = m
    BY <1>1, <1>2, <1>4, <1>6, <2>1
  <2>3. PICK S : reply[c] \in Seq(S)
    BY ReplyWritten
  <2>4. PICK data : data = SubSeq(reply[c], n + 1, m)
    OBVIOUS
  <2>5. /\ data \in Seq(S) /\ Len(data) = m - n
        /\ \A i \in 1 .. m - n : data[i] = reply[c][n + i]
    <3>1. \A i \in n + 1 .. m : reply[c][i] \in S
      BY <2>2, <2>3
    <3>2. /\ data \in Seq(S) /\ Len(data) = IF n + 1 <= m THEN m - (n + 1) + 1 ELSE 0
          /\ \A i \in 1 .. m - (n + 1) + 1 : data[i] = reply[c][(n + 1) + i - 1]
      BY <3>1, <2>2, <2>4, SubSeqProperties
    <3> QED BY <3>2, <2>2
  <2>6. View(c, data) = data
    <3>1. Len(<<>>) = 0
      OBVIOUS
    <3>2. SubSeq(<<>>, Len(data) + 1, 0) = <<>>
      BY <2>2, <2>5, SubSeqEmpty
    <3> QED BY <3>1, <3>2, <2>5, ConcatEmptySeq DEF View, Shows
  <2>7. c \in cut' <=> c \in cut \/ m = 2
    BY <1>4, <1>6 DEF HeaderLen
  <2>8. CASE who[x] # "htmlget"
    <3>1. UNCHANGED <<buf, htmlstart, shown>>
      BY <1>4, <2>8
    <3>2. ~htmlstart[c] /\ shown[c] = <<>> /\ buf[c] = <<>>
      BY <1>6, <2>8 DEF Shows
    <3> QED BY <3>1, <3>2, <2>8, <1>3, <1>6 DEF Shows
  <2>9. CASE who[x] = "htmlget"
    <3>1. Show(c, data) /\ buf' = [buf EXCEPT ![c] = Cleared(data, Len(data))]
      BY <1>4, <1>6, <2>1, <2>4, <2>6, <2>9
    <3>2. buf'[c] = <<>> /\ who'[c] = "htmlget"
      BY <3>1, <1>1, <1>3, <1>6, <2>2, <2>5, <2>9 DEF Cleared
    <3>3. PICK B : B = BlankLines(data)
      OBVIOUS
    <3>4. /\ B \subseteq 1 .. m - n - 1
          /\ \A k \in B : /\ reply[c][n + k].is = "crlf" /\ reply[c][(n + k) + 1].is = "crlf"
                          /\ n + k >= 2
          /\ n <= 1 /\ m >= 3 => 2 - n \in B
          /\ B # {} => Min(B) \in B /\ \A k \in B : Min(B) <= k
      <4>1. Received(data, c, n, m)
        BY <2>2, <2>5 DEF Received
      <4> QED BY <4>1, <2>2, <3>3, BlankLinesFound
    <3>5. /\ htmlstart'[c] = (htmlstart[c] \/ B # {})
          /\ shown'[c] = IF htmlstart[c] THEN shown[c] \o data
                         ELSE IF B = {} THEN shown[c]
                         ELSE SubSeq(data, Min(B) + 2, Len(data))
      BY <3>1, <3>3, <1>1 DEF Show
    <3>6. CASE htmlstart[c]
      <4>1. PICK k \in Nat : BlankAt(c, k, n) /\ shown[c] = SubSeq(reply[c], k + 2, n)
        BY <3>6, <2>1 DEF Shows
      <4>2. k \in 2 .. n - 1
        BY <4>1 DEF BlankAt
      <4>3. m # 2 /\ k \in 2 .. m - 1
        BY <4>2, <2>2
      <4>4. BlankAt(c, k, m)'
        BY <4>1, <4>3, <2>7, <1>3 DEF BlankAt
      <4>5. shown'[c] = SubSeq(reply[c], k + 2, m)
        <5>1. PICK i \in 1 .. Len(reply[c]) + 1 : i = k + 2
          BY <4>2, <2>2, <1>2
        <5>2. n \in i - 1 .. Len(reply[c]) /\ m \in n .. Len(reply[c])
          BY <5>1, <4>2, <2>2, <1>2
        <5>3. SubSeq(reply[c], i, n) \o SubSeq(reply[c], n + 1, m) = SubSeq(reply[c], i, m)
          BY <5>2, <2>3, ConcatAdjacentSubSeq
        <5> QED BY <5>1, <5>3, <4>1, <3>5, <3>6, <2>4
      <4>6. htmlstart'[c]
        BY <3>5, <3>6
      <4> QED BY <4>4, <4>5, <4>6, <3>2, <2>2, <1>3 DEF Shows
    <3>7. CASE ~htmlstart[c] /\ B = {}
      <4>1. ~htmlstart'[c] /\ shown'[c] = <<>>
        BY <3>5, <3>7 DEF Shows
      <4>2. IF c \in cut THEN n >= 2 ELSE n <= 1
        BY <3>7, <1>6, <2>1, <2>9 DEF Shows
      <4>3. IF c \in cut' THEN m >= 2 ELSE m <= 1
        <5>1. CASE c \in cut
          BY <5>1, <4>2, <2>2, <2>7
        <5>2. CASE c \notin cut
          <6>1. ~(m >= 3)
            BY <5>2, <4>2, <3>4, <3>7
          <6> QED BY <6>1, <5>2, <2>2, <2>7
        <5> QED BY <5>1, <5>2
      <4> QED BY <4>1, <4>3, <3>2, <2>2 DEF Shows
    <3>8. CASE ~htmlstart[c] /\ B # {}
      <4>1. PICK b : b = Min(B)
        OBVIOUS
      <4>2. b \in B /\ (\A k \in B : b <= k) /\ b \in 1 .. m - n - 1
        BY <4>1, <3>4, <3>8
      <4>3. PICK k \in Nat : k = n + b
        BY <4>2
      <4>4. /\ reply[c][k].is = "crlf" /\ reply[c][k + 1].is = "crlf" /\ k >= 2
            /\ k \in 2 .. m - 1
        <5>1. reply[c][k].is = "crlf" /\ reply[c][k + 1].is = "crlf" /\ k >= 2
          BY <4>2, <4>3, <3>4
        <5>2. k \in 2 .. m - 1
          BY <5>1, <4>2, <4>3, <2>2
        <5> QED BY <5>1, <5>2
      <4>5. IF c \in cut THEN n >= 2 ELSE n <= 1
        BY <3>8, <1>6, <2>1, <2>9 DEF Shows
      <4>6. m # 2 /\ IF c \in cut THEN k >= 3 ELSE k = 2
        <5>1. m >= 3
          BY <4>4, <2>2
        <5>2. CASE c \in cut
          BY <5>1, <5>2, <4>2, <4>3, <4>5
        <5>3. CASE c \notin cut
          <6>1. 2 - n \in B
            BY <5>1, <5>3, <4>5, <3>4
          <6>2. b <= 2 - n
            BY <6>1, <4>2
          <6> QED BY <6>2, <5>1, <5>3, <4>2, <4>3, <4>4
        <5> QED BY <5>2, <5>3
      <4>7. BlankAt(c, k, m)'
        BY <4>4, <4>6, <2>7, <1>3 DEF BlankAt, HeaderLen
      <4>8. htmlstart'[c] /\ shown'[c] = SubSeq(data, b + 2, m - n)
        BY <4>1, <3>5, <3>8, <2>5
      <4>9. SubSeq(data, b + 2, m - n) = SubSeq(reply[c], k + 2, m)
        <5>1. PICK r, i, d, e : r = reply[c] /\ i = n + 1 /\ d = b + 2 /\ e = m - n
          OBVIOUS
        <5>2. /\ r \in Seq(S) /\ i \in 1 .. Len(r) + 1 /\ m \in i - 1 .. Len(r)
              /\ d \in 1 .. m - i + 2 /\ e \in d - 1 .. m - i + 1
          <6>1. Len(r) \in Nat /\ m <= Len(r) /\ b <= m - n - 1 /\ 1 <= b /\ b \in Nat
            BY <5>1, <4>2, <2>2, <1>2
          <6>2. i \in 1 .. Len(r) + 1 /\ m \in i - 1 .. Len(r)
            BY <6>1, <5>1, <2>2
          <6>3. d \in 1 .. m - i + 2 /\ e \in d - 1 .. m - i + 1
            BY <6>1, <5>1, <2>2
          <6> QED BY <6>2, <6>3, <5>1, <2>3
        <5>3. SubSeq(SubSeq(r, i, m), d, e) = SubSeq(r, i + d - 1, i + e - 1)
          BY <5>2, PartOfPart
        <5>4. i + d - 1 = k + 2 /\ i + e - 1 = m
          BY <5>1, <4>2, <4>3, <2>2
        <5> QED BY <5>1, <5>3, <5>4, <2>4
      <4> QED BY <4>3, <4>7, <4>8, <4>9, <3>2, <2>2, <1>3 DEF Shows
    <3> QED BY <3>6, <3>7, <3>8
  <2> QED BY <2>8, <2>9
<1> QED
  BY <1>5, <1>6

\* Only a receive changes what htmlget has printed.
LEMMA NextKeepsShows ==
  ASSUME WebInv, [Next]_vars, NEW c \in Conns PROVE Shows(c)'
<1>1. Typed /\ Places /\ Talk(c) /\ Shows(c)
  BY DEF WebInv
<1>2. Len(reply[c]) \in Nat /\ taken[c] \in Nat /\ taken[c] <= Len(reply[c])
  BY <1>1, ReplyWritten DEF Typed, TypeOK
<1>3. ASSUME UNCHANGED <<reply, buf, shown, htmlstart, taken, cut, who>> PROVE Shows(c)'
  BY <1>1, <1>2, <1>3, ShowsFrame
<1>4. CASE Listener \/ StartJob
  <2>1. UNCHANGED <<reply, buf, shown, htmlstart, taken, cut, who>>
    BY <1>4 DEF Listener, Accept, Forget, AddWork, CreateThread, CreateFails, StartJob,
                sockets, client
  <2> QED BY <1>3, <2>1
<1>5. ASSUME NEW j \in Conns, Handler(j) PROVE Shows(c)'
  <2>1. CASE WriteOut(j)
    <3>1. UNCHANGED <<buf, shown, htmlstart, taken, cut, who>>
      BY <2>1 DEF WriteOut, client
    <3> QED BY <2>1, <3>1, <1>1, <1>2, WriteOutGrows, ShowsFrame
  <2>2. CASE HandlerStep(j) /\ ~WriteOut(j)
    <3>1. UNCHANGED <<reply, buf, shown, htmlstart, taken, cut, who>>
      BY <2>2, HandlerStepFrame, HandlerStepSockets DEF client
    <3> QED BY <1>3, <3>1
  <2>3. CASE CloseStream(j)
    <3>1. UNCHANGED <<reply, buf, shown, htmlstart, taken, cut, who>>
      BY <2>3 DEF CloseStream, sockets, client
    <3> QED BY <1>3, <3>1
  <2> QED BY <1>5, <2>1, <2>2, <2>3 DEF Handler, HandlerStep
<1>6. ASSUME NEW x \in Conns, Connect(x) \/ PeerStep(x), ~Receive(x) PROVE Shows(c)'
  <2>1. UNCHANGED <<reply, buf, shown, htmlstart, taken, cut, who>>
    BY <1>6 DEF PeerStep, Connect, ConnectFails, SendQuery, SendFails, ReceiveEnd, Ask, Leave, client
  <2> QED BY <1>3, <2>1
<1>7. ASSUME NEW x \in Conns, Receive(x) PROVE Shows(c)'
  BY <1>1, <1>7, ReceiveKeepsShows
<1>8. CASE UNCHANGED vars
  BY <1>3, <1>8 DEF vars, sockets, client
<1> QED
  BY <1>4, <1>5, <1>6, <1>7, <1>8 DEF Next, ProgramStep, ForeignStep, Client, PeerStep

-----------------------------------------------------------------------------
(* Types.                                                                  *)

ListenerTyped ==
  /\ alive \in BOOLEAN /\ lpc \in {"accept", "check"} /\ s \in 0 .. MaxFd
  /\ backlog \in Seq(Conns) /\ Len(backlog) <= Backlog + 1
  /\ DOMAIN fds \subseteq Fds /\ \A d \in DOMAIN fds : fds[d] \in Conns
  /\ arg \in [Conns -> 0 .. MaxFd] /\ created \in 0 .. MaxThreads

JobsTyped ==
  /\ hpc \in [Conns -> Phases]
  /\ design = "pool" => Cardinality(running) <= Workers
  /\ \A j \in Conns : j \in running <=> hpc[j] \notin {"none", "done"}
  /\ pending \in Seq(Conns) /\ running \subseteq Conns /\ finished \subseteq Conns
  /\ IsFiniteSet(running) /\ DOMAIN todo = Conns

LinesTyped ==
  /\ file \in [Conns -> 0 .. MaxFd]
  /\ saved \subseteq Conns /\ from \in [Conns -> SUBSET Conns]
  /\ spoiled \subseteq Conns /\ torn \subseteq Conns /\ mixed \subseteq Conns

PeersTyped ==
  /\ peer \in [Conns -> {"none", "open", "closed", "aborted", "reset"}]
  /\ cpc \in [Conns -> {"start", "send", "recv", "done", "exit"}]
  /\ \A c \in Conns : taken[c] \in 0 .. Len(reply[c])
  /\ DOMAIN request = Conns /\ DOMAIN reply = Conns
  /\ DOMAIN taken = Conns /\ DOMAIN buf = Conns /\ DOMAIN shown = Conns
  /\ htmlstart \in [Conns -> BOOLEAN]

\* The types, by whose variables they are of.
LEMMA TypedParts ==
  Typed <=> /\ ListenerTyped /\ JobsTyped /\ LinesTyped /\ PeersTyped
            /\ design \in {"threads", "pool"} /\ who \in [Conns -> Peers]
  BY DEF Typed, TypeOK, ListenerTyped, JobsTyped, LinesTyped, PeersTyped, Phases

\* Types of the listener's variables.
LEMMA NextKeepsListenerTyped ==
  ASSUME WebInv, [Next]_vars PROVE ListenerTyped'
<1>1. ListenerTyped /\ Typed /\ Places
  BY TypedParts DEF WebInv
<1>2. MaxFd \in Nat /\ MaxThreads \in Nat /\ Backlog \in Nat /\ Fds = 1 .. MaxFd
  BY WebServerAssumption DEF Fds
<1>3. CASE Accept
  <2>1. PICK d \in FreeFds : s' = d
    BY <1>3, LowestFree DEF Accept
  <2>2. backlog # <<>> /\ backlog' = Tail(backlog) /\ fds' = Open(d, Head(backlog))
        /\ lpc' = "check" /\ UNCHANGED <<alive, arg, created>>
    BY <1>3, <2>1 DEF Accept
  <2>3. Head(backlog) \in Conns /\ backlog' \in Seq(Conns) /\ Len(backlog') = Len(backlog) - 1
        /\ Len(backlog) \in Nat
    BY <2>2, <1>1, HeadTailProperties DEF ListenerTyped
  <2>4. DOMAIN fds' \subseteq Fds /\ \A e \in DOMAIN fds' : fds'[e] \in Conns
    BY <2>1, <2>2, <2>3, <1>1 DEF ListenerTyped, Open, FreeFds
  <2>5. d \in 0 .. MaxFd
    BY <2>1, <1>2 DEF FreeFds
  <2>6. Len(backlog') <= Backlog + 1
    BY <2>3, <1>1, <1>2 DEF ListenerTyped
  <2> QED BY <2>1, <2>2, <2>3, <2>4, <2>5, <2>6, <1>1 DEF ListenerTyped
<1>4. CASE Forget \/ CreateFails
  <2>1. /\ alive' \in BOOLEAN /\ lpc' \in {"accept", "check"} /\ s' \in {0, s}
        /\ UNCHANGED <<backlog, fds, arg, created>>
    BY <1>1, <1>4 DEF Forget, CreateFails, ListenerTyped
  <2>2. 0 \in 0 .. MaxFd
    BY <1>2
  <2> QED BY <2>1, <2>2, <1>1 DEF ListenerTyped
<1>5. CASE AddWork \/ CreateThread
  <2>1. /\ arg' = [arg EXCEPT ![fds[s]] = s] /\ lpc' = "accept"
        /\ s' = 0 /\ UNCHANGED <<alive, backlog, fds>>
        /\ created' = created \/ (created < MaxThreads /\ created' = created + 1)
    BY <1>5 DEF AddWork, CreateThread
  <2>2. created' \in 0 .. MaxThreads
    BY <2>1, <1>1, <1>2 DEF ListenerTyped
  <2>3. arg' \in [Conns -> 0 .. MaxFd]
    BY <2>1, <1>1 DEF ListenerTyped
  <2> QED BY <2>1, <2>2, <2>3, <1>1, <1>2 DEF ListenerTyped
<1>6. CASE StartJob
  BY <1>1, <1>6 DEF StartJob, ListenerTyped
<1>7. ASSUME NEW j \in Conns, CloseStream(j) PROVE ListenerTyped'
  <2>1. /\ fds' = Closed(arg[j]) /\ arg' = [arg EXCEPT ![j] = 0]
        /\ UNCHANGED <<alive, backlog, lpc, s, created>>
    BY <1>7 DEF CloseStream
  <2>2. DOMAIN fds' \subseteq DOMAIN fds /\ \A e \in DOMAIN fds' : fds'[e] = fds[e]
    BY <2>1 DEF Closed
  <2>3. arg' \in [Conns -> 0 .. MaxFd]
    BY <2>1, <1>1, <1>2 DEF ListenerTyped
  <2> QED BY <2>1, <2>2, <2>3, <1>1 DEF ListenerTyped
<1>8. ASSUME NEW j \in Conns, HandlerStep(j) PROVE ListenerTyped'
  BY <1>1, <1>8, HandlerStepFrame DEF ListenerTyped, Unmoved
<1>9. ASSUME NEW c \in Conns, Connect(c) PROVE ListenerTyped'
  <2>1. /\ Len(backlog) <= Backlog /\ backlog' = Append(backlog, c)
        /\ UNCHANGED <<alive, fds, lpc, s, arg, created>>
    BY <1>9 DEF Connect
  <2>2. backlog' \in Seq(Conns) /\ Len(backlog') = Len(backlog) + 1 /\ Len(backlog) \in Nat
    BY <2>1, <1>1 DEF ListenerTyped
  <2>3. Len(backlog') <= Backlog + 1
    BY <2>1, <2>2, <1>2
  <2> QED BY <2>1, <2>2, <2>3, <1>1 DEF ListenerTyped
<1>10. ASSUME NEW c \in Conns, PeerStep(c) PROVE ListenerTyped'
  BY <1>1, <1>10, PeerStepFrame DEF ListenerTyped, Unmoved
<1>11. CASE UNCHANGED vars
  BY <1>1, <1>11 DEF ListenerTyped, vars, server
<1> QED
  BY <1>3, <1>4, <1>5, <1>6, <1>7, <1>8, <1>9, <1>10, <1>11
  DEF Next, ProgramStep, ForeignStep, Listener, Handler, HandlerStep, Client, PeerStep

\* Types of the jobs' variables.
LEMMA NextKeepsJobsTyped ==
  ASSUME WebInv, [Next]_vars PROVE JobsTyped'
<1>1. JobsTyped /\ Typed /\ Places
  BY TypedParts DEF WebInv
<1>2. Workers \in Nat
  BY WebServerAssumption
<1>3. ASSUME UNCHANGED <<design, hpc, running, pending, finished, todo>> PROVE JobsTyped'
  BY <1>1, <1>3 DEF JobsTyped
<1>4. CASE Accept \/ Forget \/ CreateFails
  BY <1>3, <1>4 DEF Accept, Forget, CreateFails, pool
<1>5. CASE AddWork
  <2>1. UNCHANGED <<design, hpc, running, finished, todo>> /\ pending' = Append(pending, fds[s])
        /\ lpc = "check"
    BY <1>5 DEF AddWork, Pool!Submit
  <2>2. fds[s] \in Conns
    BY <1>1, <2>1 DEF Typed, TypeOK, Places
  <2>3. pending' \in Seq(Conns)
    BY <2>1, <2>2, <1>1 DEF JobsTyped
  <2> QED BY <2>1, <2>3, <1>1 DEF JobsTyped
<1>6. CASE CreateThread
  <2>1. PICK j : j = fds[s]
    OBVIOUS
  <2>2. /\ UNCHANGED <<design, pending, finished, todo>> /\ running' = running \cup {j}
        /\ hpc' = [hpc EXCEPT ![j] = "read"] /\ lpc = "check" /\ design = "threads"
    BY <1>6, <2>1 DEF CreateThread
  <2>3. j \in Conns
    BY <1>1, <2>1, <2>2 DEF Typed, TypeOK, Places
  <2>4. IsFiniteSet(running')
    BY <2>2, <1>1, FS_AddElement DEF JobsTyped
  <2> QED BY <2>2, <2>3, <2>4, <1>1 DEF JobsTyped, Phases
<1>7. CASE StartJob
  <2>1. PICK j : j = Head(pending)
    OBVIOUS
  <2>2. /\ UNCHANGED <<design, finished, todo>> /\ running' = running \cup {j}
        /\ pending # <<>> /\ pending' = Tail(pending)
        /\ hpc' = [hpc EXCEPT ![j] = "read"] /\ Cardinality(running) < Workers
    BY <1>7, <2>1 DEF StartJob, Pool!Start
  <2>3. j \in Conns /\ pending' \in Seq(Conns)
    BY <2>1, <2>2, <1>1, HeadTailProperties DEF JobsTyped
  <2>4. /\ IsFiniteSet(running') /\ Cardinality(running) \in Nat
        /\ Cardinality(running') \in {Cardinality(running), Cardinality(running) + 1}
    BY <2>2, <1>1, FS_AddElement, FS_CardinalityType DEF JobsTyped
  <2>5. Cardinality(running') <= Workers
    BY <2>2, <2>4, <1>2
  <2> QED BY <2>2, <2>3, <2>4, <2>5, <1>1 DEF JobsTyped, Phases
<1>8. ASSUME NEW j \in Conns, CloseStream(j) PROVE JobsTyped'
  <2>1. /\ UNCHANGED <<design, todo>> /\ hpc[j] = "reply" /\ hpc' = [hpc EXCEPT ![j] = "done"]
    BY <1>8 DEF CloseStream
  <2>2. running' = running \ {j} /\ finished' = finished \cup {j} /\ pending' = pending
    BY <1>8, CloseStreamKeepsPlaces DEF WebInv
  <2>3. IsFiniteSet(running') /\ Cardinality(running') \in Nat /\ Cardinality(running) \in Nat
        /\ Cardinality(running') <= Cardinality(running)
    BY <2>2, <1>1, FS_Subset, FS_CardinalityType DEF JobsTyped
  <2>4. design = "pool" => Cardinality(running') <= Workers
    BY <2>3, <1>1, <1>2 DEF JobsTyped
  <2> QED BY <2>1, <2>2, <2>3, <2>4, <1>1 DEF JobsTyped, Phases
<1>9. ASSUME NEW j \in Conns, HandlerStep(j) PROVE JobsTyped'
  <2>1. /\ UNCHANGED <<design, running, pending, finished>> /\ hpc[j] \notin {"none", "done"}
        /\ \/ hpc' = hpc
           \/ \E p \in {"line", "path", "takepath", "proto", "takeproto", "reply"} :
                hpc' = [hpc EXCEPT ![j] = p]
    BY <1>9, HandlerStepFrame DEF Unmoved
  <2>2. DOMAIN todo' = DOMAIN todo
    <3>1. CASE Respond(j)
      BY <3>1 DEF Respond
    <3>2. CASE ~Respond(j)
      BY <1>9, <3>2 DEF HandlerStep, ReadLine, ReadFails, TakeMethod, Resume, TakePath, WriteOut,
                        WriteKills, CloseFile
    <3> QED BY <3>1, <3>2
  <2>3. hpc' \in [Conns -> Phases] /\ \A i \in Conns : i \in running <=> hpc'[i] \notin {"none", "done"}
    BY <2>1, <1>1 DEF JobsTyped, Phases
  <2> QED BY <2>1, <2>2, <2>3, <1>1 DEF JobsTyped
<1>10. ASSUME NEW c \in Conns, Connect(c) PROVE JobsTyped'
  BY <1>3, <1>10 DEF Connect, pool
<1>11. ASSUME NEW c \in Conns, PeerStep(c) PROVE JobsTyped'
  BY <1>3, <1>11, PeerStepFrame DEF Unmoved
<1>12. CASE UNCHANGED vars
  BY <1>3, <1>12 DEF vars, server, pool
<1> QED
  BY <1>4, <1>5, <1>6, <1>7, <1>8, <1>9, <1>10, <1>11, <1>12
  DEF Next, ProgramStep, ForeignStep, Listener, Handler, HandlerStep, Client, PeerStep

\* Types of the lines' variables and of the files'.
LEMMA NextKeepsLinesTyped ==
  ASSUME WebInv, [Next]_vars PROVE LinesTyped'
<1>1. LinesTyped /\ Typed /\ Parsing \subseteq Conns
  BY TypedParts DEF WebInv, Parsing
<1>2. ASSUME UNCHANGED <<file, parse>> PROVE LinesTyped'
  BY <1>1, <1>2 DEF LinesTyped, parse
<1>3. CASE Listener \/ StartJob
  BY <1>2, <1>3 DEF Listener, Accept, Forget, AddWork, CreateThread, CreateFails, StartJob
<1>4. ASSUME NEW j \in Conns, NEW hit \in Spoils(j) PROVE hit \subseteq Conns /\ Tears(j, hit) \subseteq Conns
  <2>1. hit = {} \/ hit \in {{j, k} : k \in Parsing} \/ hit = {j} \cup (from[j] \cap Parsing)
    BY <1>4 DEF Spoils
  <2>2. hit \subseteq Conns
    BY <2>1, <1>1
  <2> QED BY <2>2 DEF Tears
<1>5. ASSUME NEW j \in Conns, Handler(j) PROVE LinesTyped'
  <2>1. CASE ReadLine(j)
    <3>1. UNCHANGED <<file, saved, from, spoiled, torn>> /\ mixed' \subseteq mixed \cup Parsing \cup {j}
      BY <2>1 DEF ReadLine
    <3> QED BY <3>1, <1>1 DEF LinesTyped
  <2>2. CASE TakeMethod(j)
    <3>1. UNCHANGED <<file, from, spoiled, torn, mixed>> /\ saved' = {j}
      BY <2>2 DEF TakeMethod
    <3> QED BY <3>1, <1>1 DEF LinesTyped
  <2>3. CASE Resume(j)
    <3>1. UNCHANGED <<file, saved, spoiled, torn, mixed>> /\ from' = [from EXCEPT ![j] = saved]
      BY <2>3 DEF Resume
    <3> QED BY <3>1, <1>1 DEF LinesTyped
  <2>4. CASE TakePath(j)
    <3>1. PICK hit \in Spoils(j) : spoiled' = spoiled \cup hit /\ torn' = torn \cup Tears(j, hit)
      BY <2>4 DEF TakePath
    <3>2. /\ UNCHANGED <<file, mixed>> /\ saved' = from[j] /\ from' = [from EXCEPT ![j] = {}]
      BY <2>4 DEF TakePath
    <3>3. hit \subseteq Conns /\ Tears(j, hit) \subseteq Conns
      BY <1>4
    <3> QED BY <3>1, <3>2, <3>3, <1>1 DEF LinesTyped
  <2>5. CASE Respond(j)
    <3>1. PICK hit \in Spoils(j) :
            spoiled' = (spoiled \cup hit) \ {j} /\ torn' = torn \cup Tears(j, hit)
      BY <2>5 DEF Respond
    <3>2. /\ mixed' = mixed /\ saved' \in {{}, from[j]} /\ from' = [from EXCEPT ![j] = {}]
      BY <2>5 DEF Respond
    <3>3. hit \subseteq Conns /\ Tears(j, hit) \subseteq Conns
      BY <1>4
    <3>4. file' = file \/ \E d \in FreeFds : file' = [file EXCEPT ![j] = d]
      <4>1. PICK req : LET page == Reply(req, FreeFds # {}) IN
              file' = file \/ (page.status = 200 /\ file' = [file EXCEPT ![j] = Lowest])
        BY <2>5 DEF Respond
      <4>2. Reply(req, FreeFds # {}).status = 200 => FreeFds # {}
        BY ReplyNow
      <4> QED BY <4>1, <4>2, LowestFree
    <3>5. file' \in [Conns -> 0 .. MaxFd]
      <4>1. FreeFds \subseteq 0 .. MaxFd
        BY WebServerAssumption DEF FreeFds, Fds
      <4> QED BY <4>1, <3>4, <1>1 DEF LinesTyped
    <3> QED BY <3>1, <3>2, <3>3, <3>5, <1>1 DEF LinesTyped
  <2>6. CASE ReadFails(j) \/ WriteOut(j) \/ WriteKills(j)
    BY <2>6, <1>2 DEF ReadFails, WriteOut, WriteKills
  <2>7. CASE CloseFile(j)
    <3>1. parse' = parse /\ file' = [file EXCEPT ![j] = 0]
      BY <2>7 DEF CloseFile
    <3> QED BY <3>1, <1>1, WebServerAssumption DEF LinesTyped, parse
  <2>8. CASE CloseStream(j)
    <3>1. torn' \subseteq torn /\ UNCHANGED <<file, saved, from, spoiled, mixed>>
      BY <2>8 DEF CloseStream
    <3> QED BY <3>1, <1>1 DEF LinesTyped
  <2> QED BY <1>5, <2>1, <2>2, <2>3, <2>4, <2>5, <2>6, <2>7, <2>8 DEF Handler
<1>6. ASSUME NEW c \in Conns, Connect(c) \/ PeerStep(c) PROVE LinesTyped'
  <2>1. UNCHANGED <<file, parse>>
    BY <1>6, PeerStepFrame DEF Connect
  <2> QED BY <2>1, <1>2
<1>7. CASE UNCHANGED vars
  BY <1>2, <1>7 DEF vars, server
<1> QED
  BY <1>3, <1>5, <1>6, <1>7 DEF Next, ProgramStep, ForeignStep, Client, PeerStep

\* Types of the peers' variables.
LEMMA NextKeepsPeersTyped ==
  ASSUME WebInv, [Next]_vars PROVE PeersTyped'
<1>1. PeersTyped /\ Typed /\ Places /\ \A c \in Conns : Talk(c)
  BY TypedParts DEF WebInv
<1>2. \A c \in Conns : Len(reply[c]) \in Nat
  BY <1>1, ReplyWritten
<1>3. ASSUME UNCHANGED <<peer, cpc, taken, reply, request, buf, shown, htmlstart>>
      PROVE  PeersTyped'
  BY <1>1, <1>3 DEF PeersTyped
<1>4. CASE Listener \/ StartJob
  BY <1>3, <1>4 DEF Listener, Accept, Forget, AddWork, CreateThread, CreateFails, StartJob,
                    sockets, client
<1>5. ASSUME NEW j \in Conns, Handler(j) PROVE PeersTyped'
  <2>1. CASE WriteOut(j)
    <3>1. /\ UNCHANGED <<cpc, taken, request, buf, shown, htmlstart>>
          /\ DOMAIN reply' = DOMAIN reply
          /\ peer' = peer \/ peer' = [peer EXCEPT ![Socket(j)] = "reset"]
      BY <2>1 DEF WriteOut, client
    <3>2. \A c \in Conns : taken[c] \in 0 .. Len(reply'[c])
      <4> SUFFICES ASSUME NEW c \in Conns PROVE taken[c] \in 0 .. Len(reply'[c])
        OBVIOUS
      <4>1. /\ Len(reply'[c]) \in Nat /\ Len(reply[c]) \in Nat
            /\ Len(reply[c]) <= Len(reply'[c])
        BY <2>1, <1>1, WriteOutGrows
      <4> QED BY <4>1, <1>1 DEF PeersTyped
    <3>3. peer' \in [Conns -> {"none", "open", "closed", "aborted", "reset"}]
      BY <3>1, <1>1 DEF PeersTyped
    <3> QED BY <3>1, <3>2, <3>3, <1>1 DEF PeersTyped
  <2>2. CASE HandlerStep(j) /\ ~WriteOut(j)
    BY <1>3, <2>2, HandlerStepFrame, HandlerStepSockets DEF client
  <2>3. CASE CloseStream(j)
    BY <1>3, <2>3 DEF CloseStream, sockets, client
  <2> QED BY <1>5, <2>1, <2>2, <2>3 DEF Handler, HandlerStep
<1>6. ASSUME NEW c \in Conns, Connect(c) PROVE PeersTyped'
  <2>1. /\ peer' = [peer EXCEPT ![c] = "open"] /\ cpc' = [cpc EXCEPT ![c] = "send"]
        /\ UNCHANGED <<request, reply, taken, buf, htmlstart, shown>>
    BY <1>6 DEF Connect
  <2> QED BY <2>1, <1>1 DEF PeersTyped
<1>7. ASSUME NEW c \in Conns, PeerStep(c) PROVE PeersTyped'
  <2>1. /\ peer' \in [Conns -> {"none", "open", "closed", "aborted", "reset"}]
        /\ cpc' \in [Conns -> {"start", "send", "recv", "done", "exit"}]
        /\ reply' = reply
    BY <1>1, <1>7, PeerStepEnds, PeerStepFrame
  <2>2. CASE Receive(c)
    <3>1. PICK m \in taken[c] + 1 .. Len(reply[c]) : taken' = [taken EXCEPT ![c] = m]
      BY <2>2 DEF Receive
    <3>2. request' = request /\ DOMAIN buf' = DOMAIN buf
      BY <2>2 DEF Receive, sockets
    <3>3. DOMAIN shown' = DOMAIN shown /\ htmlstart' \in [Conns -> BOOLEAN]
      BY <2>2, <1>1 DEF Receive, Show, PeersTyped
    <3>4. \A d \in Conns : taken'[d] \in 0 .. Len(reply[d])
      <4>1. m \in 0 .. Len(reply[c])
        BY <3>1, <1>1, <1>2 DEF PeersTyped
      <4> QED BY <4>1, <3>1, <1>1 DEF PeersTyped
    <3>5. DOMAIN taken' = Conns
      BY <3>1, <1>1 DEF PeersTyped
    <3> QED BY <2>1, <3>2, <3>3, <3>4, <3>5, <1>1 DEF PeersTyped
  <2>3. CASE ~Receive(c)
    <3>1. UNCHANGED <<taken, buf, shown, htmlstart>> /\ DOMAIN request' = DOMAIN request
      BY <1>7, <2>3 DEF PeerStep, ConnectFails, SendQuery, SendFails, ReceiveEnd, Ask, Leave, client
    <3> QED BY <3>1, <2>1, <1>1 DEF PeersTyped
  <2> QED BY <2>2, <2>3
<1>8. CASE UNCHANGED vars
  BY <1>3, <1>8 DEF vars, sockets, client
<1> QED
  BY <1>4, <1>5, <1>6, <1>7, <1>8
  DEF Next, ProgramStep, ForeignStep, Client, PeerStep

\* The design and the peers' programs never change.
LEMMA NextKeepsLoad ==
  ASSUME [Next]_vars PROVE UNCHANGED <<design, who>>
<1>1. CASE Listener \/ StartJob
  BY <1>1 DEF Listener, Accept, Forget, AddWork, CreateThread, CreateFails, StartJob
<1>2. ASSUME NEW c \in Conns, Handler(c) \/ Connect(c) \/ PeerStep(c)
      PROVE  UNCHANGED <<design, who>>
  BY <1>2, PeerStepFrame, HandlerStepFrame DEF Handler, HandlerStep, CloseStream, Connect
<1>3. CASE UNCHANGED vars
  BY <1>3 DEF vars
<1> QED
  BY <1>1, <1>2, <1>3 DEF Next, ProgramStep, ForeignStep, Client, PeerStep

-----------------------------------------------------------------------------
(* The theorems.                                                           *)

\* Before the first connection.
LEMMA InitHasWebInv ==
  ASSUME Init PROVE WebInv
<1> USE DEF Init
<1>1. Typed
  <2>1. <<>> \in Seq(Conns) /\ Len(<<>>) = 0 /\ IsFiniteSet({}) /\ Cardinality({}) = 0
    BY FS_EmptySet
  <2>2. DOMAIN fds = {}
    OBVIOUS
  <2>3. pending = <<>> /\ running = {} /\ finished = {}
    BY DEF Pool!Init
  <2>4. ListenerTyped
    BY <2>1, <2>2, WebServerAssumption DEF ListenerTyped
  <2>5. JobsTyped
    BY <2>1, <2>3, WebServerAssumption DEF JobsTyped, Phases
  <2>6. LinesTyped
    BY WebServerAssumption DEF LinesTyped
  <2>7. PeersTyped
    BY <2>1 DEF PeersTyped
  <2>8. design \in {"threads", "pool"} /\ who \in [Conns -> Peers]
    BY WebServerAssumption
  <2> QED BY <2>4, <2>5, <2>6, <2>7, <2>8, TypedParts
<1>2. Places /\ Forgotten
  <2>1. ToSet(<<>>) = {} /\ Distinct(<<>>)
    BY DEF ToSet, Distinct
  <2>2. pending = <<>> /\ running = {} /\ finished = {}
    BY DEF Pool!Init
  <2>3. OnFds = {} /\ Jobs = {} /\ DOMAIN fds = {}
    BY <2>1, <2>2 DEF OnFds, Jobs
  <2> QED BY <2>1, <2>2, <2>3 DEF Places, Known, Forgotten
<1>3. FilesOpen /\ ParseApart
  BY DEF FilesOpen, ParseApart, Overlaps, Parsing
<1>4. ASSUME NEW c \in Conns PROVE Talk(c)
  <2>1. InStep(c)
    BY DEF InStep
  <2>2. \E page, n, t : Sends(c, page, n, t)
    <3>1. PICK page, L : /\ IsPage(page) /\ page \in Answers(request[c])
                         /\ L \in Nat /\ L = Len(Carried(page))
                         /\ <<>> = SubSeq(Carried(page), 1, 0)
                         /\ <<>> = SubSeq(Carried(page), L + 1, L)
      BY NothingSent
    <3>2. 0 \in Nat /\ L \in 0 .. L
      BY <3>1
    <3>3. Sends(c, page, 0, L)
      BY <3>1, <3>2 DEF Sends
    <3> QED BY <3>3
  <2> QED BY <2>1, <2>2 DEF Talk
<1>5. ASSUME NEW c \in Conns PROVE Shows(c)
  BY DEF Shows
<1> QED
  BY <1>1, <1>2, <1>3, <1>4, <1>5 DEF WebInv

\* Connections stay in one place at a time, descriptors and files apart, handlers
\* and clients in step with what was asked, written and received, and a handler
\* alone in its line with its own words: the invariant the others follow from.
THEOREM WebInvAlways == Spec => []WebInv
<1>1. WebInv /\ [Next]_vars => WebInv'
  <2> SUFFICES ASSUME WebInv, [Next]_vars PROVE WebInv'
    OBVIOUS
  <2>1. ListenerTyped' /\ JobsTyped' /\ LinesTyped' /\ PeersTyped'
    BY NextKeepsListenerTyped, NextKeepsJobsTyped, NextKeepsLinesTyped, NextKeepsPeersTyped
  <2>2. (design \in {"threads", "pool"} /\ who \in [Conns -> Peers])'
    BY NextKeepsLoad DEF WebInv, Typed
  <2>3. Typed'
    BY <2>1, <2>2
    DEF Typed, TypeOK, ListenerTyped, JobsTyped, LinesTyped, PeersTyped, Phases
  <2>4. Places' /\ Forgotten'
    BY NextKeepsPlaces
  <2>5. FilesOpen' /\ ParseApart'
    BY NextKeepsFiles, NextKeepsParse
  <2>6. \A c \in Conns : Talk(c)' /\ Shows(c)'
    BY NextKeepsTalk, NextKeepsShows
  <2> QED BY <2>3, <2>4, <2>5, <2>6 DEF WebInv
<1> QED
  BY <1>1, InitHasWebInv, PTL DEF Spec

\* Types, the limits of the system and of the pool.
THEOREM TypesAlwaysRight == Spec => []TypeOK
<1>1. WebInv => TypeOK
  BY DEF WebInv, Typed
<1> QED
  BY <1>1, WebInvAlways, PTL

\* A job's descriptor always stands for the connection the job was made for, no
\* descriptor is lost but those of peers that broke their connection (part1 204,
\* part2 703), and an open file has one of its own (part1 67, part2 95).
THEOREM DescriptorsAlwaysAccounted == Spec => []DescriptorsAccounted
<1>1. WebInv => DescriptorsAccounted
  <2> SUFFICES ASSUME WebInv, alive
               PROVE  /\ \A j \in Jobs : arg[j] \in DOMAIN fds /\ fds[arg[j]] = j
                      /\ \A d \in DOMAIN fds :
                           \/ lpc = "check" /\ s = d
                           \/ \E j \in Jobs : arg[j] = d
                           \/ fds[d] \notin Jobs \cup finished /\ peer[fds[d]] = "aborted"
                      /\ \A j \in Conns : file[j] # 0 =>
                           /\ hpc[j] = "reply" /\ file[j] \notin DOMAIN fds
                           /\ \A k \in Conns : file[k] = file[j] => k = j
    BY DEF DescriptorsAccounted
  <2>1. \A j \in Jobs : arg[j] \in DOMAIN fds /\ fds[arg[j]] = j
    BY DEF WebInv, Places
  <2>2. ASSUME NEW d \in DOMAIN fds, fds[d] \in Jobs PROVE arg[fds[d]] = d
    BY <2>1, <2>2 DEF WebInv, Places
  <2>3. ASSUME NEW d \in DOMAIN fds PROVE fds[d] \notin finished
    BY DEF WebInv, Places, OnFds
  <2>4. \A d \in DOMAIN fds :
          \/ lpc = "check" /\ s = d
          \/ \E j \in Jobs : arg[j] = d
          \/ fds[d] \notin Jobs \cup finished /\ peer[fds[d]] = "aborted"
    BY <2>2, <2>3 DEF WebInv, Forgotten
  <2>5. \A j \in Conns : file[j] # 0 =>
          /\ hpc[j] = "reply" /\ file[j] \notin DOMAIN fds
          /\ \A k \in Conns : file[k] = file[j] => k = j
    BY DEF WebInv, FilesOpen, OpenFile
  <2> QED BY <2>1, <2>4, <2>5
<1> QED
  BY <1>1, WebInvAlways, PTL

\* What is sent to a handler's peer is an answer to the request, unless the
\* handler was in its line while another was.
LEMMA OwnAnswer ==
  ASSUME WebInv, NEW c \in Conns, c \notin mixed PROVE AnswersItsOwn(c)
<1>1. PICK page, n, t : Sends(c, page, n, t)
  BY DEF WebInv, Talk
<1>2. /\ IsPage(page) /\ page \in Answers(request[c])
      /\ cpc[c] = "done" /\ alive => taken[c] = Len(Carried(page))
      /\ reply[c] = SubSeq(Carried(page), 1, n)
  BY <1>1 DEF Sends
<1>3. n \in Nat /\ Len(Carried(page)) \in Nat /\ n <= Len(Carried(page)) /\ Len(reply[c]) = n
  BY <1>1, SentParts
<1>4. \A k \in 1 .. n : reply[c][k] = Carried(page)[k]
  BY <1>1, SentParts
<1>5. SubSeq(reply[c], 1, n) = SubSeq(Carried(page), 1, n)
  BY <1>3, <1>4, SamePart
<1>6. IsPrefix(reply[c], Carried(page))
  BY <1>3, <1>5 DEF IsPrefix
<1> QED
  BY <1>2, <1>6 DEF AnswersItsOwn

\* What is written to a connection is, from the start, the reply to the request
\* made on it, and a client that ends while the server runs has all of it
\* (htmlget.c 76, part2 550), unless its handler was in its line while another
\* was (part1 99-101, part2 127-129).
THEOREM RepliesAlwaysRight == Spec => []RepliesRight
<1>1. WebInv => RepliesRight
  BY OwnAnswer DEF RepliesRight
<1> QED
  BY <1>1, WebInvAlways, PTL

\* A pool of one thread has never two handlers in their lines.
LEMMA NextKeepsApart ==
  ASSUME WebInv, [Next]_vars, design = "pool", Workers = 1, mixed = {}
  PROVE  mixed' = {}
<1>1. ASSUME NEW j \in Conns, ReadLine(j) PROVE Parsing = {}
  <2>1. j \in running /\ Parsing \subseteq running \ {j}
    BY <1>1 DEF ReadLine, Parsing, WebInv, Typed, TypeOK
  <2>2. IsFiniteSet(running) /\ Cardinality(running) <= 1
    BY DEF WebInv, Typed, TypeOK
  <2>3. /\ IsFiniteSet(running \ {j}) /\ Cardinality(running) \in Nat
        /\ Cardinality(running \ {j}) = Cardinality(running) - 1
    BY <2>1, <2>2, FS_RemoveElement, FS_CardinalityType
  <2>4. Cardinality(running \ {j}) \in Nat
    BY <2>3, FS_CardinalityType
  <2>5. Cardinality(running \ {j}) = 0
    BY <2>2, <2>3, <2>4
  <2>6. running \ {j} = {}
    BY <2>3, <2>5, FS_EmptySet
  <2> QED BY <2>1, <2>6
<1>2. ASSUME NEW j \in Conns, Handler(j) PROVE mixed' = {}
  <2>1. CASE ReadLine(j)
    BY <1>1, <2>1 DEF ReadLine
  <2>2. CASE ~ReadLine(j)
    BY <1>2, <2>2 DEF Handler, ReadFails, TakeMethod, Resume, TakePath, Respond, WriteOut,
                      WriteKills, CloseFile, CloseStream, parse
  <2> QED BY <2>1, <2>2
<1>3. CASE Listener \/ StartJob
  BY <1>3 DEF Listener, Accept, Forget, AddWork, CreateThread, CreateFails, StartJob, parse
<1>4. ASSUME NEW c \in Conns, Connect(c) \/ PeerStep(c) PROVE mixed' = {}
  BY <1>4, PeerStepFrame DEF Connect, parse
<1>5. CASE UNCHANGED vars
  BY <1>5 DEF vars, server, parse
<1> QED
  BY <1>2, <1>3, <1>4, <1>5 DEF Next, ProgramStep, ForeignStep, Client, PeerStep

\* With one thread in the pool every handler answers its own request: it is the
\* threads that make strtok's position shared (part2 127-129, 693).
THEOREM OneThreadAnswersRight ==
  Spec => [](design = "pool" /\ Workers = 1 => \A c \in Conns : AnswersItsOwn(c))
<1> DEFINE Apart == design = "pool" /\ Workers = 1 => mixed = {}
<1>1. Init => Apart
  BY DEF Init
<1>2. WebInv /\ Apart /\ [Next]_vars => Apart'
  <2> SUFFICES ASSUME WebInv, Apart, [Next]_vars, design' = "pool", Workers = 1
               PROVE  mixed' = {}
    OBVIOUS
  <2>1. design = "pool"
    BY NextKeepsLoad
  <2> QED BY <2>1, NextKeepsApart
<1>3. WebInv /\ Apart => (design = "pool" /\ Workers = 1 => \A c \in Conns : AnswersItsOwn(c))
  BY OwnAnswer
<1> HIDE DEF Apart
<1> QED
  BY <1>1, <1>2, <1>3, WebInvAlways, PTL DEF Spec

\* htmlget prints what it has received of the body and nothing else, however the
\* reply was cut up on its way; only when a recv ended inside the blank line
\* behind the headers it prints nothing, or what follows a blank line of the
\* page (htmlget.c 76-96).
THEOREM BodyAlwaysShown == Spec => []ShownIsBody
<1>1. ASSUME WebInv, NEW c \in Conns, who[c] = "htmlget"
      PROVE  \/ c \notin cut /\ shown[c] = SubSeq(reply[c], HeaderLen + 1, taken[c])
             \/ c \in cut /\ shown[c] = <<>>
             \/ c \in cut /\ \E k \in BlankLines(reply[c]) :
                  k >= HeaderLen /\ shown[c] = SubSeq(reply[c], k + 2, taken[c])
  <2>1. Shows(c) /\ Talk(c) /\ taken[c] \in 0 .. Len(reply[c])
    BY <1>1 DEF WebInv, Typed, TypeOK
  <2>2. Len(reply[c]) \in Nat
    BY <2>1, ReplyWritten
  <2>3. PICK n \in Nat : n = taken[c] /\ n <= Len(reply[c])
    BY <2>1, <2>2
  <2>4. CASE ~htmlstart[c] /\ c \notin cut
    <3>1. shown[c] = <<>> /\ n <= 1
      BY <1>1, <2>1, <2>3, <2>4 DEF Shows
    <3>2. SubSeq(reply[c], 4, n) = <<>>
      BY <3>1, <2>3, SubSeqEmpty
    <3> QED BY <3>1, <3>2, <2>3, <2>4 DEF HeaderLen
  <2>5. CASE ~htmlstart[c] /\ c \in cut
    BY <2>1, <2>5 DEF Shows
  <2>6. CASE htmlstart[c]
    <3>1. PICK k \in Nat : BlankAt(c, k, n) /\ shown[c] = SubSeq(reply[c], k + 2, n)
      BY <2>1, <2>3, <2>6 DEF Shows
    <3>2. CASE c \notin cut
      <4>1. k = HeaderLen - 1
        BY <3>1, <3>2 DEF BlankAt
      <4>2. k + 2 = HeaderLen + 1
        BY <4>1 DEF HeaderLen
      <4>3. shown[c] = SubSeq(reply[c], HeaderLen + 1, taken[c])
        BY <3>1, <4>2, <2>3
      <4> QED BY <4>3, <3>2
    <3>3. CASE c \in cut
      <4>1. /\ k >= HeaderLen /\ k \in 2 .. n - 1
            /\ reply[c][k].is = "crlf" /\ reply[c][k + 1].is = "crlf"
        BY <3>1, <3>3 DEF BlankAt
      <4>2. k \in 1 .. Len(reply[c]) - 1
        BY <4>1, <2>2, <2>3
      <4>3. k \in BlankLines(reply[c])
        BY <4>1, <4>2 DEF BlankLines
      <4> QED BY <4>1, <4>3, <3>1, <3>3, <2>3
    <3> QED BY <3>2, <3>3
  <2> QED BY <2>4, <2>5, <2>6
<1>2. WebInv => ShownIsBody
  BY <1>1 DEF ShownIsBody
<1> QED
  BY <1>2, WebInvAlways, PTL
=============================================================================
