------------------------------ MODULE MCWebServer ------------------------------
\* Instance of WebServer for TLC.  The server runs in /srv, which holds an
\* index.html of two writes with a blank line in it, a file that cannot be read
\* and an empty directory.
EXTENDS WebServer

CONSTANTS c1, c2, c3

MCCwd == <<"/", "srv">>
MCFiles == {<<"srv", "index.html">>, <<"srv", "secret">>}
MCDirs == {<<>>, <<"srv">>, <<"srv", "d">>}
MCUnreadable == {<<"srv", "secret">>}
MCText == [name \in MCFiles \cup MCDirs |->
             IF name = <<"srv", "index.html">> THEN <<"crlf", "crlf", "text">> ELSE <<"text">>]

Get(path) == [method |-> "GET", path |-> path]
MCRequests == {Get(<<>>), Get(<<"/">>)}

\* Every path of up to five elements: a page with status 200 is of something
\* that is there and can be read, and a directory asked for with the slash that
\* a 302 demands is found.  The Location sent with a 302, which has the working
\* directory in front, is not.  Without a descriptor nothing is sent of a file,
\* and a request for what is not there, or is refused, is answered as before.
Paths == {<<"/">> \o p : p \in UNION {[1 .. n -> {"/", "d", "index.html", "secret"}] : n \in 0 .. 4}}
ASSUME PagesSound ==
  \A path \in Paths :
    LET page == Reply(Get(path), TRUE)
        late == Reply(Get(path), FALSE)
    IN  /\ page.status = 200 => page.of \in (MCFiles \ MCUnreadable) \cup MCDirs
        /\ page.status = 302 => Reply(Get(path \o <<"/">>), TRUE).status = 200
        /\ page.status = 302 => Reply(Get(MCCwd \o path \o <<"/">>), TRUE).status = 404
        /\ IF page.status = 200 THEN late = Error(403) \/ late = Crash ELSE late = page

\* htmlget beside a thread of htmlget_multi or a foreign peer, such a peer beside
\* a thread, and three threads.
MCLoads == {(c1 :> "htmlget" @@ c2 :> "multi" @@ c3 :> "none"),
            (c1 :> "htmlget" @@ c2 :> "foreign" @@ c3 :> "none"),
            (c1 :> "multi" @@ c2 :> "foreign" @@ c3 :> "none"),
            (c1 :> "multi" @@ c2 :> "multi" @@ c3 :> "multi")}
==============================================================================
