------------------------------ MODULE FilePush ------------------------------
(***************************************************************************)
(* File pushes: the control plane redirects a client to the agent of the   *)
(* node in the sandbox's row, by a signed URL that expires, and the agent  *)
(* writes the files of the request one after the other into the sandbox's  *)
(* code directory.  Handlers run concurrently, with each other and with    *)
(* the command loop that starts and stops sandboxes.                       *)
(*                                                                         *)
(* A file's content is the push that wrote it and whether it is long; a    *)
(* write is the open, which truncates, and the data.  The code directory   *)
(* is on the node's disk: it outlives the container and the agent.         *)
(***************************************************************************)
EXTENDS Integers, Sequences

CONSTANTS
    Sandbox, Node,
    NoSandbox, NoNode,
    Push,          \* requests of clients
    Path,          \* file names in requests
    ValidPath,     \* the ones isValidPath admits
    Body,          \* request bodies: [tar, files], files a sequence of Entry
    MaxFaults,     \* bound: failed file operations, broken archives
    MaxMoves       \* bound: reschedulings and restarts of agents

Entry == [path : Path, delete : BOOLEAN, long : BOOLEAN]

ASSUME FilePushAssumption ==
    /\ NoSandbox \notin Sandbox
    /\ NoNode \notin Node
    /\ ValidPath \subseteq Path
    /\ \A b \in Body : /\ b.tar \in BOOLEAN
                       /\ b.files \in Seq(Entry)
                       /\ b.tar => \A i \in DOMAIN b.files : ~b.files[i].delete
    /\ MaxFaults \in Nat /\ MaxMoves \in Nat

VARIABLES
    home,     \* node_id in the row of a sandbox
    up,       \* the sandboxes whose container is up on a node
    tracked,  \* the map of each node's executor
    dir,      \* the code directories on each node's disk
    push,     \* the requests
    faults, moves

vars == <<home, up, tracked, dir, push, faults, moves>>
sandboxes == <<home, up, tracked>>

\* partial: truncated and not written to its end; mixed: one push's data over
\* the longer data of another.
File == [is : {"none", "partial", "mixed"}] \cup [is : {"whole"}, by : Push, long : BOOLEAN]
None == [is |-> "none"]
Whole(p, long) == [is |-> "whole", by |-> p, long |-> long]

NoBody == [tar |-> FALSE, files |-> <<>>]

\* A request that is not sent yet.  fd: the file being written is the one in
\* the directory, and not one that was removed since it was opened.
Unsent == [pc |-> "idle", sb |-> NoSandbox, node |-> NoNode, body |-> NoBody,
           expired |-> FALSE, i |-> 0, fd |-> FALSE, written |-> {}, failed |-> {},
           status |-> 0,
           alone |-> FALSE,   \* observed: no other push overlapped it
           before |-> [q \in Path |-> None]]

At(p, pc) == push[p].pc = pc
Working(p) == push[p].pc \in {"next", "data"}
Files(p) == push[p].body.files
Current(p) == Files(p)[push[p].i]
FileAt(p) == dir[push[p].node][push[p].sb][Current(p).path]
Answer(p, code) == [push EXCEPT ![p].pc = "done", ![p].status = code]

-----------------------------------------------------------------------------
(* The control plane's redirect, and the agent's checks. *)

\* handleFilePush: a sandbox with no node is refused (503).
Redirect(p, s, b) ==
    /\ At(p, "idle")
    /\ home[s] # NoNode
    /\ push' = [push EXCEPT ![p] = [Unsent EXCEPT !.pc = "signed", !.sb = s,
                                                  !.node = home[s], !.body = b]]
    /\ UNCHANGED <<sandboxes, dir, faults, moves>>

UrlExpires(p) ==
    /\ At(p, "signed") /\ ~push[p].expired
    /\ push' = [push EXCEPT ![p].expired = TRUE]
    /\ UNCHANGED <<sandboxes, dir, faults, moves>>

\* ServeHTTP: VerifyURL, CodeDir.  The directory is resolved once.
Receive(p) ==
    LET k == push[p]
        others == {q \in Push \ {p} : Working(q) /\ push[q].node = k.node /\ push[q].sb = k.sb}
    IN
    /\ At(p, "signed")
    /\ \/ k.expired /\ push' = Answer(p, 403)
       \/ ~k.expired /\ k.sb \notin tracked[k.node] /\ push' = Answer(p, 404)
       \/ /\ ~k.expired /\ k.sb \in tracked[k.node]
          /\ push' = [q \in Push |->
                        IF q = p THEN [k EXCEPT !.pc = "next", !.i = 1, !.alone = (others = {}),
                                                !.before = dir[k.node][k.sb]]
                        ELSE IF q \in others THEN [push[q] EXCEPT !.alone = FALSE]
                        ELSE push[q]]
    /\ UNCHANGED <<sandboxes, dir, faults, moves>>

-----------------------------------------------------------------------------
(* WriteFiles and WriteTar. *)

Put(p, f) == dir' = [dir EXCEPT ![push[p].node][push[p].sb][Current(p).path] = f]
\* Mutant of Written: the entry after it is passed over.
WrittenTwice(k) == [k EXCEPT !.pc = "next", !.i = @ + 2, !.written = @ \cup {k.i}]

Written(k) == [k EXCEPT !.pc = "next", !.i = @ + 1, !.written = @ \cup {k.i}]
Failed(k) == [k EXCEPT !.pc = "next", !.i = @ + 1, !.failed = @ \cup {k.i}]

AtEntry(p) == At(p, "next") /\ push[p].i <= Len(Files(p))

Reject(p) ==
    /\ AtEntry(p)
    /\ Current(p).path \notin ValidPath
    /\ push' = [push EXCEPT ![p] = Failed(@)]
    /\ UNCHANGED <<sandboxes, dir, faults, moves>>

\* os.Remove: another handler that has the file open goes on with the old one.
RemoveFile(p) ==
    LET SameFile(q) == /\ At(q, "data") /\ push[q].node = push[p].node
                       /\ push[q].sb = push[p].sb /\ Current(q).path = Current(p).path
    IN
    /\ AtEntry(p)
    /\ Current(p).path \in ValidPath
    /\ Current(p).delete
    /\ \/ /\ FileAt(p) = None
          /\ push' = [push EXCEPT ![p] = Failed(@)]
          /\ UNCHANGED dir
       \/ /\ FileAt(p) # None
          /\ Put(p, None)
          /\ push' = [q \in Push |-> CASE q = p -> Written(push[p])
                                       [] q # p /\ SameFile(q) -> [push[q] EXCEPT !.fd = FALSE]
                                       [] OTHER -> push[q]]
    /\ UNCHANGED <<sandboxes, faults, moves>>

\* Mutant of Open: no O_TRUNC.
OpenKeeps(p) ==
    /\ AtEntry(p)
    /\ Current(p).path \in ValidPath
    /\ ~Current(p).delete
    /\ Put(p, IF FileAt(p) = None THEN [is |-> "partial"] ELSE FileAt(p))
    /\ push' = [push EXCEPT ![p].pc = "data", ![p].fd = TRUE]
    /\ UNCHANGED <<sandboxes, faults, moves>>

\* The open of os.WriteFile and os.Create creates or truncates the file.
Open(p) ==
    /\ AtEntry(p)
    /\ Current(p).path \in ValidPath
    /\ ~Current(p).delete
    /\ Put(p, [is |-> "partial"])
    /\ push' = [push EXCEPT ![p].pc = "data", ![p].fd = TRUE]
    /\ UNCHANGED <<sandboxes, faults, moves>>

Longer(f, long) == ~long /\ (f.is = "mixed" \/ (f.is = "whole" /\ f.long))

\* The data goes over what the file holds by then.
Data(p) ==
    /\ At(p, "data")
    /\ IF push[p].fd
       THEN Put(p, IF Longer(FileAt(p), Current(p).long) THEN [is |-> "mixed"]
                   ELSE Whole(p, Current(p).long))
       ELSE UNCHANGED dir
    /\ push' = [push EXCEPT ![p] = Written(@)]
    /\ UNCHANGED <<sandboxes, faults, moves>>

\* A content that is not base64, or a failed MkdirAll or open.
EntryFails(p) ==
    /\ faults < MaxFaults
    /\ faults' = faults + 1
    /\ AtEntry(p)
    /\ Current(p).path \in ValidPath
    /\ push' = [push EXCEPT ![p] = Failed(@)]
    /\ UNCHANGED <<sandboxes, dir, moves>>

\* Mutant of DataFails: the error of the write is not looked at.
DataFailsUnseen(p) ==
    /\ faults < MaxFaults
    /\ faults' = faults + 1
    /\ At(p, "data")
    /\ push' = [push EXCEPT ![p] = Written(@)]
    /\ UNCHANGED <<sandboxes, dir, moves>>

\* The write fails, on a full disk.
DataFails(p) ==
    /\ faults < MaxFaults
    /\ faults' = faults + 1
    /\ At(p, "data")
    /\ push' = [push EXCEPT ![p] = Failed(@)]
    /\ UNCHANGED <<sandboxes, dir, moves>>

\* An archive that breaks off: an error, and what was extracted stays.
TarBreaks(p) ==
    /\ faults < MaxFaults
    /\ faults' = faults + 1
    /\ At(p, "next")
    /\ push[p].body.tar
    /\ push' = Answer(p, 500)
    /\ UNCHANGED <<sandboxes, dir, moves>>

Respond(p) ==
    /\ At(p, "next")
    /\ push[p].i > Len(Files(p))
    /\ push' = Answer(p, 200)
    /\ UNCHANGED <<sandboxes, dir, faults, moves>>

-----------------------------------------------------------------------------
(* Sandboxes meanwhile, as far as pushes depend on them. *)

\* AssignSandboxToNode, for a new sandbox.
Placed(s, n) ==
    /\ home[s] = NoNode
    /\ home' = [home EXCEPT ![s] = n]
    /\ UNCHANGED <<up, tracked, dir, push, faults, moves>>

\* The start command of the row's node is executed.
Started(s) ==
    /\ home[s] # NoNode
    /\ up' = [up EXCEPT ![home[s]] = @ \cup {s}]
    /\ tracked' = [tracked EXCEPT ![home[s]] = @ \cup {s}]
    /\ UNCHANGED <<home, dir, push, faults, moves>>

\* A stop command on node n.
Stopped(n, s) ==
    /\ s \in up[n]
    /\ up' = [up EXCEPT ![n] = @ \ {s}]
    /\ tracked' = [tracked EXCEPT ![n] = @ \ {s}]
    /\ UNCHANGED <<home, dir, push, faults, moves>>

\* The rescheduler gives the row another node; the old one is not told.
Moved(s, n) ==
    /\ moves < MaxMoves
    /\ moves' = moves + 1
    /\ home[s] \notin {NoNode, n}
    /\ home' = [home EXCEPT ![s] = n]
    /\ UNCHANGED <<up, tracked, dir, push, faults>>

\* The map is memory of the agent, and so are the handlers.
AgentRestarts(n) ==
    /\ moves < MaxMoves
    /\ moves' = moves + 1
    /\ tracked' = [tracked EXCEPT ![n] = {}]
    /\ push' = [p \in Push |-> IF Working(p) /\ push[p].node = n
                               THEN [push[p] EXCEPT !.pc = "done"] ELSE push[p]]
    /\ UNCHANGED <<home, up, dir, faults>>

-----------------------------------------------------------------------------
Init ==
    /\ home = [s \in Sandbox |-> NoNode]
    /\ up = [n \in Node |-> {}]
    /\ tracked = [n \in Node |-> {}]
    /\ dir = [n \in Node |-> [s \in Sandbox |-> [q \in Path |-> None]]]
    /\ push = [p \in Push |-> Unsent]
    /\ faults = 0 /\ moves = 0

Write(p) == Reject(p) \/ RemoveFile(p) \/ Open(p) \/ Data(p) \/ Respond(p)

Next ==
    \/ \E p \in Push : \/ \E s \in Sandbox, b \in Body : Redirect(p, s, b)
                       \/ UrlExpires(p) \/ Receive(p) \/ Write(p)
                       \/ EntryFails(p) \/ DataFails(p) \/ TarBreaks(p)
    \/ \E s \in Sandbox : Started(s)
    \/ \E s \in Sandbox, n \in Node : Placed(s, n) \/ Stopped(n, s) \/ Moved(s, n)
    \/ \E n \in Node : AgentRestarts(n)

Spec == Init /\ [][Next]_vars

-----------------------------------------------------------------------------
TypeOK ==
    /\ home \in [Sandbox -> Node \cup {NoNode}]
    /\ up \in [Node -> SUBSET Sandbox] /\ tracked \in [Node -> SUBSET Sandbox]
    /\ dir \in [Node -> [Sandbox -> [Path -> File]]]
    /\ \A p \in Push : /\ push[p].pc \in {"idle", "signed", "next", "data", "done"}
                       /\ push[p].i \in 0..Len(Files(p)) + 1
                       /\ push[p].status \in {0, 200, 403, 404, 500}
    /\ faults \in 0..MaxFaults /\ moves \in 0..MaxMoves

\* The reference for file q: what the first n entries of a request of push p make
\* of the content f is g.  The last entry that names the file decides.
Outcome(p, files, n, q, f, g) ==
    IF q \in ValidPath /\ \E i \in 1..n : files[i].path = q
    THEN \E i \in 1..n :
           /\ files[i].path = q /\ \A j \in 1..n : j > i => files[j].path # q
           /\ g = IF files[i].delete THEN None ELSE Whole(p, files[i].long)
    ELSE g = f

\* A push that no other one overlapped, and with no failing file operation, has
\* the effect of its entries in their order: files that become shorter, that
\* occur twice, that are removed and written again.
PushApplies ==
    [][\A p \in Push :
         LET k == push[p] IN
         (~At(p, "done") /\ push'[p].status = 200 /\ k.alone /\ faults = 0)
             => \A q \in Path : Outcome(p, k.body.files, Len(k.body.files), q,
                                        k.before[q], dir[k.node][k.sb][q])]_vars

\* A file left truncated or half written is one whose push is still at it, or
\* did not count it as written, whoever else writes to it.
PartialIsReported ==
    \A n \in Node, s \in Sandbox, q \in Path :
        dir[n][s][q].is = "partial" =>
            \E p \in Push : LET k == push[p] IN
                /\ k.node = n /\ k.sb = s
                /\ \E i \in DOMAIN k.body.files :
                     /\ k.body.files[i].path = q
                     /\ \/ At(p, "data") /\ k.i = i
                        \/ i \in k.failed
                        \/ At(p, "done") /\ k.status # 200

\* Error table of docs/contracts/filepush-protocol.md: a push for a sandbox that
\* is not on this agent is refused (404).
NotHereIsRefused ==
    [][\A p \in Push : At(p, "signed") /\ push'[p].pc = "next"
                           => home[push[p].sb] = push[p].node]_vars

\* docs/contracts/agent-protocol.md: the agent's map is populated at startup.  A
\* push in time for a sandbox whose container is up on its node is not refused.
HostedIsAccepted ==
    [][\A p \in Push :
         LET k == push[p] IN
         (~At(p, "done") /\ push'[p].status = 404) => k.sb \notin up[k.node]]_vars

\* The answer's summary: of the files that are written, each holds the content
\* of one push, once no push is under way.
WrittenIsWhole ==
    (\A p \in Push : ~Working(p)) =>
        \A n \in Node, s \in Sandbox, q \in Path : dir[n][s][q].is # "mixed"
=============================================================================
