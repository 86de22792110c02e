--------------------------- MODULE FilePushProofs ---------------------------
(***************************************************************************)
(* Proofs about FilePush, for any number of concurrent pushes of any       *)
(* bodies to any number of sandboxes and nodes, with any number of failed  *)
(* file operations, reschedulings and restarts.                            *)
(***************************************************************************)
EXTENDS FilePush, TLAPS

-----------------------------------------------------------------------------
(* The inductive invariant. *)

Fields == {"pc", "sb", "node", "body", "expired", "i", "fd", "written", "failed",
           "status", "alone", "before"}

\* A request that is under way is for a sandbox on a node, is at one of its
\* entries while it writes, and is not answered yet.
RequestOK(k) ==
    /\ DOMAIN k = Fields
    /\ k.pc \in {"idle", "signed", "next", "data", "done"}
    /\ k.status \in {0, 200, 403, 404, 500}
    /\ k.body \in Body \cup {NoBody}
    /\ k.i \in 0..Len(k.body.files) + 1
    /\ k.pc # "idle" => k.sb \in Sandbox /\ k.node \in Node
    /\ k.pc = "next" => k.i >= 1
    /\ k.pc = "data" => k.i \in 1..Len(k.body.files)
    /\ k.pc # "done" => k.status = 0
    /\ k.pc = "idle" => k.failed = {}

RequestInv == DOMAIN push = Push /\ \A p \in Push : RequestOK(push[p])

\* Push k answers for the file q of sandbox s on node n: it has it open, and the
\* file it has open is still the one in the directory, or it counts it as failed,
\* or it is cut off.
AnswersFor(k, n, s, q) ==
    /\ k.node = n /\ k.sb = s
    /\ \E i \in DOMAIN k.body.files :
         /\ k.body.files[i].path = q
         /\ \/ k.pc = "data" /\ k.i = i /\ k.fd
            \/ i \in k.failed
            \/ k.pc = "done" /\ k.status # 200

\* PartialIsReported is not inductive: a push whose file was removed under it
\* ends without touching the file that another push opened in its place.
PartialInv ==
    \A n \in Node, s \in Sandbox, q \in Path :
        dir[n][s][q].is = "partial" => \E p \in Push : AnswersFor(push[p], n, s, q)

FileInv == TypeOK /\ RequestInv /\ PartialInv

-----------------------------------------------------------------------------
(* Types. *)

LEMMA BodyType ==
    ASSUME NEW b \in Body \cup {NoBody}
    PROVE  b.files \in Seq(Entry) /\ Len(b.files) \in Nat /\ b.tar \in BOOLEAN
<1>1. CASE b \in Body
  <2>1. b.files \in Seq(Entry) /\ b.tar \in BOOLEAN
    BY <1>1, FilePushAssumption
  <2> QED
    BY <2>1
<1>2. CASE b = NoBody
  <2>1. b.files = <<>> /\ b.tar = FALSE
    BY <1>2 DEF NoBody
  <2>2. <<>> \in Seq(Entry) /\ Len(<<>>) = 0
    OBVIOUS
  <2> QED
    BY <2>1, <2>2
<1> QED
  BY <1>1, <1>2

LEMMA FileType ==
    /\ None \in File /\ [is |-> "partial"] \in File /\ [is |-> "mixed"] \in File
    /\ \A p \in Push, long \in BOOLEAN : Whole(p, long) \in File
    /\ None.is # "partial" /\ [is |-> "mixed"].is # "partial"
    /\ \A p, long : Whole(p, long).is # "partial"
  BY DEF File, None, Whole

LEMMA UnsentType == RequestOK(Unsent)
<1>1. NoBody.files = <<>>
  BY DEF NoBody
<1>2. Len(<<>>) = 0
  OBVIOUS
<1> QED
  BY <1>1, <1>2 DEF Unsent, RequestOK, Fields

\* The parts of TypeOK that only say what a request is.
LEMMA RequestTypes ==
    ASSUME RequestInv
    PROVE  \A p \in Push : /\ push[p].pc \in {"idle", "signed", "next", "data", "done"}
                           /\ push[p].i \in 0..Len(Files(p)) + 1
                           /\ push[p].status \in {0, 200, 403, 404, 500}
  BY DEF RequestInv, RequestOK, Files

\* The entry a push is at.
LEMMA EntryType ==
    ASSUME RequestInv, NEW p \in Push, AtEntry(p) \/ At(p, "data")
    PROVE  /\ push[p].sb \in Sandbox /\ push[p].node \in Node
           /\ push[p].i \in DOMAIN push[p].body.files /\ Current(p) \in Entry
           /\ Current(p).path \in Path /\ Current(p).long \in BOOLEAN
           /\ push[p].i \in Nat /\ push[p].i + 1 \in Nat
           /\ push[p].i + 1 \in 0..Len(push[p].body.files) + 1
<1> DEFINE k == push[p]
<1>1. RequestOK(k) /\ k.pc \in {"next", "data"}
  BY DEF RequestInv, AtEntry, At
<1>2. k.sb \in Sandbox /\ k.node \in Node /\ k.body \in Body \cup {NoBody}
  BY <1>1 DEF RequestOK
<1>3. k.body.files \in Seq(Entry) /\ Len(k.body.files) \in Nat
  BY <1>2, BodyType
<1>4. k.i \in 1..Len(k.body.files)
  BY <1>1, <1>3 DEF RequestOK, AtEntry, At, Files
<1>5. Current(p) \in Entry
  BY <1>3, <1>4 DEF Current, Files
<1> QED
  BY <1>1, <1>2, <1>3, <1>4, <1>5 DEF Entry

-----------------------------------------------------------------------------
(* What a step does to requests and to what they answer for. *)

\* A request that goes on as k2 answers for what it answered for as k.
Keeps(k, k2) ==
    /\ k2.node = k.node /\ k2.sb = k.sb /\ k2.body = k.body
    /\ k.failed \subseteq k2.failed
    /\ k.pc = "done" => k2.pc = "done" /\ k2.status = k.status

\* ... for the file it has open too.
KeepsOpen(k, k2) ==
    (k.pc = "data" /\ k.fd) => \/ k2.pc = "data" /\ k2.fd /\ k2.i = k.i
                               \/ k.i \in k2.failed
                               \/ k2.pc = "done" /\ k2.status # 200

LEMMA StillAnswers ==
    ASSUME NEW k, NEW k2, Keeps(k, k2), NEW n, NEW s, NEW q, AnswersFor(k, n, s, q),
           KeepsOpen(k, k2) \/ (k.node = n /\ k.sb = s => k.body.files[k.i].path # q)
    PROVE  AnswersFor(k2, n, s, q)
  BY DEF AnswersFor, Keeps, KeepsOpen

\* A step of push p alone.
OneRequest(p, k) ==
    /\ DOMAIN push' = Push /\ push'[p] = k /\ RequestOK(k)
    /\ \A r \in Push : r # p => push'[r] = push[r]

LEMMA OneRequestInv ==
    ASSUME RequestInv, NEW p \in Push, NEW k, OneRequest(p, k)
    PROVE  RequestInv'
  BY DEF RequestInv, OneRequest

LEMMA TypesKept ==
    ASSUME RequestInv',
           home' \in [Sandbox -> Node \cup {NoNode}],
           up' \in [Node -> SUBSET Sandbox], tracked' \in [Node -> SUBSET Sandbox],
           dir' \in [Node -> [Sandbox -> [Path -> File]]],
           faults' \in 0..MaxFaults, moves' \in 0..MaxMoves
    PROVE  TypeOK'
<1>1. \A p \in Push : /\ push'[p].pc \in {"idle", "signed", "next", "data", "done"}
                      /\ push'[p].i \in 0..Len(push'[p].body.files) + 1
                      /\ push'[p].status \in {0, 200, 403, 404, 500}
  BY DEF RequestInv, RequestOK
<1> QED
  BY <1>1 DEF TypeOK, Files

\* A step that leaves the directories as they are, and each request answering
\* for what it did.
LEMMA SameDirs ==
    ASSUME PartialInv, dir' = dir,
           \A p \in Push : Keeps(push[p], push'[p]) /\ KeepsOpen(push[p], push'[p])
    PROVE  PartialInv'
<1>1. SUFFICES ASSUME NEW n \in Node, NEW s \in Sandbox, NEW q \in Path,
                      dir[n][s][q].is = "partial"
               PROVE  \E p \in Push : AnswersFor(push'[p], n, s, q)
  BY DEF PartialInv
<1>2. PICK p \in Push : AnswersFor(push[p], n, s, q)
  BY <1>1 DEF PartialInv
<1>3. AnswersFor(push'[p], n, s, q)
  BY <1>2, StillAnswers
<1> QED
  BY <1>3

LEMMA KeepsItself ==
    ASSUME NEW k
    PROVE  Keeps(k, k) /\ KeepsOpen(k, k)
  BY DEF Keeps, KeepsOpen

\* One push goes on and nothing else happens.
LEMMA Alone ==
    ASSUME FileInv, NEW p \in Push, NEW k, OneRequest(p, k), Keeps(push[p], k),
           KeepsOpen(push[p], k), UNCHANGED <<sandboxes, dir, moves>>,
           faults' \in 0..MaxFaults
    PROVE  FileInv'
<1>1. RequestInv' /\ \A r \in Push : Keeps(push[r], push'[r]) /\ KeepsOpen(push[r], push'[r])
  BY OneRequestInv, KeepsItself DEF FileInv, OneRequest
<1>2. PartialInv'
  BY <1>1, SameDirs DEF FileInv
<1>3. TypeOK'
  BY <1>1, TypesKept DEF FileInv, TypeOK, sandboxes
<1> QED
  BY <1>1, <1>2, <1>3 DEF FileInv

\* Nothing happens to requests and directories.
LEMMA NoRequest ==
    ASSUME FileInv, UNCHANGED <<dir, push, faults>>,
           home' \in [Sandbox -> Node \cup {NoNode}],
           up' \in [Node -> SUBSET Sandbox], tracked' \in [Node -> SUBSET Sandbox],
           moves' \in 0..MaxMoves
    PROVE  FileInv'
<1>1. RequestInv'
  BY DEF FileInv, RequestInv
<1>2. PartialInv'
  BY KeepsItself, SameDirs DEF FileInv
<1>3. TypeOK'
  BY <1>1, TypesKept DEF FileInv, TypeOK
<1> QED
  BY <1>1, <1>2, <1>3 DEF FileInv

\* What a write leaves in the directories.
LEMMA PutType ==
    ASSUME FileInv, NEW p \in Push, AtEntry(p) \/ At(p, "data"), NEW f \in File, Put(p, f)
    PROVE  /\ dir' \in [Node -> [Sandbox -> [Path -> File]]]
           /\ \A n \in Node, s \in Sandbox, q \in Path :
                dir'[n][s][q] = IF n = push[p].node /\ s = push[p].sb /\ q = Current(p).path
                                THEN f ELSE dir[n][s][q]
<1>1. push[p].node \in Node /\ push[p].sb \in Sandbox /\ Current(p).path \in Path
  BY EntryType DEF FileInv
<1>2. dir \in [Node -> [Sandbox -> [Path -> File]]]
  BY DEF FileInv, TypeOK
<1> QED
  BY <1>1, <1>2 DEF Put

\* A push that writes: its own file is no longer partial, or it answers for it,
\* and every request goes on answering for the other files.
LEMMA Writes ==
    ASSUME FileInv, NEW p \in Push, AtEntry(p) \/ At(p, "data"), NEW f \in File, Put(p, f),
           RequestInv', UNCHANGED <<sandboxes, faults, moves>>,
           \A r \in Push : Keeps(push[r], push'[r]),
           \A r \in Push :
               \/ KeepsOpen(push[r], push'[r])
               \/ /\ push[r].node = push[p].node /\ push[r].sb = push[p].sb
                  /\ push[r].body.files[push[r].i].path = Current(p).path,
           f.is = "partial" => AnswersFor(push'[p], push[p].node, push[p].sb, Current(p).path)
    PROVE  FileInv'
<1>1. SUFFICES ASSUME NEW n \in Node, NEW s \in Sandbox, NEW q \in Path,
                      dir'[n][s][q].is = "partial"
               PROVE  \E r \in Push : AnswersFor(push'[r], n, s, q)
  <2>1. TypeOK'
    BY PutType, TypesKept DEF FileInv, TypeOK, sandboxes
  <2>2. SUFFICES PartialInv'
    BY <2>1 DEF FileInv
  <2> QED
    BY DEF PartialInv
<1>2. CASE n = push[p].node /\ s = push[p].sb /\ q = Current(p).path
  <2>1. f.is = "partial"
    BY <1>1, <1>2, PutType
  <2> QED
    BY <1>2, <2>1
<1>3. CASE ~(n = push[p].node /\ s = push[p].sb /\ q = Current(p).path)
  <2>1. dir[n][s][q].is = "partial"
    BY <1>1, <1>3, PutType
  <2>2. PICK r \in Push : AnswersFor(push[r], n, s, q)
    BY <2>1 DEF FileInv, PartialInv
  <2>3. KeepsOpen(push[r], push'[r]) \/ (push[r].node = n /\ push[r].sb = s => push[r].body.files[push[r].i].path # q)
    BY <1>3
  <2>4. AnswersFor(push'[r], n, s, q)
    BY <2>2, <2>3, StillAnswers
  <2> QED
    BY <2>4
<1> QED
  BY <1>2, <1>3

-----------------------------------------------------------------------------
(* One lemma per action. *)

LEMMA InitInv == Init => FileInv
<1> SUFFICES ASSUME Init PROVE FileInv
  OBVIOUS
<1>1. RequestInv
  BY UnsentType DEF Init, RequestInv
<1>2. [n \in Node |-> [s \in Sandbox |-> [q \in Path |-> None]]] \in [Node -> [Sandbox -> [Path -> File]]]
  BY FileType
<1>3. 0 \in 0..MaxFaults /\ 0 \in 0..MaxMoves
  BY FilePushAssumption
<1>4. TypeOK
  BY <1>1, <1>2, <1>3, RequestTypes DEF Init, TypeOK
<1>5. PartialInv
  BY FileType DEF Init, PartialInv
<1> QED
  BY <1>1, <1>4, <1>5 DEF FileInv

LEMMA RedirectInv ==
    ASSUME FileInv, NEW p \in Push, NEW s \in Sandbox, NEW b \in Body, Redirect(p, s, b)
    PROVE  FileInv'
<1> DEFINE k == [Unsent EXCEPT !.pc = "signed", !.sb = s, !.node = home[s], !.body = b]
<1>1. home[s] \in Node
  BY DEF FileInv, TypeOK, Redirect
<1>2. Len(b.files) \in Nat
  BY BodyType
<1>3. RequestOK(k)
  BY <1>1, <1>2 DEF RequestOK, Unsent, Fields
<1>4. OneRequest(p, k)
  BY <1>3 DEF OneRequest, Redirect, FileInv, RequestInv
<1>5. push[p].pc = "idle" /\ push[p].failed = {}
  BY DEF FileInv, RequestInv, RequestOK, Redirect, At
<1>6. \A n, t, q : ~AnswersFor(push[p], n, t, q)
  BY <1>5 DEF AnswersFor
<1>7. RequestInv' /\ \A r \in Push : r # p => push'[r] = push[r]
  BY <1>4, OneRequestInv DEF FileInv, OneRequest
<1>8. PartialInv'
  <2>1. SUFFICES ASSUME NEW n \in Node, NEW t \in Sandbox, NEW q \in Path,
                        dir[n][t][q].is = "partial"
                 PROVE  \E r \in Push : AnswersFor(push'[r], n, t, q)
    BY DEF PartialInv, Redirect
  <2>2. PICK r \in Push : AnswersFor(push[r], n, t, q)
    BY <2>1 DEF FileInv, PartialInv
  <2> QED
    BY <2>2, <1>6, <1>7
<1>9. TypeOK'
  BY <1>7, TypesKept DEF FileInv, TypeOK, Redirect, sandboxes
<1> QED
  BY <1>7, <1>8, <1>9 DEF FileInv

LEMMA UrlExpiresInv ==
    ASSUME FileInv, NEW p \in Push, UrlExpires(p)
    PROVE  FileInv'
<1> DEFINE k == [push[p] EXCEPT !.expired = TRUE]
<1>1. RequestOK(push[p]) /\ push[p].pc = "signed"
  BY DEF FileInv, RequestInv, UrlExpires, At
<1>2. push'[p] = k
  BY DEF FileInv, RequestInv, UrlExpires
<1>3. RequestOK(k) /\ Keeps(push[p], k) /\ KeepsOpen(push[p], k)
  BY <1>1 DEF RequestOK, Fields, Keeps, KeepsOpen
<1>4. OneRequest(p, k)
  BY <1>2, <1>3 DEF OneRequest, UrlExpires, FileInv, RequestInv
<1> QED
  BY <1>3, <1>4, Alone DEF UrlExpires, FileInv, TypeOK

\* An answer to a request that has no file open.
LEMMA AnswerInv ==
    ASSUME FileInv, NEW p \in Push, push[p].pc \in {"signed", "next"},
           NEW code \in {200, 403, 404, 500}, push' = Answer(p, code),
           UNCHANGED <<sandboxes, dir, moves>>, faults' \in 0..MaxFaults
    PROVE  FileInv'
<1> DEFINE k == [push[p] EXCEPT !.pc = "done", !.status = code]
<1>1. RequestOK(push[p])
  BY DEF FileInv, RequestInv
<1>2. RequestOK(k) /\ Keeps(push[p], k) /\ KeepsOpen(push[p], k)
  BY <1>1 DEF RequestOK, Fields, Keeps, KeepsOpen
<1>3. push'[p] = k
  BY DEF Answer, FileInv, RequestInv
<1>4. OneRequest(p, k)
  BY <1>2, <1>3 DEF OneRequest, Answer, FileInv, RequestInv
<1> QED
  BY <1>2, <1>4, Alone

LEMMA ReceiveInv ==
    ASSUME FileInv, NEW p \in Push, Receive(p)
    PROVE  FileInv'
<1> DEFINE k == push[p]
           others == {q \in Push \ {p} : Working(q) /\ push[q].node = k.node /\ push[q].sb = k.sb}
           k2 == [k EXCEPT !.pc = "next", !.i = 1, !.alone = (others = {}),
                           !.before = dir[k.node][k.sb]]
<1>1. k.pc = "signed" /\ UNCHANGED <<sandboxes, dir, moves>> /\ faults' \in 0..MaxFaults
  BY DEF Receive, At, FileInv, TypeOK
<1>2. CASE push' = Answer(p, 403) \/ push' = Answer(p, 404)
  BY <1>1, <1>2, AnswerInv
<1>3. CASE push' = [q \in Push |-> IF q = p THEN k2
                                  ELSE IF q \in others THEN [push[q] EXCEPT !.alone = FALSE]
                                  ELSE push[q]]
  <2> HIDE DEF others
  <2>1. \A q \in Push : RequestOK(push[q])
    BY DEF FileInv, RequestInv
  <2>2. RequestOK(k2) /\ Keeps(k, k2) /\ KeepsOpen(k, k2)
    <3>1. Len(k.body.files) \in Nat
      BY <2>1, BodyType DEF RequestOK
    <3> QED
      BY <2>1, <3>1, <1>1 DEF RequestOK, Fields, Keeps, KeepsOpen
  <2>3. ASSUME NEW q \in Push, NEW r, r = [push[q] EXCEPT !.alone = FALSE]
        PROVE  RequestOK(r) /\ Keeps(push[q], r) /\ KeepsOpen(push[q], r)
    BY <2>1, <2>3 DEF RequestOK, Fields, Keeps, KeepsOpen
  <2>4. \A q \in Push : /\ RequestOK(push'[q])
                        /\ Keeps(push[q], push'[q]) /\ KeepsOpen(push[q], push'[q])
    <3> HIDE DEF k2
    <3> QED
      BY <1>3, <2>1, <2>2, <2>3, KeepsItself
  <2>5. RequestInv'
    BY <1>3, <2>4 DEF RequestInv
  <2>6. PartialInv'
    BY <1>1, <2>4, SameDirs DEF FileInv
  <2>7. TypeOK'
    BY <1>1, <2>5, TypesKept DEF FileInv, TypeOK, sandboxes
  <2> QED
    BY <2>5, <2>6, <2>7 DEF FileInv
<1> QED
  BY <1>2, <1>3 DEF Receive

\* What counting the entry does to the request.
LEMMA CountType ==
    ASSUME FileInv, NEW p \in Push, AtEntry(p) \/ At(p, "data")
    PROVE  /\ RequestOK(Failed(push[p]))
           /\ Keeps(push[p], Failed(push[p])) /\ KeepsOpen(push[p], Failed(push[p]))
           /\ RequestOK(Written(push[p]))
           /\ Keeps(push[p], Written(push[p])) /\ Written(push[p]).pc = "next"
           /\ (~push[p].fd \/ push[p].pc = "next") => KeepsOpen(push[p], Written(push[p]))
<1> DEFINE k == push[p]
<1>1. k.i \in Nat /\ k.i + 1 \in Nat /\ k.i + 1 \in 0..Len(k.body.files) + 1
  BY EntryType DEF FileInv
<1>2. RequestOK(k) /\ k.pc \in {"next", "data"}
  BY DEF FileInv, RequestInv, AtEntry, At
<1>3. RequestOK(Failed(k)) /\ Keeps(k, Failed(k)) /\ KeepsOpen(k, Failed(k))
  BY <1>1, <1>2 DEF Failed, RequestOK, Fields, Keeps, KeepsOpen
<1>4. RequestOK(Written(k)) /\ Keeps(k, Written(k)) /\ Written(k).pc = "next"
  BY <1>1, <1>2 DEF Written, RequestOK, Fields, Keeps
<1>5. ~k.fd \/ k.pc = "next" => KeepsOpen(k, Written(k))
  BY DEF KeepsOpen
<1> QED
  BY <1>3, <1>4, <1>5

LEMMA FailedInv ==
    ASSUME FileInv, NEW p \in Push, AtEntry(p) \/ At(p, "data"),
           push' = [push EXCEPT ![p] = Failed(@)],
           UNCHANGED <<sandboxes, dir, moves>>, faults' \in 0..MaxFaults
    PROVE  FileInv'
<1>1. OneRequest(p, Failed(push[p]))
  BY CountType DEF OneRequest, FileInv, RequestInv
<1> QED
  BY <1>1, CountType, Alone

LEMMA FaultType ==
    ASSUME FileInv
    PROVE  /\ faults \in 0..MaxFaults /\ moves \in 0..MaxMoves
           /\ faults < MaxFaults => faults + 1 \in 0..MaxFaults
           /\ moves < MaxMoves => moves + 1 \in 0..MaxMoves
  BY FilePushAssumption DEF FileInv, TypeOK

LEMMA RejectInv ==
    ASSUME FileInv, NEW p \in Push, Reject(p) \/ EntryFails(p) \/ DataFails(p)
    PROVE  FileInv'
  BY FailedInv, FaultType DEF Reject, EntryFails, DataFails

LEMMA RespondInv ==
    ASSUME FileInv, NEW p \in Push, Respond(p) \/ TarBreaks(p)
    PROVE  FileInv'
  BY AnswerInv, FaultType DEF Respond, TarBreaks, At

LEMMA RemoveFileInv ==
    ASSUME FileInv, NEW p \in Push, RemoveFile(p)
    PROVE  FileInv'
<1> DEFINE SameFile(q) == /\ At(q, "data") /\ push[q].node = push[p].node
                          /\ push[q].sb = push[p].sb /\ Current(q).path = Current(p).path
           closed(q) == [push[q] EXCEPT !.fd = FALSE]
<1>1. AtEntry(p) /\ UNCHANGED <<sandboxes, faults, moves>>
  BY DEF RemoveFile
<1>2. CASE push' = [push EXCEPT ![p] = Failed(@)] /\ UNCHANGED dir
  BY <1>1, <1>2, FailedInv, FaultType
<1>3. CASE /\ Put(p, None)
           /\ push' = [q \in Push |-> CASE q = p -> Written(push[p])
                                        [] q # p /\ SameFile(q) -> [push[q] EXCEPT !.fd = FALSE]
                                        [] OTHER -> push[q]]
  <2> HIDE DEF SameFile
  <2>1. \A q \in Push : RequestOK(push[q])
    BY DEF FileInv, RequestInv
  <2>2. ASSUME NEW q \in Push
        PROVE  RequestOK(closed(q)) /\ Keeps(push[q], closed(q))
    BY <2>1 DEF RequestOK, Fields, Keeps
  <2>3. /\ RequestOK(Written(push[p])) /\ Keeps(push[p], Written(push[p]))
        /\ KeepsOpen(push[p], Written(push[p]))
    <3>1. push[p].pc = "next"
      BY <1>1 DEF AtEntry, At
    <3> QED
      BY <1>1, <3>1, CountType
  <2> HIDE DEF closed
  <2>4. \A q \in Push : \/ q = p /\ push'[q] = Written(push[p])
                        \/ SameFile(q) /\ push'[q] = closed(q)
                        \/ push'[q] = push[q]
    BY <1>3 DEF closed
  <2>5. RequestInv'
    <3>1. DOMAIN push' = Push
      BY <1>3
    <3> QED
      BY <3>1, <2>1, <2>2, <2>3, <2>4 DEF RequestInv
  <2>6. \A q \in Push : Keeps(push[q], push'[q])
    BY <2>2, <2>3, <2>4, KeepsItself
  <2>7. \A q \in Push :
          \/ KeepsOpen(push[q], push'[q])
          \/ /\ push[q].node = push[p].node /\ push[q].sb = push[p].sb
             /\ push[q].body.files[push[q].i].path = Current(p).path
    BY <2>3, <2>4, KeepsItself DEF SameFile, Current, Files
  <2> QED
    BY <1>1, <1>3, <2>5, <2>6, <2>7, FileType, Writes
<1> QED
  BY <1>2, <1>3 DEF RemoveFile

LEMMA OpenInv ==
    ASSUME FileInv, NEW p \in Push, Open(p)
    PROVE  FileInv'
<1> DEFINE k == [push[p] EXCEPT !.pc = "data", !.fd = TRUE]
<1>1. AtEntry(p) /\ UNCHANGED <<sandboxes, faults, moves>> /\ Put(p, [is |-> "partial"])
  BY DEF Open
<1>2. RequestOK(push[p]) /\ push[p].pc = "next"
  BY <1>1 DEF FileInv, RequestInv, AtEntry, At
<1>3. push'[p] = k /\ DOMAIN push' = Push /\ \A r \in Push : r # p => push'[r] = push[r]
  BY DEF Open, FileInv, RequestInv
<1>4. push[p].i \in 1..Len(push[p].body.files) /\ push[p].i \in DOMAIN push[p].body.files
  <2>1. Len(push[p].body.files) \in Nat /\ push[p].body.files \in Seq(Entry)
    BY <1>2, BodyType DEF RequestOK
  <2> QED
    BY <1>1, <1>2, <2>1 DEF RequestOK, AtEntry, Files
<1>5. RequestOK(k) /\ Keeps(push[p], k) /\ KeepsOpen(push[p], k)
  BY <1>2, <1>4 DEF RequestOK, Fields, Keeps, KeepsOpen
<1>6. AnswersFor(k, push[p].node, push[p].sb, Current(p).path)
  BY <1>2, <1>4 DEF AnswersFor, RequestOK, Fields, Current, Files
<1> HIDE DEF k
<1>7. RequestInv'
  BY <1>3, <1>5, OneRequestInv DEF OneRequest, FileInv
<1>8. \A r \in Push : Keeps(push[r], push'[r]) /\ KeepsOpen(push[r], push'[r])
  BY <1>3, <1>5, KeepsItself
<1> QED
  BY <1>1, <1>3, <1>6, <1>7, <1>8, FileType, Writes

LEMMA DataInv ==
    ASSUME FileInv, NEW p \in Push, Data(p)
    PROVE  FileInv'
<1> DEFINE k == Written(push[p])
<1>1. At(p, "data") /\ UNCHANGED <<sandboxes, faults, moves>>
  BY DEF Data
<1>2. RequestOK(k) /\ Keeps(push[p], k) /\ (~push[p].fd => KeepsOpen(push[p], k))
  BY <1>1, CountType
<1>3. push'[p] = k /\ DOMAIN push' = Push /\ \A r \in Push : r # p => push'[r] = push[r]
  BY DEF Data, FileInv, RequestInv
<1> HIDE DEF k
<1>4. OneRequest(p, k)
  BY <1>2, <1>3 DEF OneRequest
<1>5. CASE ~push[p].fd
  <2>1. UNCHANGED dir
    BY <1>5 DEF Data
  <2> QED
    BY <1>1, <1>2, <1>4, <1>5, <2>1, Alone, FaultType
<1>6. CASE push[p].fd
  <2>1. PICK f \in File : f.is # "partial" /\ Put(p, f)
    <3>1. Current(p).long \in BOOLEAN
      BY <1>1, EntryType DEF FileInv
    <3> QED
      BY <1>6, <3>1, FileType DEF Data
  <2>2. RequestInv'
    BY <1>4, OneRequestInv DEF FileInv
  <2>3. \A r \in Push : Keeps(push[r], push'[r])
    BY <1>2, <1>3, KeepsItself
  <2>4. \A r \in Push :
          \/ KeepsOpen(push[r], push'[r])
          \/ /\ push[r].node = push[p].node /\ push[r].sb = push[p].sb
             /\ push[r].body.files[push[r].i].path = Current(p).path
    BY <1>3, KeepsItself DEF Current, Files
  <2> QED
    BY <1>1, <2>1, <2>2, <2>3, <2>4, Writes
<1> QED
  BY <1>5, <1>6

LEMMA SandboxInv ==
    ASSUME FileInv, NEW s \in Sandbox, NEW n \in Node,
           Started(s) \/ Placed(s, n) \/ Stopped(n, s) \/ Moved(s, n)
    PROVE  FileInv'
<1>1. /\ home \in [Sandbox -> Node \cup {NoNode}]
      /\ up \in [Node -> SUBSET Sandbox] /\ tracked \in [Node -> SUBSET Sandbox]
  BY DEF FileInv, TypeOK
<1>2. CASE Started(s)
  <2>1. home[s] \in Node
    BY <1>1, <1>2 DEF Started
  <2>2. up' \in [Node -> SUBSET Sandbox] /\ tracked' \in [Node -> SUBSET Sandbox]
    BY <1>1, <1>2, <2>1 DEF Started
  <2> QED
    BY <1>1, <1>2, <2>2, FaultType, NoRequest DEF Started
<1>3. CASE Placed(s, n)
  <2>1. home' \in [Sandbox -> Node \cup {NoNode}]
    BY <1>1, <1>3 DEF Placed
  <2> QED
    BY <1>1, <1>3, <2>1, FaultType, NoRequest DEF Placed
<1>4. CASE Stopped(n, s)
  <2>1. up' \in [Node -> SUBSET Sandbox] /\ tracked' \in [Node -> SUBSET Sandbox]
    BY <1>1, <1>4 DEF Stopped
  <2> QED
    BY <1>1, <1>4, <2>1, FaultType, NoRequest DEF Stopped
<1>5. CASE Moved(s, n)
  <2>1. home' \in [Sandbox -> Node \cup {NoNode}]
    BY <1>1, <1>5 DEF Moved
  <2> QED
    BY <1>1, <1>5, <2>1, FaultType, NoRequest DEF Moved
<1> QED
  BY <1>2, <1>3, <1>4, <1>5

LEMMA AgentRestartsInv ==
    ASSUME FileInv, NEW n \in Node, AgentRestarts(n)
    PROVE  FileInv'
<1> DEFINE cut(p) == [push[p] EXCEPT !.pc = "done"]
<1>1. \A p \in Push : RequestOK(push[p])
  BY DEF FileInv, RequestInv
<1>2. ASSUME NEW p \in Push, Working(p)
      PROVE  RequestOK(cut(p)) /\ Keeps(push[p], cut(p)) /\ KeepsOpen(push[p], cut(p))
  BY <1>1, <1>2 DEF Working, RequestOK, Fields, Keeps, KeepsOpen
<1> HIDE DEF cut
<1>3. \A p \in Push : (Working(p) /\ push'[p] = cut(p)) \/ push'[p] = push[p]
  BY DEF AgentRestarts, cut
<1>4. RequestInv'
  <2>1. DOMAIN push' = Push
    BY DEF AgentRestarts
  <2> QED
    BY <2>1, <1>1, <1>2, <1>3 DEF RequestInv
<1>5. \A p \in Push : Keeps(push[p], push'[p]) /\ KeepsOpen(push[p], push'[p])
  BY <1>2, <1>3, KeepsItself
<1>6. PartialInv'
  BY <1>5, SameDirs DEF FileInv, AgentRestarts
<1>7. tracked' \in [Node -> SUBSET Sandbox]
  BY DEF FileInv, TypeOK, AgentRestarts
<1>8. TypeOK'
  BY <1>4, <1>7, TypesKept, FaultType DEF FileInv, TypeOK, AgentRestarts
<1> QED
  BY <1>4, <1>6, <1>8 DEF FileInv

-----------------------------------------------------------------------------
LEMMA FileStep ==
    ASSUME FileInv, [Next]_vars
    PROVE  FileInv'
<1>1. CASE \E p \in Push : \/ \E s \in Sandbox, b \in Body : Redirect(p, s, b)
                          \/ UrlExpires(p) \/ Receive(p) \/ Write(p)
                          \/ EntryFails(p) \/ DataFails(p) \/ TarBreaks(p)
  BY <1>1, RedirectInv, UrlExpiresInv, ReceiveInv, RejectInv, RemoveFileInv, OpenInv,
     DataInv, RespondInv DEF Write
<1>2. CASE \E s \in Sandbox : Started(s)
  <2>1. PICK s \in Sandbox : Started(s)
    BY <1>2
  <2>2. home[s] \in Node
    BY <2>1 DEF FileInv, TypeOK, Started
  <2> QED
    BY <2>1, <2>2, SandboxInv
<1>3. CASE \E s \in Sandbox, n \in Node : Placed(s, n) \/ Stopped(n, s) \/ Moved(s, n)
  BY <1>3, SandboxInv
<1>4. CASE \E n \in Node : AgentRestarts(n)
  BY <1>4, AgentRestartsInv
<1>5. CASE UNCHANGED vars
  <2>1. RequestInv'
    BY <1>5 DEF FileInv, RequestInv, vars
  <2> QED
    BY <1>5, NoRequest DEF FileInv, TypeOK, vars
<1> QED
  BY <1>1, <1>2, <1>3, <1>4, <1>5 DEF Next

LEMMA FileInvariant == Spec => []FileInv
  BY InitInv, FileStep, PTL DEF Spec

\* In every behaviour the index of a push stays within its entries and one past
\* them, and only the answers of ServeHTTP are given.
THEOREM TypeCorrect == Spec => []TypeOK
<1>1. FileInv => TypeOK
  BY DEF FileInv
<1> QED
  BY <1>1, FileInvariant, PTL

\* WriteFiles and WriteTar: however many pushes write to a directory at once, a
\* file that is left truncated or half written is one that some push is at, or
\* did not count as written.
THEOREM PartialFilesAreReported == Spec => []PartialIsReported
<1>1. FileInv => PartialIsReported
  <2> SUFFICES ASSUME FileInv, NEW n \in Node, NEW s \in Sandbox, NEW q \in Path,
                      dir[n][s][q].is = "partial"
               PROVE  \E p \in Push : LET k == push[p] IN
                        /\ k.node = n /\ k.sb = s
                        /\ \E i \in DOMAIN k.body.files :
                             /\ k.body.files[i].path = q
                             /\ \/ At(p, "data") /\ k.i = i
                                \/ i \in k.failed
                                \/ At(p, "done") /\ k.status # 200
    BY DEF PartialIsReported
  <2>1. PICK p \in Push : AnswersFor(push[p], n, s, q)
    BY DEF FileInv, PartialInv
  <2> QED
    BY <2>1 DEF AnswersFor, At
<1> QED
  BY <1>1, FileInvariant, PTL

-----------------------------------------------------------------------------
(* A push that no other one overlaps.  While it is under way no other push is *)
(* at work in its directory, and the directory is what the entries it is done *)
(* with have made of it, but for the file it has open.                        *)

Apart(p) ==
    \A r \in Push : r # p /\ push[r].pc \in {"next", "data"}
                        => ~(push[r].node = push[p].node /\ push[r].sb = push[p].sb)

\* How far push p, with record k, has come in directory d.
Progress(p, k, d) ==
    /\ k.pc = "next" =>
         \A q \in Path : Outcome(p, k.body.files, k.i - 1, q, k.before[q], d[q])
    /\ k.pc = "data" =>
         LET e == k.body.files[k.i] IN
         /\ k.fd /\ e.path \in ValidPath /\ ~e.delete /\ d[e.path].is = "partial"
         /\ \A q \in Path : q # e.path => Outcome(p, k.body.files, k.i - 1, q, k.before[q], d[q])

AloneInv ==
    faults = 0 => \A p \in Push :
        push[p].pc \in {"next", "data"} /\ push[p].alone
            => Apart(p) /\ Progress(p, push[p], dir[push[p].node][push[p].sb])

\* No entry yet: the directory is as it was.
LEMMA OutcomeFirst ==
    ASSUME NEW p, NEW files, NEW q, NEW f
    PROVE  Outcome(p, files, 0, q, f, f)
  BY DEF Outcome

\* The next entry names another file, or a path that is refused.
LEMMA OutcomeSkips ==
    ASSUME NEW p, NEW files, NEW n \in Nat, NEW q, NEW f, NEW g, Outcome(p, files, n, q, f, g),
           files[n + 1].path # q \/ q \notin ValidPath
    PROVE  Outcome(p, files, n + 1, q, f, g)
<1>1. CASE q \notin ValidPath
  BY <1>1 DEF Outcome
<1>2. CASE files[n + 1].path # q
  <2>1. \A i \in 1..(n + 1) : i \in 1..n \/ i = n + 1
    OBVIOUS
  <2>2. \A i \in 1..n : i \in 1..(n + 1)
    OBVIOUS
  <2>3. (\E i \in 1..(n + 1) : files[i].path = q) <=> (\E i \in 1..n : files[i].path = q)
    BY <1>2, <2>1, <2>2
  <2>4. ASSUME NEW i \in 1..n, \A j \in 1..n : j > i => files[j].path # q
        PROVE  \A j \in 1..(n + 1) : j > i => files[j].path # q
    BY <1>2, <2>1, <2>4
  <2> QED
    BY <2>2, <2>3, <2>4 DEF Outcome
<1> QED
  BY <1>1, <1>2

\* The next entry names the file: it decides.
LEMMA OutcomeDecides ==
    ASSUME NEW p, NEW files, NEW n \in Nat, NEW q, NEW f, NEW g,
           q \in ValidPath, files[n + 1].path = q,
           g = IF files[n + 1].delete THEN None ELSE Whole(p, files[n + 1].long)
    PROVE  Outcome(p, files, n + 1, q, f, g)
<1>1. n + 1 \in 1..(n + 1) /\ \A j \in 1..(n + 1) : ~(j > n + 1)
  OBVIOUS
<1> QED
  BY <1>1 DEF Outcome

LEMMA IndexBack == \A i \in Nat : i >= 1 => i - 1 \in Nat /\ (i - 1) + 1 = i /\ (i + 1) - 1 = i
  OBVIOUS

\* A push that steps over an entry that leaves the directory as it is.
LEMMA SkipsEntry ==
    ASSUME FileInv, NEW p \in Push, AtEntry(p), NEW k2, NEW d,
           \A q \in Path : Outcome(p, push[p].body.files, push[p].i - 1, q, push[p].before[q], d[q]),
           k2.pc = "next", k2.i = push[p].i + 1, k2.body = push[p].body,
           k2.before = push[p].before,
           \/ Current(p).path \notin ValidPath
           \/ Current(p).delete /\ d[Current(p).path] = None
    PROVE  Progress(p, k2, d)
<1> DEFINE i == push[p].i
           files == push[p].body.files
<1>1. i \in Nat /\ i >= 1
  <2>1. i \in DOMAIN files /\ i \in Nat /\ files \in Seq(Entry)
    BY EntryType, BodyType DEF FileInv, RequestInv, RequestOK
  <2> QED
    BY <2>1
<1>2. i - 1 \in Nat /\ (i - 1) + 1 = i /\ (i + 1) - 1 = i
  BY <1>1, IndexBack
<1>3. Current(p) = files[i]
  BY DEF Current, Files
<1>4. SUFFICES ASSUME NEW q \in Path PROVE Outcome(p, files, i, q, push[p].before[q], d[q])
  BY <1>2 DEF Progress
<1> HIDE DEF i, files
<1>5. Outcome(p, files, i - 1, q, push[p].before[q], d[q])
  BY DEF i, files
<1>6. CASE files[i].path # q \/ q \notin ValidPath
  <2>1. Outcome(p, files, (i - 1) + 1, q, push[p].before[q], d[q])
    BY <1>2, <1>5, <1>6, OutcomeSkips
  <2> QED
    BY <1>2, <2>1
<1>7. CASE files[i].path = q /\ q \in ValidPath
  <2>1. files[i].delete /\ d[q] = None
    BY <1>3, <1>7
  <2>2. Outcome(p, files, (i - 1) + 1, q, push[p].before[q], d[q])
    BY <1>2, <1>7, <2>1, OutcomeDecides
  <2> QED
    BY <1>2, <2>2
<1> QED
  BY <1>6, <1>7

\* A push that has carried out its entry.
LEMMA DoesEntry ==
    ASSUME FileInv, NEW p \in Push, AtEntry(p) \/ At(p, "data"), NEW k2, NEW d,
           \A q \in Path : q # Current(p).path =>
               Outcome(p, push[p].body.files, push[p].i - 1, q, push[p].before[q], d[q]),
           k2.pc = "next", k2.i = push[p].i + 1, k2.body = push[p].body,
           k2.before = push[p].before, Current(p).path \in ValidPath,
           d[Current(p).path] = IF Current(p).delete THEN None ELSE Whole(p, Current(p).long)
    PROVE  Progress(p, k2, d)
<1> DEFINE i == push[p].i
           files == push[p].body.files
<1>1. i \in Nat /\ i >= 1
  <2>1. i \in DOMAIN files /\ i \in Nat /\ files \in Seq(Entry)
    BY EntryType, BodyType DEF FileInv, RequestInv, RequestOK
  <2> QED
    BY <2>1
<1>2. i - 1 \in Nat /\ (i - 1) + 1 = i /\ (i + 1) - 1 = i
  BY <1>1, IndexBack
<1>3. Current(p) = files[i]
  BY DEF Current, Files
<1>4. SUFFICES ASSUME NEW q \in Path PROVE Outcome(p, files, i, q, push[p].before[q], d[q])
  BY <1>2 DEF Progress
<1> HIDE DEF i, files
<1>5. CASE files[i].path # q
  <2>1. Outcome(p, files, i - 1, q, push[p].before[q], d[q])
    BY <1>3, <1>5 DEF i, files
  <2>2. Outcome(p, files, (i - 1) + 1, q, push[p].before[q], d[q])
    BY <1>2, <1>5, <2>1, OutcomeSkips
  <2> QED
    BY <1>2, <2>2
<1>6. CASE files[i].path = q
  <2>1. q \in ValidPath /\ d[q] = IF files[i].delete THEN None ELSE Whole(p, files[i].long)
    BY <1>3, <1>6
  <2>2. Outcome(p, files, (i - 1) + 1, q, push[p].before[q], d[q])
    BY <1>2, <1>6, <2>1, OutcomeDecides
  <2> QED
    BY <1>2, <2>2
<1> QED
  BY <1>5, <1>6

\* What is left to show for a push after a step.
Carries(p) ==
    (faults' = 0 /\ push'[p].pc \in {"next", "data"} /\ push'[p].alone)
        => /\ \A r \in Push : r # p /\ push'[r].pc \in {"next", "data"}
                 => ~(push'[r].node = push'[p].node /\ push'[r].sb = push'[p].sb)
           /\ Progress(p, push'[p], dir'[push'[p].node][push'[p].sb])

\* No push begins to write in this step.
NoneBegins ==
    \A r \in Push : push'[r].pc \in {"next", "data"}
        => push[r].pc \in {"next", "data"} /\ push'[r].node = push[r].node /\ push'[r].sb = push[r].sb

\* A push that this step leaves alone, and its directory too.
LEMMA Bystander ==
    ASSUME FileInv, AloneInv, NoneBegins, NEW p \in Push, push'[p] = push[p],
           faults' = 0 => faults = 0,
           push[p].pc \in {"next", "data"} /\ push[p].alone /\ faults = 0 /\ Apart(p)
               => dir'[push[p].node][push[p].sb] = dir[push[p].node][push[p].sb]
    PROVE  Carries(p)
<1> SUFFICES ASSUME faults' = 0, push'[p].pc \in {"next", "data"}, push'[p].alone
             PROVE  /\ \A r \in Push : r # p /\ push'[r].pc \in {"next", "data"}
                         => ~(push'[r].node = push'[p].node /\ push'[r].sb = push'[p].sb)
                    /\ Progress(p, push'[p], dir'[push'[p].node][push'[p].sb])
  BY DEF Carries
<1>1. Apart(p) /\ Progress(p, push[p], dir[push[p].node][push[p].sb])
  BY DEF AloneInv
<1>2. Progress(p, push'[p], dir'[push'[p].node][push'[p].sb])
  BY <1>1
<1> QED
  BY <1>1, <1>2 DEF Apart, NoneBegins

\* The push that takes the step.
LEMMA Actor ==
    ASSUME FileInv, AloneInv, NoneBegins, NEW p \in Push, faults' = 0 => faults = 0,
           push'[p].alone = push[p].alone,
           Progress(p, push[p], dir[push[p].node][push[p].sb])
               => Progress(p, push'[p], dir'[push[p].node][push[p].sb])
    PROVE  Carries(p)
<1> SUFFICES ASSUME faults' = 0, push'[p].pc \in {"next", "data"}, push'[p].alone
             PROVE  /\ \A r \in Push : r # p /\ push'[r].pc \in {"next", "data"}
                         => ~(push'[r].node = push'[p].node /\ push'[r].sb = push'[p].sb)
                    /\ Progress(p, push'[p], dir'[push'[p].node][push'[p].sb])
  BY DEF Carries
<1>1. push[p].pc \in {"next", "data"} /\ push[p].alone /\ faults = 0
      /\ push'[p].node = push[p].node /\ push'[p].sb = push[p].sb
  BY DEF NoneBegins
<1>2. Apart(p) /\ Progress(p, push[p], dir[push[p].node][push[p].sb])
  BY <1>1 DEF AloneInv
<1>3. Progress(p, push'[p], dir'[push'[p].node][push'[p].sb])
  BY <1>1, <1>2
<1> QED
  BY <1>1, <1>2, <1>3 DEF Apart, NoneBegins

LEMMA CarriesOn ==
    ASSUME \A p \in Push : Carries(p)
    PROVE  AloneInv'
  BY DEF AloneInv, Carries, Apart

\* A step that writes nothing, and after which each request is as it was or
\* not at work.
LEMMA NothingWritten ==
    ASSUME FileInv, AloneInv, dir' = dir, faults' = 0 => faults = 0,
           \A p \in Push : push'[p] = push[p] \/ push'[p].pc \notin {"next", "data"}
    PROVE  AloneInv'
<1>1. NoneBegins
  BY DEF NoneBegins
<1>2. ASSUME NEW p \in Push PROVE Carries(p)
  <2>1. CASE push'[p].pc \notin {"next", "data"}
    BY <2>1 DEF Carries
  <2>2. CASE push'[p] = push[p]
    BY <1>1, <2>2, Bystander
  <2> QED
    BY <2>1, <2>2
<1> QED
  BY <1>2, CarriesOn

-----------------------------------------------------------------------------
(* One lemma per action of a push. *)

\* The other requests are as they were, or at work in the directory of push r.
OthersGoOn(r) ==
    \A p \in Push : p # r =>
        /\ push'[p].pc = push[p].pc /\ push'[p].node = push[p].node
        /\ push'[p].sb = push[p].sb /\ push'[p].alone = push[p].alone
        /\ push'[p] = push[p]
             \/ (push[p].pc = "data" /\ push[p].node = push[r].node /\ push[p].sb = push[r].sb)

\* The directories of the pushes that write elsewhere are as they were.
ElsewhereSame(r) ==
    \A p \in Push : (push[p].pc \in {"next", "data"}
                         /\ ~(push[p].node = push[r].node /\ push[p].sb = push[r].sb))
        => dir'[push[p].node][push[p].sb] = dir[push[p].node][push[p].sb]

\* Push r writes its file, or leaves the directories as they are, and goes on as k.
LEMMA OthersApart ==
    ASSUME FileInv, AloneInv, NEW r \in Push, push[r].pc \in {"next", "data"}, NEW k,
           push'[r] = k, k.node = push[r].node, k.sb = push[r].sb, k.alone = push[r].alone,
           faults' = faults, OthersGoOn(r), ElsewhereSame(r),
           Progress(r, push[r], dir[push[r].node][push[r].sb])
               => Progress(r, k, dir'[push[r].node][push[r].sb])
    PROVE  AloneInv'
<1>1. NoneBegins
  BY DEF NoneBegins, OthersGoOn
<1>2. Carries(r)
  <2>1. Progress(r, push[r], dir[push[r].node][push[r].sb])
          => Progress(r, push'[r], dir'[push[r].node][push[r].sb])
    OBVIOUS
  <2>2. push'[r].alone = push[r].alone /\ (faults' = 0 => faults = 0)
    OBVIOUS
  <2> QED
    BY <1>1, <2>1, <2>2, Actor
<1>3. ASSUME NEW p \in Push, p # r PROVE Carries(p)
  <2>1. CASE push[p].pc \in {"next", "data"} /\ push[p].alone /\ faults = 0
    <3>1. Apart(p)
      BY <2>1 DEF AloneInv
    <3>2. ~(push[p].node = push[r].node /\ push[p].sb = push[r].sb)
      BY <1>3, <3>1 DEF Apart
    <3>3. push'[p] = push[p] /\ dir'[push[p].node][push[p].sb] = dir[push[p].node][push[p].sb]
      BY <1>3, <2>1, <3>2 DEF OthersGoOn, ElsewhereSame
    <3> QED
      BY <1>1, <3>3, Bystander
  <2>2. CASE ~(push[p].pc \in {"next", "data"} /\ push[p].alone /\ faults = 0)
    BY <1>3, <2>2 DEF Carries, OthersGoOn
  <2> QED
    BY <2>1, <2>2
<1>4. \A p \in Push : Carries(p)
  BY <1>2, <1>3
<1> QED
  BY <1>4, CarriesOn

LEMMA CountFields ==
    ASSUME FileInv, NEW p \in Push, NEW k, k = Failed(push[p]) \/ k = Written(push[p])
    PROVE  /\ k.pc = "next" /\ k.i = push[p].i + 1 /\ k.body = push[p].body
           /\ k.before = push[p].before /\ k.node = push[p].node /\ k.sb = push[p].sb
           /\ k.alone = push[p].alone
<1>1. DOMAIN push[p] = Fields
  BY DEF FileInv, RequestInv, RequestOK
<1> QED
  BY <1>1 DEF Failed, Written, Fields

LEMMA ReceiveAlone ==
    ASSUME FileInv, AloneInv, NEW p \in Push, Receive(p)
    PROVE  AloneInv'
<1> DEFINE k == push[p]
           others == {q \in Push \ {p} : Working(q) /\ push[q].node = k.node /\ push[q].sb = k.sb}
           k2 == [k EXCEPT !.pc = "next", !.i = 1, !.alone = (others = {}),
                           !.before = dir[k.node][k.sb]]
<1>1. k.pc = "signed" /\ dir' = dir /\ faults' = faults
  BY DEF Receive, At
<1>2. \A r \in Push : DOMAIN push[r] = Fields
  BY DEF FileInv, RequestInv, RequestOK
<1>3. CASE push' = Answer(p, 403) \/ push' = Answer(p, 404)
  <2>1. push'[p].pc = "done" /\ \A r \in Push : r # p => push'[r] = push[r]
    BY <1>2, <1>3 DEF Answer, Fields, FileInv, RequestInv
  <2> QED
    BY <1>1, <2>1, NothingWritten
<1>4. CASE push' = [q \in Push |-> IF q = p THEN k2
                                  ELSE IF q \in others THEN [push[q] EXCEPT !.alone = FALSE]
                                  ELSE push[q]]
  <2>1. /\ k2.pc = "next" /\ k2.i = 1 /\ k2.alone = (others = {}) /\ k2.before = dir[k.node][k.sb]
        /\ k2.node = k.node /\ k2.sb = k.sb /\ k2.body = k.body
    <3> HIDE DEF others
    <3> QED
      BY <1>2 DEF Fields
  <2>2. push'[p] = k2
    BY <1>4
  <2>3. \A r \in Push : r # p =>
          /\ push'[r].pc = push[r].pc /\ push'[r].node = push[r].node /\ push'[r].sb = push[r].sb
          /\ (r \in others /\ ~push'[r].alone) \/ (r \notin others /\ push'[r] = push[r])
    <3> HIDE DEF others, k2
    <3> QED
      BY <1>2, <1>4 DEF Fields
  <2>4. \A r \in Push : (r # p /\ push[r].pc \in {"next", "data"}
                            /\ push[r].node = k.node /\ push[r].sb = k.sb) => r \in others
    BY DEF Working
  <2> HIDE DEF k2, others
  <2>5. Carries(p)
    <3> SUFFICES ASSUME others = {}
                 PROVE  /\ \A r \in Push : r # p /\ push'[r].pc \in {"next", "data"}
                             => ~(push'[r].node = push'[p].node /\ push'[r].sb = push'[p].sb)
                        /\ Progress(p, push'[p], dir'[push'[p].node][push'[p].sb])
      BY <2>1, <2>2 DEF Carries
    <3>1. \A r \in Push : r # p /\ push'[r].pc \in {"next", "data"}
                             => ~(push'[r].node = push'[p].node /\ push'[r].sb = push'[p].sb)
      BY <2>1, <2>2, <2>3, <2>4
    <3>2. k2.i - 1 = 0
      BY <2>1
    <3>3. \A q \in Path : Outcome(p, k2.body.files, k2.i - 1, q, k2.before[q], dir[k.node][k.sb][q])
      BY <2>1, <3>2, OutcomeFirst
    <3>4. Progress(p, k2, dir[k.node][k.sb])
      BY <2>1, <3>3 DEF Progress
    <3> QED
      BY <1>1, <2>1, <2>2, <3>1, <3>4
  <2>6. ASSUME NEW r \in Push, r # p PROVE Carries(r)
    <3> SUFFICES ASSUME faults' = 0, push'[r].pc \in {"next", "data"}, push'[r].alone
                 PROVE  /\ \A t \in Push : t # r /\ push'[t].pc \in {"next", "data"}
                             => ~(push'[t].node = push'[r].node /\ push'[t].sb = push'[r].sb)
                        /\ Progress(r, push'[r], dir'[push'[r].node][push'[r].sb])
      BY DEF Carries
    <3>1. push'[r] = push[r] /\ r \notin others /\ push[r].pc \in {"next", "data"} /\ push[r].alone
      BY <2>3, <2>6
    <3>2. Apart(r) /\ Progress(r, push[r], dir[push[r].node][push[r].sb])
      BY <1>1, <3>1 DEF AloneInv
    <3>3. ~(push[r].node = k.node /\ push[r].sb = k.sb)
      BY <2>4, <2>6, <3>1
    <3>4. ASSUME NEW t \in Push, t # r, push'[t].pc \in {"next", "data"}
          PROVE  ~(push'[t].node = push'[r].node /\ push'[t].sb = push'[r].sb)
      <4>1. CASE t = p
        BY <2>1, <2>2, <3>1, <3>3, <4>1
      <4>2. CASE t # p
        BY <2>3, <3>1, <3>2, <3>4, <4>2 DEF Apart
      <4> QED
        BY <4>1, <4>2
    <3> QED
      BY <1>1, <3>1, <3>2, <3>4
  <2>7. \A r \in Push : Carries(r)
    BY <2>5, <2>6
  <2> QED
    BY <2>7, CarriesOn
<1> QED
  BY <1>3, <1>4 DEF Receive

LEMMA RejectAlone ==
    ASSUME FileInv, AloneInv, NEW p \in Push, Reject(p)
    PROVE  AloneInv'
<1> DEFINE k == Failed(push[p])
<1>1. AtEntry(p) /\ dir' = dir /\ faults' = faults /\ Current(p).path \notin ValidPath
  BY DEF Reject
<1>2. push'[p] = k /\ OthersGoOn(p) /\ ElsewhereSame(p)
  BY <1>1 DEF Reject, FileInv, RequestInv, OthersGoOn, ElsewhereSame
<1>3. push[p].pc = "next"
  BY <1>1 DEF AtEntry, At
<1>4. /\ k.pc = "next" /\ k.i = push[p].i + 1 /\ k.body = push[p].body
      /\ k.before = push[p].before /\ k.node = push[p].node /\ k.sb = push[p].sb
      /\ k.alone = push[p].alone
  BY CountFields
<1> HIDE DEF k
<1>5. ASSUME Progress(p, push[p], dir[push[p].node][push[p].sb])
      PROVE  Progress(p, k, dir'[push[p].node][push[p].sb])
  <2>1. \A q \in Path : Outcome(p, push[p].body.files, push[p].i - 1, q, push[p].before[q],
                                dir[push[p].node][push[p].sb][q])
    BY <1>3, <1>5 DEF Progress
  <2> QED
    BY <1>1, <1>4, <2>1, SkipsEntry
<1> QED
  BY <1>1, <1>2, <1>3, <1>4, <1>5, OthersApart

LEMMA RemoveAlone ==
    ASSUME FileInv, AloneInv, NEW p \in Push, RemoveFile(p)
    PROVE  AloneInv'
<1> DEFINE SameFile(q) == /\ At(q, "data") /\ push[q].node = push[p].node
                          /\ push[q].sb = push[p].sb /\ Current(q).path = Current(p).path
           d == dir[push[p].node][push[p].sb]
<1>1. /\ AtEntry(p) /\ faults' = faults
      /\ Current(p).path \in ValidPath /\ Current(p).delete
  BY DEF RemoveFile
<1>2. push[p].pc = "next"
  BY <1>1 DEF AtEntry, At
<1>3. Progress(p, push[p], d) =>
        \A q \in Path : Outcome(p, push[p].body.files, push[p].i - 1, q, push[p].before[q], d[q])
  BY <1>2 DEF Progress
<1>4. CASE push' = [push EXCEPT ![p] = Failed(@)] /\ UNCHANGED dir /\ FileAt(p) = None
  <2> DEFINE k == Failed(push[p])
  <2>1. push'[p] = k /\ OthersGoOn(p) /\ ElsewhereSame(p)
    BY <1>4 DEF FileInv, RequestInv, OthersGoOn, ElsewhereSame
  <2>2. /\ k.pc = "next" /\ k.i = push[p].i + 1 /\ k.body = push[p].body
        /\ k.before = push[p].before /\ k.node = push[p].node /\ k.sb = push[p].sb
        /\ k.alone = push[p].alone
    BY CountFields
  <2> HIDE DEF k
  <2>3. d[Current(p).path] = None
    BY <1>4 DEF FileAt
  <2>4. Progress(p, push[p], d) => Progress(p, k, d)
    BY <1>1, <1>3, <2>2, <2>3, SkipsEntry
  <2> QED
    BY <1>1, <1>2, <1>4, <2>1, <2>2, <2>4, OthersApart
<1>5. CASE /\ Put(p, None)
           /\ push' = [q \in Push |-> CASE q = p -> Written(push[p])
                                        [] q # p /\ SameFile(q) -> [push[q] EXCEPT !.fd = FALSE]
                                        [] OTHER -> push[q]]
  <2> DEFINE k == Written(push[p])
             d2 == dir'[push[p].node][push[p].sb]
  <2>1. /\ k.pc = "next" /\ k.i = push[p].i + 1 /\ k.body = push[p].body
        /\ k.before = push[p].before /\ k.node = push[p].node /\ k.sb = push[p].sb
        /\ k.alone = push[p].alone
    BY CountFields
  <2>2. push'[p] = k
    BY <1>5
  <2>3. OthersGoOn(p)
    <3>1. \A r \in Push : DOMAIN push[r] = Fields
      BY DEF FileInv, RequestInv, RequestOK
    <3>2. \A r \in Push : r # p => push'[r] = IF SameFile(r) THEN [push[r] EXCEPT !.fd = FALSE] ELSE push[r]
      <4> HIDE DEF SameFile
      <4> QED
        BY <1>5
    <3>3. \A r \in Push : SameFile(r) => push[r].pc = "data" /\ push[r].node = push[p].node /\ push[r].sb = push[p].sb
      BY DEF At
    <3> HIDE DEF SameFile
    <3> QED
      BY <3>1, <3>2, <3>3 DEF Fields, OthersGoOn
  <2> HIDE DEF k, SameFile
  <2>4. \A n \in Node, s \in Sandbox, q \in Path :
          dir'[n][s][q] = IF n = push[p].node /\ s = push[p].sb /\ q = Current(p).path
                          THEN None ELSE dir[n][s][q]
    BY <1>1, <1>5, FileType, PutType
  <2>5. push[p].node \in Node /\ push[p].sb \in Sandbox /\ Current(p).path \in Path
    BY <1>1, EntryType DEF FileInv
  <2>6. d2[Current(p).path] = None /\ \A q \in Path : q # Current(p).path => d2[q] = d[q]
    BY <2>4, <2>5
  <2>7. Progress(p, push[p], d) => Progress(p, k, d2)
    BY <1>1, <1>3, <2>1, <2>6, DoesEntry
  <2>8. ElsewhereSame(p)
    <3>1. \A n \in Node, s \in Sandbox : ~(n = push[p].node /\ s = push[p].sb) => dir'[n][s] = dir[n][s]
      BY <1>5, <2>5 DEF Put, FileInv, TypeOK
    <3> QED
      BY <3>1 DEF FileInv, RequestInv, RequestOK, ElsewhereSame
  <2> QED
    BY <1>1, <1>2, <2>1, <2>2, <2>3, <2>7, <2>8, OthersApart
<1> QED
  BY <1>4, <1>5 DEF RemoveFile

\* What a write of push p leaves in its directory and in the others.
LEMMA PutAlone ==
    ASSUME FileInv, NEW p \in Push, AtEntry(p) \/ At(p, "data"), NEW f \in File, Put(p, f)
    PROVE  /\ ElsewhereSame(p)
           /\ dir'[push[p].node][push[p].sb][Current(p).path] = f
           /\ \A q \in Path : q # Current(p).path =>
                dir'[push[p].node][push[p].sb][q] = dir[push[p].node][push[p].sb][q]
<1>1. push[p].node \in Node /\ push[p].sb \in Sandbox /\ Current(p).path \in Path
  BY EntryType DEF FileInv
<1>2. \A n \in Node, s \in Sandbox : ~(n = push[p].node /\ s = push[p].sb) => dir'[n][s] = dir[n][s]
  BY <1>1 DEF Put, FileInv, TypeOK
<1>3. ElsewhereSame(p)
  BY <1>2 DEF FileInv, RequestInv, RequestOK, ElsewhereSame
<1>4. \A n \in Node, s \in Sandbox, q \in Path :
        dir'[n][s][q] = IF n = push[p].node /\ s = push[p].sb /\ q = Current(p).path
                        THEN f ELSE dir[n][s][q]
  BY PutType
<1> QED
  BY <1>1, <1>3, <1>4

LEMMA OpenAlone ==
    ASSUME FileInv, AloneInv, NEW p \in Push, Open(p)
    PROVE  AloneInv'
<1> DEFINE k == [push[p] EXCEPT !.pc = "data", !.fd = TRUE]
           d == dir[push[p].node][push[p].sb]
           d2 == dir'[push[p].node][push[p].sb]
<1>1. /\ AtEntry(p) /\ faults' = faults /\ Put(p, [is |-> "partial"])
      /\ Current(p).path \in ValidPath /\ ~Current(p).delete
  BY DEF Open
<1>2. push[p].pc = "next"
  BY <1>1 DEF AtEntry, At
<1>3. DOMAIN push[p] = Fields
  BY DEF FileInv, RequestInv, RequestOK
<1>4. /\ k.pc = "data" /\ k.fd /\ k.i = push[p].i /\ k.body = push[p].body
      /\ k.before = push[p].before /\ k.node = push[p].node /\ k.sb = push[p].sb
      /\ k.alone = push[p].alone
  BY <1>3 DEF Fields
<1>5. push'[p] = k /\ OthersGoOn(p)
  BY DEF Open, FileInv, RequestInv, OthersGoOn
<1> HIDE DEF k
<1>6. /\ ElsewhereSame(p) /\ d2[Current(p).path] = [is |-> "partial"]
      /\ \A q \in Path : q # Current(p).path => d2[q] = d[q]
  BY <1>1, FileType, PutAlone
<1>7. ASSUME Progress(p, push[p], d) PROVE Progress(p, k, d2)
  <2>1. Current(p) = k.body.files[k.i]
    BY <1>4 DEF Current, Files
  <2>2. \A q \in Path : Outcome(p, push[p].body.files, push[p].i - 1, q, push[p].before[q], d[q])
    BY <1>2, <1>7 DEF Progress
  <2>3. \A q \in Path : q # Current(p).path =>
          Outcome(p, k.body.files, k.i - 1, q, k.before[q], d2[q])
    BY <1>4, <1>6, <2>2
  <2>4. d2[k.body.files[k.i].path].is = "partial"
    <3>1. d2[k.body.files[k.i].path] = [is |-> "partial"]
      BY <1>6, <2>1, Zenon
    <3>2. [is |-> "partial"].is = "partial"
      OBVIOUS
    <3> QED
      BY <3>1, <3>2, Zenon
  <2> QED
    BY <1>1, <1>4, <2>1, <2>3, <2>4 DEF Progress
<1> QED
  BY <1>1, <1>2, <1>4, <1>5, <1>6, <1>7, OthersApart

\* The data goes into the file that the push itself has truncated: it is whole.
LEMMA DataAlone ==
    ASSUME FileInv, AloneInv, NEW p \in Push, Data(p)
    PROVE  AloneInv'
<1> DEFINE k == Written(push[p])
           d == dir[push[p].node][push[p].sb]
           d2 == dir'[push[p].node][push[p].sb]
<1>1. At(p, "data") /\ faults' = faults /\ push[p].pc = "data"
  BY DEF Data, At
<1>2. push'[p] = k /\ OthersGoOn(p)
  BY DEF Data, FileInv, RequestInv, OthersGoOn
<1>3. /\ k.pc = "next" /\ k.i = push[p].i + 1 /\ k.body = push[p].body
      /\ k.before = push[p].before /\ k.node = push[p].node /\ k.sb = push[p].sb
      /\ k.alone = push[p].alone
  BY CountFields
<1> HIDE DEF k
<1>4. Current(p) = push[p].body.files[push[p].i] /\ Current(p).long \in BOOLEAN
  BY <1>1, EntryType DEF FileInv, Current, Files
<1>5. ElsewhereSame(p)
  <2>1. CASE ~push[p].fd
    BY <2>1 DEF Data, ElsewhereSame
  <2>2. CASE push[p].fd
    <3>1. PICK f \in File : Put(p, f)
      BY <1>4, <2>2, FileType DEF Data
    <3> QED
      BY <1>1, <3>1, PutAlone
  <2> QED
    BY <2>1, <2>2
<1>6. ASSUME Progress(p, push[p], d) PROVE Progress(p, k, d2)
  <2>1. /\ push[p].fd /\ Current(p).path \in ValidPath /\ ~Current(p).delete
        /\ d[Current(p).path].is = "partial"
        /\ \A q \in Path : q # Current(p).path =>
             Outcome(p, push[p].body.files, push[p].i - 1, q, push[p].before[q], d[q])
    BY <1>1, <1>4, <1>6 DEF Progress
  <2>2. ~Longer(FileAt(p), Current(p).long)
    <3>1. FileAt(p).is = "partial"
      BY <2>1 DEF FileAt
    <3> QED
      BY <3>1 DEF Longer
  <2>3. Put(p, Whole(p, Current(p).long)) /\ Whole(p, Current(p).long) \in File
    BY <1>4, <2>1, <2>2, FileType DEF Data
  <2>4. /\ d2[Current(p).path] = Whole(p, Current(p).long)
        /\ \A q \in Path : q # Current(p).path => d2[q] = d[q]
    BY <1>1, <2>3, PutAlone
  <2>5. \A q \in Path : q # Current(p).path =>
             Outcome(p, push[p].body.files, push[p].i - 1, q, push[p].before[q], d2[q])
    BY <2>1, <2>4
  <2> QED
    BY <1>1, <1>3, <2>1, <2>4, <2>5, DoesEntry
<1> QED
  BY <1>1, <1>2, <1>3, <1>5, <1>6, OthersApart

\* A fault ends what AloneInv says.
LEMMA FaultAlone ==
    ASSUME FileInv, faults' = faults + 1
    PROVE  AloneInv'
<1>1. faults \in Nat
  BY FaultType, FilePushAssumption
<1> QED
  BY <1>1 DEF AloneInv

\* A request that is sent, expires or is answered.
LEMMA NotAtWork ==
    ASSUME FileInv, AloneInv, NEW p \in Push,
           \/ \E s \in Sandbox, b \in Body : Redirect(p, s, b)
           \/ UrlExpires(p) \/ Respond(p)
    PROVE  AloneInv'
<1>1. \A r \in Push : DOMAIN push[r] = Fields
  BY DEF FileInv, RequestInv, RequestOK
<1>2. dir' = dir /\ faults' = faults
  BY DEF Redirect, UrlExpires, Respond
<1>3. \A r \in Push : r # p => push'[r] = push[r]
  BY DEF FileInv, RequestInv, Redirect, UrlExpires, Respond, Answer
<1>4. push'[p].pc \notin {"next", "data"}
  <2>1. CASE \E s \in Sandbox, b \in Body : Redirect(p, s, b)
    BY <2>1 DEF FileInv, RequestInv, Redirect, Unsent
  <2>2. CASE UrlExpires(p)
    BY <1>1, <2>2 DEF FileInv, RequestInv, UrlExpires, At, Fields
  <2>3. CASE Respond(p)
    BY <1>1, <2>3 DEF FileInv, RequestInv, Respond, Answer, Fields
  <2> QED
    BY <2>1, <2>2, <2>3
<1> QED
  BY <1>2, <1>3, <1>4, NothingWritten

LEMMA AgentRestartsAlone ==
    ASSUME FileInv, AloneInv, NEW n \in Node, AgentRestarts(n)
    PROVE  AloneInv'
<1>1. \A r \in Push : DOMAIN push[r] = Fields
  BY DEF FileInv, RequestInv, RequestOK
<1>2. \A r \in Push : push'[r] = push[r] \/ push'[r].pc \notin {"next", "data"}
  BY <1>1 DEF AgentRestarts, Fields
<1> QED
  BY <1>2, NothingWritten DEF AgentRestarts

LEMMA AloneStep ==
    ASSUME FileInv, AloneInv, [Next]_vars
    PROVE  AloneInv'
<1>1. CASE \E p \in Push : \/ \E s \in Sandbox, b \in Body : Redirect(p, s, b)
                          \/ UrlExpires(p) \/ Receive(p) \/ Write(p)
                          \/ EntryFails(p) \/ DataFails(p) \/ TarBreaks(p)
  <2>1. PICK p \in Push : \/ \E s \in Sandbox, b \in Body : Redirect(p, s, b)
                          \/ UrlExpires(p) \/ Receive(p) \/ Write(p)
                          \/ EntryFails(p) \/ DataFails(p) \/ TarBreaks(p)
    BY <1>1
  <2>2. CASE EntryFails(p) \/ DataFails(p) \/ TarBreaks(p)
    BY <2>2, FaultAlone DEF EntryFails, DataFails, TarBreaks
  <2>3. CASE Write(p)
    BY <2>3, RejectAlone, RemoveAlone, OpenAlone, DataAlone, NotAtWork DEF Write
  <2> QED
    BY <2>1, <2>2, <2>3, NotAtWork, ReceiveAlone
<1>2. CASE \/ \E s \in Sandbox : Started(s)
           \/ \E s \in Sandbox, n \in Node : Placed(s, n) \/ Stopped(n, s) \/ Moved(s, n)
           \/ UNCHANGED vars
  <2>1. UNCHANGED <<dir, push, faults>>
    BY <1>2 DEF Started, Placed, Stopped, Moved, vars
  <2> QED
    BY <2>1, NothingWritten
<1>3. CASE \E n \in Node : AgentRestarts(n)
  BY <1>3, AgentRestartsAlone
<1> QED
  BY <1>1, <1>2, <1>3 DEF Next

LEMMA AloneInvariant == Spec => [](FileInv /\ AloneInv)
<1>1. Init => AloneInv
  BY DEF Init, AloneInv, Unsent
<1> QED
  BY <1>1, InitInv, FileStep, AloneStep, PTL DEF Spec

\* Only Respond answers 200.
LEMMA OnlyRespond ==
    ASSUME FileInv, Next, NEW p \in Push, push[p].pc # "done", push'[p].status = 200
    PROVE  Respond(p)
<1>1. \A r \in Push : DOMAIN push[r] = Fields
  BY DEF FileInv, RequestInv, RequestOK
<1>2. push[p].status # 200
  BY DEF FileInv, RequestInv, RequestOK
<1>3. push'[p].status # push[p].status
  BY <1>2
<1>5. ASSUME NEW r \in Push, NEW s \in Sandbox, NEW b \in Body, Redirect(r, s, b) PROVE FALSE
  BY <1>3, <1>5 DEF Redirect, FileInv, RequestInv, Unsent
<1>6. ASSUME NEW r \in Push, UrlExpires(r) \/ Open(r) PROVE FALSE
  BY <1>1, <1>3, <1>6 DEF UrlExpires, Open, FileInv, RequestInv, Fields
<1>4. ASSUME NEW r \in Push PROVE Failed(push[r]).status = push[r].status /\ Written(push[r]).status = push[r].status
  BY <1>1 DEF Written, Failed, Fields
<1>13. ASSUME NEW r \in Push, Reject(r) \/ Data(r) \/ EntryFails(r) \/ DataFails(r) PROVE FALSE
  BY <1>3, <1>4, <1>13 DEF Reject, Data, EntryFails, DataFails, FileInv, RequestInv
<1>7. ASSUME NEW r \in Push, RemoveFile(r) PROVE FALSE
  <2>1. \A q \in Push : [push[q] EXCEPT !.fd = FALSE].status = push[q].status
    BY <1>1 DEF Fields
  <2> DEFINE SameFile(q) == /\ At(q, "data") /\ push[q].node = push[r].node
                            /\ push[q].sb = push[r].sb /\ Current(q).path = Current(r).path
  <2>2. \/ push' = [push EXCEPT ![r] = Failed(@)]
        \/ push' = [q \in Push |-> CASE q = r -> Written(push[r])
                                     [] q # r /\ SameFile(q) -> [push[q] EXCEPT !.fd = FALSE]
                                     [] OTHER -> push[q]]
    BY <1>7 DEF RemoveFile
  <2> HIDE DEF SameFile
  <2>3. CASE push' = [push EXCEPT ![r] = Failed(@)]
    BY <1>3, <1>4, <2>3 DEF FileInv, RequestInv
  <2>4. CASE push' = [q \in Push |-> CASE q = r -> Written(push[r])
                                      [] q # r /\ SameFile(q) -> [push[q] EXCEPT !.fd = FALSE]
                                      [] OTHER -> push[q]]
    BY <1>3, <1>4, <2>1, <2>4
  <2> QED
    BY <2>2, <2>3, <2>4
<1>8. ASSUME NEW r \in Push, Receive(r) PROVE FALSE
  <2> DEFINE k == push[r]
             others == {q \in Push \ {r} : Working(q) /\ push[q].node = k.node /\ push[q].sb = k.sb}
             k2 == [k EXCEPT !.pc = "next", !.i = 1, !.alone = (others = {}),
                             !.before = dir[k.node][k.sb]]
  <2>1. CASE push' = Answer(r, 403) \/ push' = Answer(r, 404)
    BY <1>1, <1>3, <2>1 DEF FileInv, RequestInv, Answer, Fields
  <2>2. CASE push' = [q \in Push |-> IF q = r THEN k2
                                     ELSE IF q \in others THEN [push[q] EXCEPT !.alone = FALSE]
                                     ELSE push[q]]
    <3> HIDE DEF others
    <3>1. k2.status = k.status /\ \A q \in Push : [push[q] EXCEPT !.alone = FALSE].status = push[q].status
      BY <1>1 DEF Fields
    <3> HIDE DEF k2
    <3> QED
      BY <1>3, <2>2, <3>1
  <2> QED
    BY <1>8, <2>1, <2>2 DEF Receive
<1>9. ASSUME NEW r \in Push, TarBreaks(r) PROVE FALSE
  BY <1>1, <1>3, <1>9 DEF TarBreaks, FileInv, RequestInv, Answer, Fields
<1>10. ASSUME NEW r \in Push, Respond(r), r # p PROVE FALSE
  BY <1>3, <1>10 DEF Respond, FileInv, RequestInv, Answer
<1>11. ASSUME NEW n \in Node, AgentRestarts(n) PROVE FALSE
  BY <1>1, <1>3, <1>11 DEF AgentRestarts, Fields
<1>12. ASSUME UNCHANGED push PROVE FALSE
  BY <1>3, <1>12
<1> QED
  BY <1>5, <1>6, <1>7, <1>8, <1>9, <1>10, <1>11, <1>12, <1>13
     DEF Next, Write, Started, Placed, Stopped, Moved

\* WriteFiles and WriteTar: for any body, any paths and any number of sandboxes,
\* nodes and requests, a push that no other one overlapped and that met no failing
\* file operation answers 200 over a directory in which each file is what the last
\* of its entries that names it says, and the others are as they were.
THEOREM PushesApply == Spec => PushApplies
<1>1. ASSUME FileInv, AloneInv, [Next]_vars, NEW p \in Push, ~At(p, "done"),
             push'[p].status = 200, push[p].alone, faults = 0
      PROVE  \A q \in Path : Outcome(p, push[p].body.files, Len(push[p].body.files), q,
                                     push[p].before[q], dir[push[p].node][push[p].sb][q])
  <2>1. Respond(p)
    <3>1. push[p].status # 200 /\ push[p].pc # "done"
      BY <1>1 DEF FileInv, RequestInv, RequestOK, At
    <3>2. Next
      BY <1>1, <3>1 DEF vars
    <3> QED
      BY <1>1, <3>1, <3>2, OnlyRespond
  <2>2. push[p].pc = "next" /\ push[p].i > Len(push[p].body.files)
    BY <2>1 DEF Respond, At, Files
  <2>3. push[p].i - 1 = Len(push[p].body.files)
    <3>1. push[p].i \in 0..Len(push[p].body.files) + 1 /\ Len(push[p].body.files) \in Nat
      BY <1>1, BodyType DEF FileInv, RequestInv, RequestOK
    <3> QED
      BY <2>2, <3>1
  <2>4. Progress(p, push[p], dir[push[p].node][push[p].sb])
    BY <1>1, <2>2 DEF AloneInv
  <2> QED
    BY <2>2, <2>3, <2>4 DEF Progress
<1>2. FileInv /\ AloneInv /\ [Next]_vars =>
        [\A p \in Push : LET k == push[p] IN
           (~At(p, "done") /\ push'[p].status = 200 /\ k.alone /\ faults = 0)
               => \A q \in Path : Outcome(p, k.body.files, Len(k.body.files), q,
                                          k.before[q], dir[k.node][k.sb][q])]_vars
  BY <1>1
<1> QED
  BY <1>2, AloneInvariant, PTL DEF Spec, PushApplies
=============================================================================
