----------------------------- MODULE NetServer -----------------------------
(***************************************************************************)
(* The event loop of src/net/server.cpp with the links it serves and the   *)
(* two worker pools it hands requests to.                                  *)
(*                                                                         *)
(* The main thread repeats: move ready_list_2 to ready_list; epoll_wait;   *)
(* handle the events one by one (accept, results of the pools, input);     *)
(* handle the links of ready_list one by one (drop, decode a request,      *)
(* execute it or queue it to a pool).  The worker threads take jobs, run   *)
(* the handler, append the response to the output of the link (the readers *)
(* also write it to the socket) and hand the job back.                     *)
(*                                                                         *)
(* A Link is passed by pointer between the ready lists, the jobs and the   *)
(* epoll registry, and deleted in four places; nothing but the order of    *)
(* the steps keeps two of them from using it at once or after its end.     *)
(*                                                                         *)
(* Data is abstracted to counts.  A request is Parts consecutive units of  *)
(* a connection's input stream, a response one unit of its output stream.  *)
(* What a request asks for is chosen when it is decoded.                   *)
(***************************************************************************)
EXTENDS Fdevents, ProcMap, Sequences, FiniteSets

CONSTANTS Readers, Writers,  \* the worker threads of the two pools
          Parts,             \* units of a request
          MaxRequests,       \* bound: requests a client sends
          SendBuf            \* responses the kernel buffers for a client

ASSUME ServerAssumption ==
    /\ Fds \subseteq Nat \ {0} /\ NoConn \notin Conns
    /\ Parts \in Nat \ {0} /\ MaxRequests \in Nat /\ SendBuf \in Nat \ {0}

Pools == {"reader", "writer"}
Workers == Readers \cup Writers
PoolOf(w) == IF w \in Writers THEN "writer" ELSE "reader"

VARIABLES
    \* the clients and the kernel
    peer,      \* "new", "pending" (in the backlog), "accepted" or "closed"
    sent,      \* units the client has sent
    garbage,   \* the unit from which on the stream is malformed, or 0
    consumed,  \* responses the client has read
    \* the links
    fd,        \* the descriptor of a live link, or 0
    error,     \* Link::error_
    received,  \* units read into the input buffer
    parsed,    \* requests decoded from it
    stream,    \* history: the responses appended to the output buffer
    written,   \* how many of them went to the kernel
    \* the main thread
    phase,     \* "wait", "events", "ready", or "del" after a job was queued
    events,    \* Fdevents::ready_events still to handle
    ready, ready2,   \* ready_list and ready_list_2
    current,   \* the link being handled in phase "del"
    fde,       \* Fdevents
    link_count,
    \* the pools
    jobs, results,   \* of each pool
    running    \* what each worker holds

clientVars == <<peer, sent, garbage, consumed>>
linkVars == <<fd, error, received, parsed, stream, written>>
loopVars == <<phase, events, ready, ready2, current, fde, link_count>>
poolVars == <<jobs, results, running>>
vars == <<clientVars, linkVars, loopVars, poolVars>>

NoJob == [state |-> "none"]

(* A ProcJob: the request and the link it came from, what its command is,   *)
(* and the result the worker sets.                                          *)
Jobs == [state : {"taken", "done"}, link : Conns, req : 1..MaxRequests,
        flags : CommandFlags, result : {"ok", "error"}]

Alive(c) == fd[c] # 0

Init ==
    /\ peer = [c \in Conns |-> "new"]
    /\ sent = [c \in Conns |-> 0]
    /\ garbage = [c \in Conns |-> 0]
    /\ consumed = [c \in Conns |-> 0]
    /\ fd = [c \in Conns |-> 0]
    /\ error = [c \in Conns |-> FALSE]
    /\ received = [c \in Conns |-> 0]
    /\ parsed = [c \in Conns |-> 0]
    /\ stream = [c \in Conns |-> <<>>]
    /\ written = [c \in Conns |-> 0]
    /\ phase = "wait"
    /\ events = {}
    /\ ready = <<>> /\ ready2 = <<>>
    /\ current = NoConn
    /\ fde = NoEvents
    /\ link_count = 0
    /\ jobs = [p \in Pools |-> <<>>]
    /\ results = [p \in Pools |-> <<>>]
    /\ running = [w \in Workers |-> NoJob]

-----------------------------------------------------------------------------
(* The clients and the kernel.                                              *)

Connect(c) ==
    /\ peer[c] = "new"
    /\ peer' = [peer EXCEPT ![c] = "pending"]
    /\ UNCHANGED <<sent, garbage, consumed, linkVars, loopVars, poolVars>>

Send(c) ==
    /\ peer[c] = "accepted"
    /\ garbage[c] = 0
    /\ sent[c] < Parts * MaxRequests
    /\ sent' = [sent EXCEPT ![c] = @ + 1]
    /\ UNCHANGED <<peer, garbage, consumed, linkVars, loopVars, poolVars>>

(* Something that is no request, after a whole number of requests.          *)
SendGarbage(c) ==
    /\ peer[c] = "accepted"
    /\ garbage[c] = 0
    /\ sent[c] % Parts = 0
    /\ sent[c] < Parts * MaxRequests
    /\ sent' = [sent EXCEPT ![c] = @ + 1]
    /\ garbage' = [garbage EXCEPT ![c] = sent[c] + 1]
    /\ UNCHANGED <<peer, consumed, linkVars, loopVars, poolVars>>

Consume(c) ==
    /\ peer[c] = "accepted"
    /\ consumed[c] < written[c]
    /\ consumed' = [consumed EXCEPT ![c] = @ + 1]
    /\ UNCHANGED <<peer, sent, garbage, linkVars, loopVars, poolVars>>

Close(c) ==
    /\ peer[c] = "accepted"
    /\ peer' = [peer EXCEPT ![c] = "closed"]
    /\ UNCHANGED <<sent, garbage, consumed, linkVars, loopVars, poolVars>>

Room(c) == SendBuf - (written[c] - consumed[c])

(* What epoll_wait reports of a descriptor, level triggered.                *)
ReadyFlags(f) ==
    {flag \in fde.kernel[f] :
        \E c \in Conns : /\ fd[c] = f
                         /\ \/ peer[c] = "closed"
                            \/ flag = "in" /\ received[c] < sent[c]
                            \/ flag = "out" /\ Room(c) > 0}

Event(kind, f, flags) == [kind |-> kind, fd |-> f, flags |-> flags]

ReadyEvents ==
    {Event("link", f, ReadyFlags(f)) : f \in {g \in Fds : ReadyFlags(g) # {}}}
    \cup {Event("accept", 0, {}) : c \in {d \in Conns : peer[d] = "pending"}}
    \cup {Event(p, 0, {}) : p \in {q \in Pools : results[q] # <<>>}}

-----------------------------------------------------------------------------
(* The parts of a Link the main thread and the workers use.                 *)

(* Link::write writes until the output or the room in the kernel is used    *)
(* up; to a closed connection it may fail.                                  *)
AfterWrite(c, n) ==
    LET pending == n - written[c]
    IN  [written EXCEPT ![c] = @ + IF pending < Room(c) THEN pending ELSE Room(c)]

(* delete link, after fdes->del: its buffers go and its descriptor is free. *)
Deleted(c) == /\ fde' = fde_closed(fde_del(fde, fd[c]), fd[c])
              /\ fd' = [fd EXCEPT ![c] = 0]
              /\ link_count' = link_count - 1

(* Mutant: a failed link is deleted and kept in the ready list.             *)
ProcResult_kept(c, failed, out, n, list) ==
    \/ /\ failed \/ (peer[c] = "closed" /\ written[c] < Len(out))
       /\ Deleted(c)
       /\ list' = Append(list, c)
       /\ UNCHANGED written
    \/ /\ ~failed
       /\ written' = AfterWrite(c, Len(out))
       /\ LET x == IF written'[c] < Len(out) THEN fde_set(fde, fd[c], "out", c) ELSE fde
          IN  IF received[c] = Parts * n
              THEN fde' = fde_set(x, fd[c], "in", c) /\ UNCHANGED list
              ELSE fde' = fde_clr(x, fd[c], "in") /\ list' = Append(list, c)
       /\ UNCHANGED <<fd, link_count>>

(* proc_result for a job of the link c, when its output buffer holds the    *)
(* responses out and n requests are decoded; list is the ready list that    *)
(* gets the link if there is more input.                                    *)
ProcResult(c, failed, out, n, list) ==
    \/ /\ failed \/ (peer[c] = "closed" /\ written[c] < Len(out))
       /\ Deleted(c)
       /\ UNCHANGED <<written, list>>
    \/ /\ ~failed
       /\ written' = AfterWrite(c, Len(out))
       /\ LET x == IF written'[c] < Len(out) THEN fde_set(fde, fd[c], "out", c) ELSE fde
          IN  IF received[c] = Parts * n
              THEN fde' = fde_set(x, fd[c], "in", c) /\ UNCHANGED list
              ELSE fde' = fde_clr(x, fd[c], "in") /\ list' = Append(list, c)
       /\ UNCHANGED <<fd, link_count>>

-----------------------------------------------------------------------------
(* The main thread, phase by phase.                                         *)

(* The lists are swapped, then epoll_wait returns what is ready, perhaps    *)
(* nothing after its timeout.                                               *)
Wait ==
    /\ phase = "wait"
    /\ events' = ReadyEvents
    /\ phase' = "events"
    /\ ready' = ready2 /\ ready2' = <<>>
    /\ UNCHANGED <<current, fde, link_count, clientVars, linkVars, poolVars>>

(* The timer signal interrupts epoll_wait: no events.                       *)
Interrupted ==
    /\ phase = "wait"
    /\ phase' = "events"
    /\ ready' = ready2 /\ ready2' = <<>>
    /\ UNCHANGED <<events, current, fde, link_count, clientVars, linkVars, poolVars>>

Handled(e) == events' = events \ {e}

(* accept_link: the kernel gives out the lowest free descriptor; with none  *)
(* left accept fails and the connection stays in the backlog.               *)
FreeFds == Fds \ {fd[c] : c \in Conns}

accept_link(c) ==
    \E f \in FreeFds :
       /\ \A g \in FreeFds : f <= g
       /\ peer' = [peer EXCEPT ![c] = "accepted"]
       /\ fd' = [fd EXCEPT ![c] = f]
       /\ fde' = fde_set(fde, f, "in", c)
       /\ link_count' = link_count + 1

Accept(e) ==
    /\ e.kind = "accept"
    /\ \E c \in Conns :
          /\ peer[c] = "pending"
          /\ \/ FreeFds = {} /\ UNCHANGED <<peer, fd, fde, link_count>>
             \/ accept_link(c)
    /\ Handled(e)
    /\ UNCHANGED <<sent, garbage, consumed, error, received, parsed, stream, written,
                   phase, ready, ready2, current, poolVars>>

(* A pool's pipe is readable: one result is popped.                         *)
PopResult(e) ==
    /\ e.kind \in Pools
    /\ LET job == Head(results[e.kind])
       IN  ProcResult(job.link, job.result = "error",
                      stream[job.link], parsed[job.link], ready)
    /\ results' = [results EXCEPT ![e.kind] = Tail(@)]
    /\ Handled(e)
    /\ UNCHANGED <<clientVars, error, received, parsed, stream, phase, ready2, current,
                   jobs, running>>

(* Mutant: the link is read on an output event, too.                        *)
ProcRequest_any_event(e) ==
    LET c == fde.data[e.fd]
    IN  /\ e.kind = "link"
        /\ ready' = Append(ready, c)
        /\ \/ \E n \in received[c] + 1 .. sent[c] :
                 /\ received' = [received EXCEPT ![c] = n]
                 /\ UNCHANGED error
           \/ /\ peer[c] = "closed" \/ received[c] = sent[c]
              /\ received' = [received EXCEPT ![c] = sent[c]]
              /\ error' = [error EXCEPT ![c] = TRUE]
        /\ Handled(e)
        /\ UNCHANGED <<clientVars, fd, parsed, stream, written, phase, ready2, current,
                       fde, link_count, poolVars>>

(* proc_request.  Link::read takes what the socket holds, as far as the     *)
(* input buffer has room; it returns 0 or less, and the link is dropped     *)
(* later, when it met the end of the stream or found nothing to read.       *)
ProcRequest(e) ==
    LET c == fde.data[e.fd]
    IN  /\ e.kind = "link"
        /\ IF "in" \notin e.flags
           THEN UNCHANGED <<ready, error, received>>
           ELSE /\ ready' = Append(ready, c)
                /\ \/ \E n \in received[c] + 1 .. sent[c] :
                         /\ received' = [received EXCEPT ![c] = n]
                         /\ UNCHANGED error
                   \/ /\ peer[c] = "closed" \/ received[c] = sent[c]
                      /\ received' = [received EXCEPT ![c] = sent[c]]
                      /\ error' = [error EXCEPT ![c] = TRUE]
        /\ Handled(e)
        /\ UNCHANGED <<clientVars, fd, parsed, stream, written, phase, ready2, current,
                       fde, link_count, poolVars>>

EventsDone ==
    /\ phase = "events" /\ events = {}
    /\ phase' = "ready"
    /\ UNCHANGED <<events, ready, ready2, current, fde, link_count,
                   clientVars, linkVars, poolVars>>

HandleEvent ==
    /\ phase = "events"
    /\ \E e \in events : Accept(e) \/ PopResult(e) \/ ProcRequest(e)

(* The links of ready_list.                                                 *)
Malformed(c) ==
    /\ garbage[c] # 0
    /\ received[c] >= garbage[c]
    /\ garbage[c] = Parts * parsed[c] + 1

(* Mutant: a request is taken for complete as soon as it has begun.         *)
Decodable_too_early(c) == ~Malformed(c) /\ received[c] > Parts * parsed[c]

Decodable(c) == ~Malformed(c) /\ received[c] >= Parts * (parsed[c] + 1)

ReadyDrop ==
    LET c == Head(ready)
    IN  /\ error[c] \/ Malformed(c)
        /\ Deleted(c)
        /\ ready' = Tail(ready)
        /\ UNCHANGED <<clientVars, error, received, parsed, stream, written,
                       phase, events, ready2, current, poolVars>>

(* Mutant: the link is dropped from the list, but not watched.              *)
ReadyWatch_forgets ==
    LET c == Head(ready)
    IN  /\ ~error[c] /\ ~Malformed(c) /\ ~Decodable(c)
        /\ ready' = Tail(ready)
        /\ UNCHANGED <<phase, events, ready2, current, fde, link_count,
                       clientVars, linkVars, poolVars>>

(* Not a whole request yet.                                                 *)
ReadyWatch ==
    LET c == Head(ready)
    IN  /\ ~error[c] /\ ~Malformed(c) /\ ~Decodable(c)
        /\ fde' = fde_set(fde, fd[c], "in", c)
        /\ ready' = Tail(ready)
        /\ UNCHANGED <<phase, events, ready2, current, link_count,
                       clientVars, linkVars, poolVars>>

(* A command with the thread flag: the job is queued, and the events of the *)
(* link are deleted afterwards, when a worker may be at it already.         *)
ReadyThread ==
    LET c == Head(ready)
        Job(flags) == [state |-> "taken", link |-> c, req |-> parsed[c] + 1,
                       flags |-> flags, result |-> "ok"]
    IN  /\ ~error[c] /\ Decodable(c)
        /\ parsed' = [parsed EXCEPT ![c] = @ + 1]
        /\ \E p \in Pools : \E flags \in FlagsOn(p) :
              jobs' = [jobs EXCEPT ![p] = Append(@, Job(flags))]
        /\ phase' = "del"
        /\ current' = c
        /\ ready' = Tail(ready)
        /\ UNCHANGED <<clientVars, fd, error, received, stream, written,
                       events, ready2, fde, link_count, results, running>>

(* Mutant: the link of a queued job stays watched.                          *)
DelAfterPush_watched ==
    /\ phase = "del"
    /\ phase' = "ready"
    /\ current' = NoConn
    /\ UNCHANGED <<events, ready, ready2, fde, link_count, clientVars, linkVars, poolVars>>

DelAfterPush ==
    /\ phase = "del"
    /\ fde' = fde_del(fde, fd[current])
    /\ phase' = "ready"
    /\ current' = NoConn
    /\ UNCHANGED <<events, ready, ready2, link_count, clientVars, linkVars, poolVars>>

(* A command of the main thread, or an unknown one: NetworkServer::proc     *)
(* puts the response in the output buffer and proc_result follows.          *)
ReadyMain ==
    LET c == Head(ready)
        req == parsed[c] + 1
    IN  /\ ~error[c] /\ Decodable(c)
        /\ parsed' = [parsed EXCEPT ![c] = req]
        /\ stream' = [stream EXCEPT ![c] = Append(@, req)]
        /\ ProcResult(c, FALSE, stream'[c], req, ready2)
        /\ ready' = Tail(ready)
        /\ UNCHANGED <<clientVars, error, received, phase, events, current, poolVars>>

HandleReady ==
    /\ phase = "ready" /\ ready # <<>>
    /\ ReadyDrop \/ ReadyWatch \/ ReadyThread \/ ReadyMain

ReadyDone ==
    /\ phase = "ready" /\ ready = <<>>
    /\ phase' = "wait"
    /\ UNCHANGED <<events, ready, ready2, current, fde, link_count,
                   clientVars, linkVars, poolVars>>

Main == \/ Wait
        \/ HandleEvent \/ EventsDone
        \/ HandleReady \/ DelAfterPush \/ ReadyDone

-----------------------------------------------------------------------------
(* The workers: WorkerPool::_run_worker and ProcWorker::proc.               *)

TakeJob(w) ==
    LET p == PoolOf(w)
    IN  /\ running[w] = NoJob
        /\ jobs[p] # <<>>
        /\ running' = [running EXCEPT ![w] = Head(jobs[p])]
        /\ jobs' = [jobs EXCEPT ![p] = Tail(@)]
        /\ UNCHANGED <<results, clientVars, linkVars, loopVars>>

(* The handler, then link->send; a read command also link->write.           *)
RunJob(w) ==
    LET job == running[w]
        c == job.link
        out == Append(stream[c], job.req)
        writes == "read" \in job.flags
    IN  /\ job.state = "taken"
        /\ stream' = [stream EXCEPT ![c] = out]
        /\ \/ /\ writes /\ peer[c] = "closed"
              /\ running' = [running EXCEPT ![w] = [job EXCEPT !.state = "done", !.result = "error"]]
              /\ UNCHANGED written
           \/ /\ running' = [running EXCEPT ![w] = [job EXCEPT !.state = "done"]]
              /\ written' = IF writes THEN AfterWrite(c, Len(out)) ELSE written
        /\ UNCHANGED <<jobs, results, clientVars, fd, error, received, parsed, loopVars>>

PushResult(w) ==
    /\ running[w].state = "done"
    /\ results' = [results EXCEPT ![PoolOf(w)] = Append(@, running[w])]
    /\ running' = [running EXCEPT ![w] = NoJob]
    /\ UNCHANGED <<jobs, clientVars, linkVars, loopVars>>

Worker(w) == TakeJob(w) \/ RunJob(w) \/ PushResult(w)

-----------------------------------------------------------------------------
Client(c) == Connect(c) \/ Send(c) \/ SendGarbage(c) \/ Consume(c) \/ Close(c)

Next == \/ Main \/ Interrupted
        \/ \E w \in Workers : Worker(w)
        \/ \E c \in Conns : Client(c)

Spec == Init /\ [][Next]_vars

(* The main thread and the workers keep running, epoll_wait is not          *)
(* interrupted every time, and a client reads the responses it is sent.     *)
Fairness == /\ WF_vars(Main) /\ SF_vars(Wait)
            /\ \A w \in Workers : WF_vars(Worker(w))
            /\ \A c \in Conns : WF_vars(Consume(c))

FairSpec == Spec /\ Fairness

-----------------------------------------------------------------------------

(* Every variable has a value of its kind; the counts of a link are in      *)
(* order: decoded, read and sent; read by the client, written and produced; *)
(* and link_count counts the live links, whichever way they go.             *)
TypeOK ==
    /\ fd \in [Conns -> Fds \cup {0}]
    /\ \A c \in Conns : /\ Parts * parsed[c] <= received[c]
                        /\ received[c] <= sent[c]
                        /\ consumed[c] <= written[c]
                        /\ written[c] <= Len(stream[c])
                        /\ written[c] - consumed[c] <= SendBuf
    /\ fde \in Registries
    /\ phase \in {"wait", "events", "ready", "del"}
    /\ ready \in Seq(Conns) /\ ready2 \in Seq(Conns)
    /\ jobs \in [Pools -> Seq(Jobs)] /\ results \in [Pools -> Seq(Jobs)]
    /\ running \in [Workers -> Jobs \cup {NoJob}]
    /\ link_count = Cardinality({c \in Conns : Alive(c)})

(* How often a link stands in a list, in the jobs of a queue, in the hands  *)
(* of a worker.                                                             *)
InList(c, list) == Cardinality({i \in DOMAIN list : list[i] = c})
InQueue(c, q) == Cardinality({i \in DOMAIN q : q[i].link = c})
RunBy(c) == {w \in Workers : running[w] # NoJob /\ running[w].link = c}

ReadyHolds(c) == InList(c, ready) + InList(c, ready2)
PoolHolds(c) ==
    InQueue(c, jobs["reader"]) + InQueue(c, jobs["writer"]) + Cardinality(RunBy(c))
    + InQueue(c, results["reader"]) + InQueue(c, results["writer"])

(* No pointer to a deleted link is left: not in a ready list, not in a job  *)
(* of a pool, not in the event registry, so that no step uses one.          *)
NoDanglingLink ==
    /\ \A c \in Conns : ~Alive(c) => ReadyHolds(c) + PoolHolds(c) = 0
    /\ \A f \in Fds : fde.kernel[f] # {} =>
          fde.data[f] # NoConn /\ fd[fde.data[f]] = f
    /\ \A e \in events : e.kind = "link" => fde.kernel[e.fd] # {}

(* A live link has one owner.  It is in one ready list, once, or with one   *)
(* pool, once - then, as soon as the main thread is done with the queueing, *)
(* it has no event registered, so that nobody reads into the input buffer   *)
(* the job points into - or it is with neither, and then its input is       *)
(* watched: it is never forgotten.                                          *)
OneOwner ==
    \A c \in Conns : Alive(c) =>
       /\ ReadyHolds(c) + PoolHolds(c) <= 1
       /\ PoolHolds(c) = 1 /\ current # c => fde.kernel[fd[c]] = {}
       /\ ReadyHolds(c) + PoolHolds(c) = 0 =>
             "in" \in fde.kernel[fd[c]] /\ fde.data[fd[c]] = c

(* Fdevents and the kernel agree, though del gives up on a descriptor the   *)
(* kernel does not know, close tells only the kernel and set trusts its own *)
(* flags: a stale flag would leave the next connection on that descriptor   *)
(* unheard.                                                                 *)
FlagsAgree == fde.flags = fde.kernel

(* A client that pipelines requests gets one response to each, in order,    *)
(* although they run on different threads.                                  *)
ResponsesInOrder ==
    \A c \in Conns :
       /\ \A i \in 1..Len(stream[c]) : stream[c][i] = i
       /\ Len(stream[c]) \in {parsed[c], parsed[c] - 1}

(* The server drops a connection only when the client closed it or sent     *)
(* something that is no request: no event left over from another moment or  *)
(* another owner of the descriptor makes it read nothing and give up.       *)
DroppedForAReason ==
    [][\A c \in Conns : Alive(c) /\ fd'[c] = 0 =>
          peer[c] = "closed" \/ garbage[c] # 0]_vars

(* Every request the client has sent is answered, or its link dropped,      *)
(* whatever it is, in whichever piece it arrived and whatever the others do.*)
EveryRequestIsAnswered ==
    \A c \in Conns : \A n \in 1..MaxRequests :
       sent[c] >= Parts * n /\ Alive(c) ~> Len(stream[c]) >= n \/ ~Alive(c)

(* "output is not empty, so some data was not sent to the client and the    *)
(* write event has to be watched" (server.cpp:287, in Chinese): a response  *)
(* left in the output buffer is sent once the client reads on.              *)
OutputIsFlushed ==
    \A c \in Conns : \A n \in 1..MaxRequests :
       Len(stream[c]) >= n /\ Alive(c) ~> written[c] >= n \/ ~Alive(c)
=============================================================================
