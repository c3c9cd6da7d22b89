-------------------------- MODULE NetServerProofs --------------------------
(***************************************************************************)
(* For any number of connections, descriptors and worker threads: a link   *)
(* has one owner at a time and none after its end, the event registry      *)
(* agrees with the kernel, responses come in the order of their requests,  *)
(* and no connection is dropped without a reason.                          *)
(***************************************************************************)
EXTENDS NetServer, FiniteSetTheorems, TLAPS

(* Who holds a link: the elements of a ready list, the links of a queue of  *)
(* jobs, a worker.                                                          *)
On(list) == {list[i] : i \in DOMAIN list}
LinksOf(q) == {q[i].link : i \in DOMAIN q}
Runs(w, c) == running[w] # NoJob /\ running[w].link = c

InPool(c) == \/ \E p \in Pools : c \in LinksOf(jobs[p]) \/ c \in LinksOf(results[p])
             \/ \E w \in Workers : Runs(w, c)

(* The request of the link is decoded and not yet answered.                 *)
Owed(c) == \/ \E p \in Pools : c \in LinksOf(jobs[p])
           \/ \E w \in Workers : Runs(w, c) /\ running[w].state = "taken"

Distinct(list) == \A i, j \in DOMAIN list : list[i] = list[j] => i = j
DistinctLinks(q) == \A i, j \in DOMAIN q : q[i].link = q[j].link => i = j

Events == [kind : {"link"}, fd : Fds, flags : SUBSET Flags]
          \cup [kind : {"accept"} \cup Pools, fd : {0}, flags : {{}}]

-----------------------------------------------------------------------------
Kinds ==
    /\ peer \in [Conns -> {"new", "pending", "accepted", "closed"}]
    /\ sent \in [Conns -> Nat] /\ garbage \in [Conns -> Nat]
    /\ consumed \in [Conns -> Nat] /\ received \in [Conns -> Nat]
    /\ parsed \in [Conns -> Nat] /\ written \in [Conns -> Nat]
    /\ error \in [Conns -> BOOLEAN]
    /\ stream \in [Conns -> Seq(Nat)]
    /\ fd \in [Conns -> Fds \cup {0}]
    /\ fde \in Registries
    /\ phase \in {"wait", "events", "ready", "del"}
    /\ events \subseteq Events
    /\ current \in Conns \cup {NoConn}
    /\ ready \in Seq(Conns) /\ ready2 \in Seq(Conns)
    /\ jobs \in [Pools -> Seq(Jobs)] /\ results \in [Pools -> Seq(Jobs)]
    /\ running \in [Workers -> Jobs \cup {NoJob}]

Counts ==
    \A c \in Conns : /\ Parts * parsed[c] <= received[c]
                     /\ received[c] <= sent[c]
                     /\ sent[c] <= Parts * MaxRequests
                     /\ consumed[c] <= written[c]
                     /\ written[c] <= Len(stream[c])
                     /\ written[c] - consumed[c] <= SendBuf

LinkCount == /\ IsFiniteSet({c \in Conns : Alive(c)})
             /\ link_count = Cardinality({c \in Conns : Alive(c)})

(* No link is twice in the pools.                                           *)
PoolsDistinct ==
    /\ \A p \in Pools : DistinctLinks(jobs[p]) /\ DistinctLinks(results[p])
    /\ \A p, q \in Pools : LinksOf(jobs[p]) \cap LinksOf(results[q]) = {}
    /\ \A p, q \in Pools : p # q => /\ LinksOf(jobs[p]) \cap LinksOf(jobs[q]) = {}
                                    /\ LinksOf(results[p]) \cap LinksOf(results[q]) = {}
    /\ \A w \in Workers : \A c \in Conns : Runs(w, c) =>
          /\ \A p \in Pools : c \notin LinksOf(jobs[p]) /\ c \notin LinksOf(results[p])
          /\ \A v \in Workers : Runs(v, c) => v = w

(* A job asks for the last request decoded, and is done when its response   *)
(* is in the output.                                                        *)
JobsFit ==
    /\ \A p \in Pools : \A i \in DOMAIN jobs[p] :
          /\ jobs[p][i].state = "taken" /\ jobs[p][i].result = "ok"
          /\ jobs[p][i].req = parsed[jobs[p][i].link]
    /\ \A w \in Workers : running[w].state = "taken" =>
          /\ running[w].req = parsed[running[w].link]
          /\ running[w].result = "ok"
    /\ \A p \in Pools : \A i \in DOMAIN results[p] : results[p][i].state = "done"

Answered ==
    \A c \in Conns : /\ \A i \in 1..Len(stream[c]) : stream[c][i] = i
                     /\ Owed(c) => parsed[c] = Len(stream[c]) + 1
                     /\ ~Owed(c) => parsed[c] = Len(stream[c])

(* Errors come from clients that closed.                                    *)
Reasons ==
    /\ \A c \in Conns : error[c] => peer[c] = "closed"
    /\ \A p \in Pools : \A i \in DOMAIN results[p] :
          results[p][i].result = "error" => peer[results[p][i].link] = "closed"
    /\ \A w \in Workers :
          running[w] # NoJob /\ running[w].result = "error" => peer[running[w].link] = "closed"

Descriptors ==
    /\ \A c, d \in Conns : Alive(c) /\ fd[c] = fd[d] => c = d
    /\ \A c \in Conns : Alive(c) => peer[c] \in {"accepted", "closed"}
    /\ \A c \in Conns : c \in On(ready) \/ c \in On(ready2) \/ InPool(c) => Alive(c)

DataLive ==
    \A f \in Fds : fde.kernel[f] # {} => fde.data[f] \in Conns /\ fd[fde.data[f]] = f

Lists ==
    /\ Distinct(ready) /\ Distinct(ready2)
    /\ \A c \in Conns : /\ ~(c \in On(ready) /\ c \in On(ready2))
                        /\ InPool(c) => c \notin On(ready) /\ c \notin On(ready2)

(* Who is heard: nobody in a pool, not the input of the second ready list,  *)
(* and everybody who is in no list and no pool.                             *)
Heard ==
    \A c \in Conns : Alive(c) =>
       /\ InPool(c) /\ current # c => fde.kernel[fd[c]] = {}
       /\ c \in On(ready2) => "in" \notin fde.kernel[fd[c]]
       /\ ~InPool(c) /\ c \notin On(ready) /\ c \notin On(ready2) => "in" \in fde.kernel[fd[c]]

(* What the events say is still true when their turn comes.                 *)
Fresh ==
    \A e \in events :
       /\ e.kind \in Pools => results[e.kind] # <<>>
       /\ e.kind = "link" =>
             /\ fde.kernel[e.fd] # {}
             /\ \A g \in events : g.kind = "link" /\ g.fd = e.fd => g = e
             /\ "in" \in e.flags =>
                  LET c == fde.data[e.fd]
                  IN  /\ c \notin On(ready) /\ c \notin On(ready2)
                      /\ peer[c] = "closed" \/ received[c] < sent[c]

Phases ==
    /\ phase = "wait" => ready = <<>>
    /\ phase # "events" => events = {}
    /\ IF phase = "del" THEN current \in Conns /\ InPool(current) ELSE current = NoConn

Inv == /\ Kinds /\ Counts /\ LinkCount
       /\ PoolsDistinct /\ JobsFit /\ Answered /\ Reasons
       /\ Descriptors /\ FlagsAgree /\ DataLive /\ Lists /\ Heard /\ Fresh /\ Phases

-----------------------------------------------------------------------------
(* Lists without duplicates.                                                *)
LEMMA AppendOn ==
    ASSUME NEW S, NEW list \in Seq(S), NEW x \in S
    PROVE  /\ On(Append(list, x)) = On(list) \cup {x}
           /\ Distinct(list) /\ x \notin On(list) => Distinct(Append(list, x))
  BY DEF On, Distinct

LEMMA TailOn ==
    ASSUME NEW S, NEW list \in Seq(S), list # <<>>
    PROVE  /\ Head(list) \in On(list) /\ Head(list) \in S
           /\ Distinct(list) => On(Tail(list)) = On(list) \ {Head(list)}
           /\ Distinct(list) => Distinct(Tail(list))
  <1>1. /\ Len(list) \in Nat \ {0} /\ DOMAIN list = 1..Len(list)
        /\ Head(list) = list[1] /\ Head(list) \in S
    OBVIOUS
  <1>2. /\ DOMAIN Tail(list) = 1..(Len(list) - 1)
        /\ \A i \in 1..(Len(list) - 1) : Tail(list)[i] = list[i + 1]
    OBVIOUS
  <1>3. Distinct(list) => Distinct(Tail(list))
    BY <1>1, <1>2 DEF Distinct
  <1>4. ASSUME Distinct(list), NEW x \in On(list) \ {Head(list)}
        PROVE  x \in On(Tail(list))
    <2>1. PICK i \in 1..Len(list) : x = list[i]
      BY <1>1 DEF On
    <2>2. i - 1 \in 1..(Len(list) - 1) /\ (i - 1) + 1 = i
      BY <1>1, <2>1, <1>4
    <2> QED
      BY <1>2, <2>1, <2>2 DEF On
  <1>5. ASSUME Distinct(list), NEW x \in On(Tail(list))
        PROVE  x \in On(list) \ {Head(list)}
    BY <1>1, <1>2, <1>5 DEF On, Distinct
  <1> QED
    BY <1>1, <1>3, <1>4, <1>5 DEF On

LEMMA AppendLinks ==
    ASSUME NEW S, NEW q \in Seq(S), NEW x \in S
    PROVE  /\ LinksOf(Append(q, x)) = LinksOf(q) \cup {x.link}
           /\ DistinctLinks(q) /\ x.link \notin LinksOf(q) => DistinctLinks(Append(q, x))
  BY DEF LinksOf, DistinctLinks

LEMMA TailLinks ==
    ASSUME NEW S, NEW q \in Seq(S), q # <<>>
    PROVE  /\ Head(q).link \in LinksOf(q) /\ Head(q) \in S
           /\ DistinctLinks(q) => LinksOf(Tail(q)) = LinksOf(q) \ {Head(q).link}
           /\ DistinctLinks(q) => DistinctLinks(Tail(q))
  <1>1. /\ Len(q) \in Nat \ {0} /\ DOMAIN q = 1..Len(q)
        /\ Head(q) = q[1] /\ Head(q) \in S
    OBVIOUS
  <1>2. /\ DOMAIN Tail(q) = 1..(Len(q) - 1)
        /\ \A i \in 1..(Len(q) - 1) : Tail(q)[i] = q[i + 1]
    OBVIOUS
  <1>3. DistinctLinks(q) => DistinctLinks(Tail(q))
    BY <1>1, <1>2 DEF DistinctLinks
  <1>4. ASSUME DistinctLinks(q), NEW x \in LinksOf(q) \ {Head(q).link}
        PROVE  x \in LinksOf(Tail(q))
    <2>1. PICK i \in 1..Len(q) : x = q[i].link
      BY <1>1 DEF LinksOf
    <2>2. i - 1 \in 1..(Len(q) - 1) /\ (i - 1) + 1 = i
      BY <1>1, <2>1, <1>4
    <2> QED
      BY <1>2, <2>1, <2>2 DEF LinksOf
  <1>5. ASSUME DistinctLinks(q), NEW x \in LinksOf(Tail(q))
        PROVE  x \in LinksOf(q) \ {Head(q).link}
    BY <1>1, <1>2, <1>5 DEF LinksOf, DistinctLinks
  <1>6. Head(q).link \in LinksOf(q)
    BY <1>1 DEF LinksOf
  <1> QED
    BY <1>1, <1>3, <1>4, <1>5, <1>6

(* The event registry.                                                      *)
LEMMA SetFlag ==
    ASSUME NEW x \in Registries, x.flags = x.kernel,
           NEW f \in Fds, NEW flag \in Flags, NEW c \in Conns
    PROVE  LET y == fde_set(x, f, flag, c)
           IN  /\ y \in Registries /\ y.flags = y.kernel
               /\ y.kernel[f] = x.kernel[f] \cup {flag}
               /\ y.data[f] = c \/ (x.kernel[f] # {} /\ y.data[f] = x.data[f])
               /\ \A g \in Fds \ {f} : y.kernel[g] = x.kernel[g] /\ y.data[g] = x.data[g]
  BY DEF fde_set, ctl_add, ctl_mod, Registries, Flags

LEMMA ClearFlag ==
    ASSUME NEW x \in Registries, x.flags = x.kernel,
           NEW f \in Fds, NEW flag \in Flags
    PROVE  LET y == fde_clr(x, f, flag)
           IN  /\ y \in Registries /\ y.flags = y.kernel
               /\ y.kernel[f] = x.kernel[f] \ {flag}
               /\ y.data = x.data
               /\ \A g \in Fds \ {f} : y.kernel[g] = x.kernel[g]
  BY DEF fde_clr, ctl_mod, Registries, Flags

LEMMA DeleteFlags ==
    ASSUME NEW x \in Registries, x.flags = x.kernel, NEW f \in Fds
    PROVE  LET y == fde_del(x, f)
           IN  /\ y \in Registries /\ y.flags = y.kernel
               /\ y.kernel[f] = {}
               /\ y.data = x.data
               /\ \A g \in Fds \ {f} : y.kernel[g] = x.kernel[g]
  BY DEF fde_del, Registries, Flags

LEMMA CloseFd ==
    ASSUME NEW x \in Registries, x.flags = x.kernel, NEW f \in Fds
    PROVE  LET y == fde_closed(fde_del(x, f), f)
           IN  /\ y \in Registries /\ y.flags = y.kernel
               /\ y.kernel[f] = {}
               /\ y.data = x.data
               /\ \A g \in Fds \ {f} : y.kernel[g] = x.kernel[g]
  BY DEF fde_closed, fde_del, Registries, Flags
-----------------------------------------------------------------------------
(* The pools.                                                               *)
LEMMA JobFacts ==
    ASSUME NEW job \in Jobs
    PROVE  /\ job # NoJob /\ job.state \in {"taken", "done"} /\ job.link \in Conns
           /\ job.req \in Nat /\ job.result \in {"ok", "error"}
  <1>1. job.state \in {"taken", "done"}
    BY DEF Jobs
  <1>2. NoJob.state = "none"
    BY DEF NoJob
  <1> QED
    BY <1>1, <1>2 DEF Jobs

LEMMA PoolKnown == \A w \in Workers : PoolOf(w) \in Pools
  BY DEF PoolOf, Pools

(* A worker takes the head of a queue.                                      *)
LEMMA TakePools ==
    ASSUME Kinds, PoolsDistinct, JobsFit, NEW w \in Workers, TakeJob(w)
    PROVE  /\ PoolsDistinct' /\ JobsFit'
           /\ jobs' \in [Pools -> Seq(Jobs)] /\ running' \in [Workers -> Jobs \cup {NoJob}]
           /\ \A c \in Conns : (InPool(c)' <=> InPool(c)) /\ (Owed(c)' <=> Owed(c))
  <1> DEFINE p == PoolOf(w)
             job == Head(jobs[p])
  <1>1. p \in Pools /\ jobs[p] \in Seq(Jobs) /\ jobs[p] # <<>> /\ running[w] = NoJob
    BY PoolKnown DEF Kinds, TakeJob
  <1>2. job \in Jobs /\ job.link \in LinksOf(jobs[p]) /\ job.link \in Conns /\ job # NoJob
    BY <1>1, TailLinks, JobFacts
  <1>3. /\ jobs' = [jobs EXCEPT ![p] = Tail(@)]
        /\ running' = [running EXCEPT ![w] = job]
        /\ results' = results /\ parsed' = parsed
    BY DEF TakeJob, linkVars
  <1> HIDE DEF p, job
  <1>4. /\ jobs' \in [Pools -> Seq(Jobs)]
        /\ running' \in [Workers -> Jobs \cup {NoJob}]
    BY <1>1, <1>2, <1>3 DEF Kinds
  <1>5. /\ LinksOf(jobs[p])' = LinksOf(jobs[p]) \ {job.link}
        /\ DistinctLinks(jobs[p])'
    <2>1. jobs'[p] = Tail(jobs[p])
      BY <1>1, <1>3 DEF Kinds
    <2>2. DistinctLinks(jobs[p])
      BY <1>1 DEF PoolsDistinct
    <2>3. /\ LinksOf(Tail(jobs[p])) = LinksOf(jobs[p]) \ {Head(jobs[p]).link}
          /\ DistinctLinks(Tail(jobs[p]))
      BY <1>1, <2>2, TailLinks
    <2> QED
      BY <2>1, <2>3, <1>1 DEF job
  <1>6. \A q \in Pools \ {p} : LinksOf(jobs[q])' = LinksOf(jobs[q]) /\ DistinctLinks(jobs[q])'
    BY <1>3 DEF Kinds, PoolsDistinct
  <1>7. \A v \in Workers, d \in Conns : Runs(v, d)' <=> IF v = w THEN d = job.link ELSE Runs(v, d)
    BY <1>2, <1>3 DEF Runs, Kinds
  <1>8. PoolsDistinct'
    <2>1. \A q \in Pools : DistinctLinks(jobs[q])' /\ DistinctLinks(results[q])'
      BY <1>3, <1>5, <1>6 DEF PoolsDistinct
    <2>2. \A q, r \in Pools : LinksOf(jobs[q])' \cap LinksOf(results[r])' = {}
      BY <1>3, <1>5, <1>6 DEF PoolsDistinct
    <2>3. \A q, r \in Pools : q # r => /\ LinksOf(jobs[q])' \cap LinksOf(jobs[r])' = {}
                                     /\ LinksOf(results[q])' \cap LinksOf(results[r])' = {}
      BY <1>3, <1>5, <1>6 DEF PoolsDistinct
    <2>4. \A q \in Pools : job.link \notin LinksOf(jobs[q])' /\ job.link \notin LinksOf(results[q])'
      BY <1>1, <1>2, <1>3, <1>5, <1>6 DEF PoolsDistinct
    <2>5. \A v \in Workers : ~Runs(v, job.link)
      BY <1>1, <1>2 DEF PoolsDistinct
    <2>6. \A v \in Workers, d \in Conns : Runs(v, d)' =>
             /\ \A q \in Pools : d \notin LinksOf(jobs[q])' /\ d \notin LinksOf(results[q])'
             /\ \A u \in Workers : Runs(u, d)' => u = v
      BY <1>3, <1>5, <1>6, <1>7, <2>4, <2>5 DEF PoolsDistinct
    <2> QED
      BY <2>1, <2>2, <2>3, <2>6 DEF PoolsDistinct
  <1>9. \A i \in DOMAIN jobs[p] : jobs[p][i].state = "taken" /\ jobs[p][i].result = "ok"
                                  /\ jobs[p][i].req = parsed[jobs[p][i].link]
    BY <1>1 DEF JobsFit
  <1>10. job.state = "taken" /\ job.result = "ok" /\ job.req = parsed[job.link]
    BY <1>1, <1>9 DEF job
  <1>11. JobsFit'
    <2>1. \A q \in Pools : \A i \in DOMAIN jobs'[q] :
             /\ jobs'[q][i].state = "taken" /\ jobs'[q][i].result = "ok"
             /\ jobs'[q][i].req = parsed'[jobs'[q][i].link]
      <3>1. jobs'[p] = Tail(jobs[p]) /\ \A q \in Pools \ {p} : jobs'[q] = jobs[q]
        BY <1>1, <1>3 DEF Kinds
      <3>2. \A i \in DOMAIN Tail(jobs[p]) : i + 1 \in DOMAIN jobs[p] /\ Tail(jobs[p])[i] = jobs[p][i + 1]
        BY <1>1
      <3> QED
        BY <1>3, <1>9, <3>1, <3>2 DEF JobsFit
    <2>2. \A v \in Workers : running'[v].state = "taken" =>
             /\ running'[v].req = parsed'[running'[v].link]
             /\ running'[v].result = "ok"
      BY <1>3, <1>10 DEF JobsFit, Kinds
    <2> QED
      BY <2>1, <2>2, <1>3 DEF JobsFit
  <1>12. running'[w] = job /\ \A v \in Workers \ {w} : running'[v] = running[v]
    BY <1>3 DEF Kinds
  <1>13. ASSUME NEW c \in Conns
         PROVE  (InPool(c)' <=> InPool(c)) /\ (Owed(c)' <=> Owed(c))
    <2>1. ~Runs(w, c)
      BY <1>1 DEF Runs
    <2>2. InPool(c)' <=> InPool(c)
      BY <1>1, <1>2, <1>3, <1>5, <1>6, <1>7, <2>1 DEF InPool
    <2>3. Owed(c)' <=> Owed(c)
      BY <1>1, <1>2, <1>5, <1>6, <1>7, <1>10, <1>12, <2>1 DEF Owed
    <2> QED
      BY <2>2, <2>3
  <1> QED
    BY <1>4, <1>8, <1>11, <1>13

(* It runs the job ...                                                      *)
LEMMA RunPools ==
    ASSUME Kinds, PoolsDistinct, JobsFit, NEW w \in Workers, RunJob(w)
    PROVE  /\ PoolsDistinct' /\ JobsFit' /\ running' \in [Workers -> Jobs \cup {NoJob}]
           /\ running[w] \in Jobs /\ running[w].state = "taken" /\ running[w] # NoJob
           /\ Owed(running[w].link)
           /\ \A c \in Conns : /\ InPool(c)' <=> InPool(c)
                               /\ Owed(c)' <=> Owed(c) /\ c # running[w].link
           /\ \A v \in Workers \ {w} : running'[v] = running[v]
           /\ running'[w].link = running[w].link
           /\ running'[w].result = "error" => peer[running[w].link] = "closed"
  <1> DEFINE job == running[w]
  <1>1. job \in Jobs /\ job.state = "taken" /\ job # NoJob /\ job.link \in Conns
    <2>1. job.state = "taken" /\ job \in Jobs \cup {NoJob}
      BY DEF RunJob, Kinds
    <2>2. NoJob.state = "none"
      BY DEF NoJob
    <2> QED
      BY <2>1, <2>2, JobFacts
  <1>2. jobs' = jobs /\ results' = results /\ parsed' = parsed
    BY DEF RunJob
  <1>3. job.result = "ok" /\ job.req = parsed[job.link]
    BY <1>1 DEF JobsFit
  <1>4. PICK new \in {[job EXCEPT !.state = "done", !.result = "error"],
                      [job EXCEPT !.state = "done"]} :
           /\ running' = [running EXCEPT ![w] = new]
           /\ new.result = "error" => peer[job.link] = "closed"
    <2>1. CASE /\ "read" \in job.flags /\ peer[job.link] = "closed"
               /\ running' = [running EXCEPT ![w] =
                                [job EXCEPT !.state = "done", !.result = "error"]]
      BY <2>1
    <2>2. CASE running' = [running EXCEPT ![w] = [job EXCEPT !.state = "done"]]
      <3>1. [job EXCEPT !.state = "done"].result = "ok"
        BY <1>1, <1>3 DEF Jobs
      <3> QED
        BY <2>2, <3>1
    <2> QED
      BY <2>1, <2>2 DEF RunJob
  <1>5. new \in Jobs /\ new # NoJob /\ new.state = "done" /\ new.link = job.link
    <2>1. new \in Jobs /\ new.state = "done" /\ new.link = job.link
      BY <1>1 DEF Jobs
    <2> QED
      BY <2>1, JobFacts
  <1>6. running' \in [Workers -> Jobs \cup {NoJob}]
    BY <1>4, <1>5 DEF Kinds
  <1>7. running'[w] = new /\ \A v \in Workers \ {w} : running'[v] = running[v]
    BY <1>4 DEF Kinds
  <1>8. \A v \in Workers, d \in Conns : Runs(v, d)' <=> Runs(v, d)
    BY <1>1, <1>5, <1>7 DEF Runs
  <1>9. PoolsDistinct'
    BY <1>2, <1>8 DEF PoolsDistinct
  <1>10. JobsFit'
    BY <1>2, <1>5, <1>7 DEF JobsFit
  <1>11. \A c \in Conns : InPool(c)' <=> InPool(c)
    BY <1>2, <1>8 DEF InPool
  <1>12. Runs(w, job.link)
    BY <1>1 DEF Runs
  <1>13. \A q \in Pools : job.link \notin LinksOf(jobs[q])
    BY <1>1, <1>12 DEF PoolsDistinct
  <1>14. \A v \in Workers : Runs(v, job.link) => v = w
    BY <1>1, <1>12 DEF PoolsDistinct
  <1>15. Owed(job.link)
    BY <1>1, <1>12 DEF Owed
  <1>16. ASSUME NEW c \in Conns
         PROVE  Owed(c)' <=> Owed(c) /\ c # job.link
    <2>1. CASE c = job.link
      <3>1. \A v \in Workers : ~(Runs(v, c)' /\ running'[v].state = "taken")
        BY <1>5, <1>7, <1>8, <1>14, <2>1
      <3> QED
        BY <1>2, <1>13, <2>1, <3>1 DEF Owed
    <2>2. CASE c # job.link
      <3>1. ~Runs(w, c)
        BY <2>2 DEF Runs
      <3>2. \A v \in Workers : Runs(v, c)' /\ running'[v].state = "taken"
                               <=> Runs(v, c) /\ running[v].state = "taken"
        BY <1>7, <1>8, <3>1
      <3> QED
        BY <1>2, <2>2, <3>2 DEF Owed
    <2> QED
      BY <2>1, <2>2
  <1> QED
    BY <1>1, <1>4, <1>5, <1>6, <1>7, <1>9, <1>10, <1>11, <1>15, <1>16

(* ... and hands it back.                                                   *)
LEMMA PushPools ==
    ASSUME Kinds, PoolsDistinct, JobsFit, Reasons, NEW w \in Workers, PushResult(w)
    PROVE  /\ PoolsDistinct' /\ JobsFit' /\ Reasons'
           /\ results' \in [Pools -> Seq(Jobs)] /\ running' \in [Workers -> Jobs \cup {NoJob}]
           /\ \A c \in Conns : (InPool(c)' <=> InPool(c)) /\ (Owed(c)' <=> Owed(c))
           /\ \A q \in Pools : results[q] # <<>> => results'[q] # <<>>
  <1> DEFINE p == PoolOf(w)
             job == running[w]
  <1>1. p \in Pools /\ results[p] \in Seq(Jobs)
    BY PoolKnown DEF Kinds
  <1>2. job \in Jobs /\ job.state = "done" /\ job # NoJob /\ job.link \in Conns
    <2>1. job.state = "done" /\ job \in Jobs \cup {NoJob}
      BY DEF PushResult, Kinds
    <2>2. NoJob.state = "none"
      BY DEF NoJob
    <2> QED
      BY <2>1, <2>2, JobFacts
  <1>3. /\ results' = [results EXCEPT ![p] = Append(@, job)]
        /\ running' = [running EXCEPT ![w] = NoJob]
        /\ jobs' = jobs /\ parsed' = parsed /\ peer' = peer /\ error' = error
    BY DEF PushResult, linkVars, clientVars
  <1>r. job.result = "error" => peer[job.link] = "closed"
    BY <1>2 DEF Reasons
  <1> HIDE DEF p
  <1>4. /\ results' \in [Pools -> Seq(Jobs)]
        /\ running' \in [Workers -> Jobs \cup {NoJob}]
    <2> HIDE DEF job
    <2>1. Append(results[p], job) \in Seq(Jobs)
      BY <1>1, <1>2
    <2>2. results' \in [Pools -> Seq(Jobs)]
      BY <1>1, <1>3, <2>1 DEF Kinds
    <2>3. running' \in [Workers -> Jobs \cup {NoJob}]
      BY <1>3 DEF Kinds
    <2> QED
      BY <2>2, <2>3
  <1>5. results'[p] = Append(results[p], job) /\ \A q \in Pools \ {p} : results'[q] = results[q]
    BY <1>1, <1>3 DEF Kinds
  <1>6. running'[w] = NoJob /\ \A v \in Workers \ {w} : running'[v] = running[v]
    BY <1>3 DEF Kinds
  <1>7. Runs(w, job.link)
    BY <1>2 DEF Runs
  <1>8. \A q \in Pools : job.link \notin LinksOf(jobs[q]) /\ job.link \notin LinksOf(results[q])
    BY <1>2, <1>7 DEF PoolsDistinct
  <1>9. \A v \in Workers : Runs(v, job.link) => v = w
    BY <1>2, <1>7 DEF PoolsDistinct
  <1> HIDE DEF job
  <1>10. /\ LinksOf(results[p])' = LinksOf(results[p]) \cup {job.link}
         /\ DistinctLinks(results[p])'
    <2>1. DistinctLinks(results[p])
      BY <1>1 DEF PoolsDistinct
    <2>2. /\ LinksOf(Append(results[p], job)) = LinksOf(results[p]) \cup {job.link}
          /\ DistinctLinks(Append(results[p], job))
      BY <1>1, <1>2, <1>8, <2>1, AppendLinks
    <2> QED
      BY <1>1, <1>5, <2>2
  <1>11. \A q \in Pools \ {p} : /\ LinksOf(results[q])' = LinksOf(results[q])
                                /\ DistinctLinks(results[q])'
    BY <1>3, <1>5 DEF PoolsDistinct
  <1>12. \A v \in Workers, d \in Conns : Runs(v, d)' <=> v # w /\ Runs(v, d)
    BY <1>6 DEF Runs
  <1>13. PoolsDistinct'
    <2>1. \A q \in Pools : DistinctLinks(jobs[q])' /\ DistinctLinks(results[q])'
      BY <1>3, <1>10, <1>11 DEF PoolsDistinct
    <2>2. \A q, r \in Pools : LinksOf(jobs[q])' \cap LinksOf(results[r])' = {}
      BY <1>3, <1>8, <1>10, <1>11 DEF PoolsDistinct
    <2>3. \A q, r \in Pools : q # r => /\ LinksOf(jobs[q])' \cap LinksOf(jobs[r])' = {}
                                     /\ LinksOf(results[q])' \cap LinksOf(results[r])' = {}
      <3>1. ASSUME NEW q \in Pools, NEW r \in Pools, q # r
            PROVE  LinksOf(results[q])' \cap LinksOf(results[r])' = {}
        <4>1. LinksOf(results[q]) \cap LinksOf(results[r]) = {}
          BY <3>1 DEF PoolsDistinct
        <4>2. job.link \notin LinksOf(results[q]) /\ job.link \notin LinksOf(results[r])
          BY <1>8
        <4> QED
          BY <1>10, <1>11, <3>1, <4>1, <4>2
      <3> QED
        BY <1>3, <3>1 DEF PoolsDistinct
    <2>4. \A v \in Workers, d \in Conns : Runs(v, d)' =>
             /\ \A q \in Pools : d \notin LinksOf(jobs[q])' /\ d \notin LinksOf(results[q])'
             /\ \A u \in Workers : Runs(u, d)' => u = v
      BY <1>3, <1>9, <1>10, <1>11, <1>12 DEF PoolsDistinct
    <2> QED
      BY <2>1, <2>2, <2>3, <2>4 DEF PoolsDistinct
  <1>14. JobsFit'
    <2>1. \A q \in Pools : \A i \in DOMAIN results'[q] : results'[q][i].state = "done"
      <3>1. \A i \in DOMAIN Append(results[p], job) :
               Append(results[p], job)[i] = job
               \/ (i \in DOMAIN results[p] /\ Append(results[p], job)[i] = results[p][i])
        BY <1>1, <1>2
      <3>2. \A i \in DOMAIN results[p] : results[p][i].state = "done"
        BY <1>1 DEF JobsFit
      <3>3. \A i \in DOMAIN results'[p] : results'[p][i].state = "done"
        BY <1>2, <1>5, <3>1, <3>2
      <3> QED
        BY <1>5, <3>3 DEF JobsFit
    <2>2. \A v \in Workers : running'[v].state = "taken" => v # w
      BY <1>6 DEF NoJob
    <2> QED
      BY <1>3, <1>6, <2>1, <2>2 DEF JobsFit
  <1>15. Reasons'
    <2>1. \A i \in DOMAIN Append(results[p], job) :
             Append(results[p], job)[i] = job
             \/ (i \in DOMAIN results[p] /\ Append(results[p], job)[i] = results[p][i])
      BY <1>1, <1>2
    <2>2. \A q \in Pools : \A i \in DOMAIN results'[q] :
             results'[q][i].result = "error" => peer[results'[q][i].link] = "closed"
      <3>1. \A i \in DOMAIN results[p] :
               results[p][i].result = "error" => peer[results[p][i].link] = "closed"
        BY <1>1 DEF Reasons
      <3>2. \A i \in DOMAIN results'[p] :
               results'[p][i].result = "error" => peer[results'[p][i].link] = "closed"
        BY <1>r, <1>5, <2>1, <3>1 DEF job
      <3> QED
        BY <1>5, <3>2 DEF Reasons
    <2>3. \A v \in Workers : running'[v] # NoJob /\ running'[v].result = "error" =>
             peer[running'[v].link] = "closed"
      BY <1>6 DEF Reasons
    <2> QED
      BY <1>3, <2>2, <2>3 DEF Reasons
  <1>16. ASSUME NEW c \in Conns
         PROVE  (InPool(c)' <=> InPool(c)) /\ (Owed(c)' <=> Owed(c))
    <2>1. Runs(w, c) => c = job.link
      BY DEF Runs, job
    <2>2. InPool(c)' <=> InPool(c)
      BY <1>1, <1>3, <1>7, <1>10, <1>11, <1>12, <2>1 DEF InPool
    <2>3. \A v \in Workers : Runs(v, c)' /\ running'[v].state = "taken"
                             <=> Runs(v, c) /\ running[v].state = "taken"
      BY <1>2, <1>6, <1>12 DEF job
    <2> QED
      BY <1>3, <2>2, <2>3 DEF Owed
  <1>17. \A q \in Pools : results[q] # <<>> => results'[q] # <<>>
    BY <1>1, <1>2, <1>5
  <1> QED
    BY <1>4, <1>13, <1>14, <1>15, <1>16, <1>17

(* The main thread queues a job for a link that is in no pool ...           *)
LEMMA QueuePools ==
    ASSUME Kinds, PoolsDistinct, JobsFit,
           NEW c \in Conns, ~InPool(c), NEW p \in Pools, NEW job \in Jobs,
           job.link = c, job.state = "taken", job.result = "ok", job.req = parsed[c] + 1,
           parsed' = [parsed EXCEPT ![c] = @ + 1],
           jobs' = [jobs EXCEPT ![p] = Append(@, job)],
           results' = results, running' = running
    PROVE  /\ PoolsDistinct' /\ JobsFit' /\ jobs' \in [Pools -> Seq(Jobs)]
           /\ \A d \in Conns : /\ InPool(d)' <=> InPool(d) \/ d = c
                               /\ Owed(d)' <=> Owed(d) \/ d = c
  <1>1. jobs[p] \in Seq(Jobs)
    BY DEF Kinds
  <1>2. jobs' \in [Pools -> Seq(Jobs)]
    <2>1. Append(jobs[p], job) \in Seq(Jobs)
      BY <1>1
    <2> QED
      BY <2>1 DEF Kinds
  <1>3. jobs'[p] = Append(jobs[p], job) /\ \A q \in Pools \ {p} : jobs'[q] = jobs[q]
    BY DEF Kinds
  <1>4. parsed'[c] = parsed[c] + 1 /\ \A d \in Conns \ {c} : parsed'[d] = parsed[d]
    BY DEF Kinds
  <1>5. /\ \A q \in Pools : c \notin LinksOf(jobs[q]) /\ c \notin LinksOf(results[q])
        /\ \A w \in Workers : ~Runs(w, c)
    BY DEF InPool
  <1>6. LinksOf(jobs[p])' = LinksOf(jobs[p]) \cup {c} /\ DistinctLinks(jobs[p])'
    <2>1. DistinctLinks(jobs[p])
      BY DEF PoolsDistinct
    <2>2. /\ LinksOf(Append(jobs[p], job)) = LinksOf(jobs[p]) \cup {c}
          /\ DistinctLinks(Append(jobs[p], job))
      BY <1>1, <1>5, <2>1, AppendLinks
    <2> QED
      BY <1>3, <2>2
  <1>7. \A q \in Pools \ {p} : LinksOf(jobs[q])' = LinksOf(jobs[q]) /\ DistinctLinks(jobs[q])'
    BY <1>3 DEF PoolsDistinct
  <1>8. \A v \in Workers, d \in Conns : Runs(v, d)' <=> Runs(v, d)
    BY DEF Runs
  <1>9. PoolsDistinct'
    <2>1. \A q \in Pools : DistinctLinks(jobs[q])' /\ DistinctLinks(results[q])'
      BY <1>6, <1>7 DEF PoolsDistinct
    <2>2. \A q, r \in Pools : LinksOf(jobs[q])' \cap LinksOf(results[r])' = {}
      BY <1>5, <1>6, <1>7 DEF PoolsDistinct
    <2>3. \A q, r \in Pools : q # r => /\ LinksOf(jobs[q])' \cap LinksOf(jobs[r])' = {}
                                     /\ LinksOf(results[q])' \cap LinksOf(results[r])' = {}
      <3>1. ASSUME NEW q \in Pools, NEW r \in Pools, q # r
            PROVE  LinksOf(jobs[q])' \cap LinksOf(jobs[r])' = {}
        <4>1. LinksOf(jobs[q]) \cap LinksOf(jobs[r]) = {}
          BY <3>1 DEF PoolsDistinct
        <4>2. c \notin LinksOf(jobs[q]) /\ c \notin LinksOf(jobs[r])
          BY <1>5
        <4> QED
          BY <1>6, <1>7, <3>1, <4>1, <4>2
      <3> QED
        BY <3>1 DEF PoolsDistinct
    <2>4. \A v \in Workers, d \in Conns : Runs(v, d)' =>
             /\ \A q \in Pools : d \notin LinksOf(jobs[q])' /\ d \notin LinksOf(results[q])'
             /\ \A u \in Workers : Runs(u, d)' => u = v
      BY <1>5, <1>6, <1>7, <1>8 DEF PoolsDistinct
    <2> QED
      BY <2>1, <2>2, <2>3, <2>4 DEF PoolsDistinct
  <1>10. JobsFit'
    <2>1. ASSUME NEW q \in Pools, NEW i \in DOMAIN jobs'[q]
          PROVE  /\ jobs'[q][i].state = "taken" /\ jobs'[q][i].result = "ok"
                 /\ jobs'[q][i].req = parsed'[jobs'[q][i].link]
      <3>1. CASE q = p /\ jobs'[q][i] = job
        BY <1>4, <3>1
      <3>2. CASE i \in DOMAIN jobs[q] /\ jobs'[q][i] = jobs[q][i]
        <4>1. jobs[q][i].link # c
          BY <1>5, <3>2 DEF LinksOf
        <4>2. jobs[q][i].link \in Conns
          BY <3>2, JobFacts DEF Kinds
        <4> QED
          BY <1>4, <3>2, <4>1, <4>2 DEF JobsFit
      <3>3. \A k \in DOMAIN Append(jobs[p], job) :
               Append(jobs[p], job)[k] = job
               \/ (k \in DOMAIN jobs[p] /\ Append(jobs[p], job)[k] = jobs[p][k])
        BY <1>1
      <3> QED
        BY <1>3, <2>1, <3>1, <3>2, <3>3
    <2>2. ASSUME NEW w \in Workers, running[w].state = "taken"
          PROVE  running[w].req = parsed'[running[w].link] /\ running[w].result = "ok"
      <3>1. running[w] \in Jobs
        BY <2>2 DEF Kinds, NoJob
      <3>2. running[w].link \in Conns /\ running[w].link # c
        BY <1>5, <3>1, JobFacts DEF Runs
      <3> QED
        BY <1>4, <2>2, <3>2 DEF JobsFit
    <2> QED
      BY <2>1, <2>2 DEF JobsFit
  <1>11. \A d \in Conns : InPool(d)' <=> InPool(d) \/ d = c
    BY <1>6, <1>7, <1>8 DEF InPool
  <1>12. \A d \in Conns : Owed(d)' <=> Owed(d) \/ d = c
    BY <1>6, <1>7, <1>8 DEF Owed
  <1> QED
    BY <1>2, <1>9, <1>10, <1>11, <1>12

(* ... and takes a result.                                                  *)
LEMMA LeavePools ==
    ASSUME Kinds, PoolsDistinct, JobsFit, Reasons,
           NEW p \in Pools, results[p] # <<>>,
           results' = [results EXCEPT ![p] = Tail(@)],
           jobs' = jobs, running' = running, parsed' = parsed, peer' = peer, error' = error
    PROVE  /\ PoolsDistinct' /\ JobsFit' /\ Reasons' /\ results' \in [Pools -> Seq(Jobs)]
           /\ \A q \in Pools \ {p} : results'[q] = results[q]
           /\ Head(results[p]) \in Jobs /\ Head(results[p]).link \in Conns
           /\ InPool(Head(results[p]).link)
           /\ Head(results[p]).result = "error" => peer[Head(results[p]).link] = "closed"
           /\ \A d \in Conns : /\ InPool(d)' <=> InPool(d) /\ d # Head(results[p]).link
                               /\ Owed(d)' <=> Owed(d)
  <1> DEFINE job == Head(results[p])
  <1>1. results[p] \in Seq(Jobs)
    BY DEF Kinds
  <1>2. job \in Jobs /\ job.link \in LinksOf(results[p]) /\ job.link \in Conns
    BY <1>1, TailLinks, JobFacts
  <1>3. results'[p] = Tail(results[p]) /\ \A q \in Pools \ {p} : results'[q] = results[q]
    BY DEF Kinds
  <1>4. results' \in [Pools -> Seq(Jobs)]
    BY <1>1 DEF Kinds
  <1>5. /\ LinksOf(results[p])' = LinksOf(results[p]) \ {job.link}
        /\ DistinctLinks(results[p])'
    <2>1. DistinctLinks(results[p])
      BY DEF PoolsDistinct
    <2>2. /\ LinksOf(Tail(results[p])) = LinksOf(results[p]) \ {job.link}
          /\ DistinctLinks(Tail(results[p]))
      BY <1>1, <2>1, TailLinks
    <2> QED
      BY <1>3, <2>2
  <1>r. job.result = "error" => peer[job.link] = "closed"
    BY <1>1 DEF Reasons
  <1>6. \A i \in DOMAIN Tail(results[p]) :
           i + 1 \in DOMAIN results[p] /\ Tail(results[p])[i] = results[p][i + 1]
    BY <1>1
  <1>7. \A q \in Pools \ {p} : LinksOf(results[q])' = LinksOf(results[q]) /\ DistinctLinks(results[q])'
    BY <1>3 DEF PoolsDistinct
  <1> HIDE DEF job
  <1>8. \A v \in Workers, d \in Conns : Runs(v, d)' <=> Runs(v, d)
    BY DEF Runs
  <1>9. PoolsDistinct'
    <2>1. \A q \in Pools : DistinctLinks(jobs[q])' /\ DistinctLinks(results[q])'
      BY <1>5, <1>7 DEF PoolsDistinct
    <2>2. \A q, r \in Pools : LinksOf(jobs[q])' \cap LinksOf(results[r])' = {}
      BY <1>5, <1>7 DEF PoolsDistinct
    <2>3. \A q, r \in Pools : q # r => /\ LinksOf(jobs[q])' \cap LinksOf(jobs[r])' = {}
                                     /\ LinksOf(results[q])' \cap LinksOf(results[r])' = {}
      <3>1. ASSUME NEW q \in Pools, NEW r \in Pools, q # r
            PROVE  LinksOf(results[q])' \cap LinksOf(results[r])' = {}
        <4>1. LinksOf(results[q]) \cap LinksOf(results[r]) = {}
          BY <3>1 DEF PoolsDistinct
        <4> QED
          BY <1>5, <1>7, <3>1, <4>1
      <3> QED
        BY <3>1 DEF PoolsDistinct
    <2>4. \A v \in Workers, d \in Conns : Runs(v, d)' =>
             /\ \A q \in Pools : d \notin LinksOf(jobs[q])' /\ d \notin LinksOf(results[q])'
             /\ \A u \in Workers : Runs(u, d)' => u = v
      BY <1>5, <1>7, <1>8 DEF PoolsDistinct
    <2> QED
      BY <2>1, <2>2, <2>3, <2>4 DEF PoolsDistinct
  <1>10. JobsFit'
    <2>1. \A i \in DOMAIN results'[p] : results'[p][i].state = "done"
      BY <1>3, <1>6 DEF JobsFit
    <2> QED
      BY <1>3, <2>1 DEF JobsFit
  <1>11. Reasons'
    <2>1. \A i \in DOMAIN results'[p] :
             results'[p][i].result = "error" => peer[results'[p][i].link] = "closed"
      BY <1>3, <1>6 DEF Reasons
    <2> QED
      BY <1>3, <2>1 DEF Reasons
  <1>12. \A v \in Workers : ~Runs(v, job.link)
    BY <1>2 DEF PoolsDistinct
  <1>13. \A q \in Pools : job.link \notin LinksOf(jobs[q])
    BY <1>2 DEF PoolsDistinct
  <1>14. \A q \in Pools \ {p} : job.link \notin LinksOf(results[q])
    BY <1>2 DEF PoolsDistinct
  <1>15. ASSUME NEW d \in Conns
         PROVE  /\ InPool(d)' <=> InPool(d) /\ d # job.link
                /\ Owed(d)' <=> Owed(d)
    <2>1. InPool(d)' <=> InPool(d) /\ d # job.link
      BY <1>5, <1>7, <1>8, <1>12, <1>13, <1>14 DEF InPool
    <2>2. Owed(d)' <=> Owed(d)
      BY <1>8 DEF Owed
    <2> QED
      BY <2>1, <2>2
  <1>16. InPool(job.link)
    BY <1>2 DEF InPool
  <1> QED
    BY <1>2, <1>3, <1>4, <1>r, <1>9, <1>10, <1>11, <1>15, <1>16 DEF job

-----------------------------------------------------------------------------
(* Links and their descriptors.                                             *)

(* Clients and workers leave the main thread alone.                         *)
LEMMA LoopKept ==
    ASSUME Inv, UNCHANGED loopVars, fd' = fd, received' = received,
           \A c \in Conns : InPool(c)' <=> InPool(c),
           \A p \in Pools : results[p] # <<>> => results'[p] # <<>>,
           \A c \in Conns : sent'[c] = sent[c] \/ sent'[c] = sent[c] + 1,
           \A c \in Conns : \/ peer'[c] = peer[c]
                            \/ peer[c] = "new"
                            \/ peer'[c] = "closed"
    PROVE  /\ LinkCount' /\ Descriptors' /\ FlagsAgree' /\ DataLive'
           /\ Lists' /\ Heard' /\ Fresh' /\ Phases'
  <1>1. /\ phase' = phase /\ events' = events /\ ready' = ready /\ ready2' = ready2
        /\ current' = current /\ fde' = fde /\ link_count' = link_count
    BY DEF loopVars
  <1>2. \A c \in Conns : Alive(c)' <=> Alive(c)
    BY DEF Alive
  <1>3. LinkCount'
    <2>1. {c \in Conns : Alive(c)}' = {c \in Conns : Alive(c)}
      BY <1>2
    <2> QED
      BY <1>1, <2>1 DEF Inv, LinkCount
  <1>4. Descriptors'
    BY <1>1, <1>2 DEF Inv, Descriptors
  <1>5. FlagsAgree' /\ DataLive'
    BY <1>1 DEF Inv, FlagsAgree, DataLive
  <1>6. Lists'
    BY <1>1 DEF Inv, Lists
  <1>7. Heard'
    BY <1>1, <1>2 DEF Inv, Heard
  <1>8. Fresh'
    <2> SUFFICES ASSUME NEW e \in events
                 PROVE  /\ e.kind \in Pools => results'[e.kind] # <<>>
                        /\ e.kind = "link" =>
                              /\ fde.kernel[e.fd] # {}
                              /\ \A g \in events : g.kind = "link" /\ g.fd = e.fd => g = e
                              /\ "in" \in e.flags =>
                                    LET c == fde.data[e.fd]
                                    IN  /\ c \notin On(ready) /\ c \notin On(ready2)
                                        /\ peer'[c] = "closed" \/ received[c] < sent'[c]
      BY <1>1 DEF Fresh
    <2>1. e.kind \in Pools => results'[e.kind] # <<>>
      BY DEF Inv, Fresh
    <2>2. ASSUME e.kind = "link", "in" \in e.flags
          PROVE  peer'[fde.data[e.fd]] = "closed" \/ received[fde.data[e.fd]] < sent'[fde.data[e.fd]]
      <3>1. e.fd \in Fds
        BY <2>2 DEF Inv, Kinds, Events, Pools
      <3>2. fde.data[e.fd] \in Conns /\ fd[fde.data[e.fd]] = e.fd
        BY <2>2, <3>1 DEF Inv, Fresh, DataLive
      <3>3. peer[fde.data[e.fd]] # "new"
        BY <3>1, <3>2, ServerAssumption DEF Inv, Descriptors, Alive
      <3>4. peer[fde.data[e.fd]] = "closed" \/ received[fde.data[e.fd]] < sent[fde.data[e.fd]]
        BY <2>2 DEF Inv, Fresh
      <3>5. \A c \in Conns : sent[c] \in Nat /\ received[c] \in Nat
        BY DEF Inv, Kinds
      <3> QED
        BY <3>2, <3>3, <3>4, <3>5
    <2> QED
      BY <2>1, <2>2 DEF Inv, Fresh
  <1>9. Phases'
    BY <1>1 DEF Inv, Phases
  <1> QED
    BY <1>3, <1>4, <1>5, <1>6, <1>7, <1>8, <1>9

(* A step of a client.                                                      *)
LEMMA ClientInv ==
    ASSUME Inv, NEW c \in Conns, Client(c)
    PROVE  Inv'
  <1>1. UNCHANGED <<loopVars, linkVars, poolVars>>
    BY DEF Client, Connect, Send, SendGarbage, Consume, Close
  <1>2. /\ fd' = fd /\ error' = error /\ received' = received /\ parsed' = parsed
        /\ stream' = stream /\ written' = written
        /\ jobs' = jobs /\ results' = results /\ running' = running
    BY <1>1 DEF linkVars, poolVars
  <1>3. \A d \in Conns : (InPool(d)' <=> InPool(d)) /\ (Owed(d)' <=> Owed(d))
    BY <1>2 DEF InPool, Owed, Runs
  <1>4. PoolsDistinct' /\ JobsFit' /\ Answered'
    <2>1. PoolsDistinct'
      BY <1>2 DEF Inv, PoolsDistinct, Runs
    <2>2. JobsFit'
      BY <1>2 DEF Inv, JobsFit
    <2>3. Answered'
      BY <1>2, <1>3 DEF Inv, Answered
    <2> QED
      BY <2>1, <2>2, <2>3
  <1>5. Parts * MaxRequests \in Nat /\ \A n \in Nat : Parts * n \in Nat
    BY ServerAssumption
  <1>6. /\ peer' \in [Conns -> {"new", "pending", "accepted", "closed"}]
        /\ sent' \in [Conns -> Nat] /\ garbage' \in [Conns -> Nat]
        /\ consumed' \in [Conns -> Nat]
    <2>1. /\ peer \in [Conns -> {"new", "pending", "accepted", "closed"}]
          /\ sent \in [Conns -> Nat] /\ garbage \in [Conns -> Nat]
          /\ consumed \in [Conns -> Nat]
      BY DEF Inv, Kinds
    <2>2. peer' \in [Conns -> {"new", "pending", "accepted", "closed"}]
      BY <2>1 DEF Client, Connect, Send, SendGarbage, Consume, Close
    <2>3. sent' \in [Conns -> Nat]
      BY <2>1 DEF Client, Connect, Send, SendGarbage, Consume, Close
    <2>4. garbage' \in [Conns -> Nat]
      BY <2>1 DEF Client, Connect, Send, SendGarbage, Consume, Close
    <2>5. consumed' \in [Conns -> Nat]
      BY <2>1 DEF Client, Connect, Send, SendGarbage, Consume, Close
    <2> QED
      BY <2>2, <2>3, <2>4, <2>5
  <1>7. Kinds'
    BY <1>1, <1>2, <1>6 DEF Inv, Kinds, loopVars
  <1>8. \A d \in Conns : /\ \/ sent'[d] = sent[d]
                            \/ sent'[d] = sent[d] + 1 /\ sent[d] < Parts * MaxRequests
                         /\ \/ consumed'[d] = consumed[d]
                            \/ consumed'[d] = consumed[d] + 1 /\ consumed[d] < written[d]
                         /\ \/ peer'[d] = peer[d]
                            \/ peer[d] = "new"
                            \/ peer'[d] = "closed"
    BY DEF Inv, Kinds, Client, Connect, Send, SendGarbage, Consume, Close
  <1>9. Counts'
    <2> SUFFICES ASSUME NEW d \in Conns
                 PROVE  /\ Parts * parsed[d] <= received[d]
                        /\ received[d] <= sent'[d]
                        /\ sent'[d] <= Parts * MaxRequests
                        /\ consumed'[d] <= written[d]
                        /\ written[d] <= Len(stream[d])
                        /\ written[d] - consumed'[d] <= SendBuf
      BY <1>2 DEF Counts
    <2>1. /\ sent[d] \in Nat /\ received[d] \in Nat /\ consumed[d] \in Nat
          /\ written[d] \in Nat /\ SendBuf \in Nat
      BY ServerAssumption DEF Inv, Kinds
    <2>2. /\ Parts * parsed[d] <= received[d]
          /\ received[d] <= sent[d]
          /\ sent[d] <= Parts * MaxRequests
          /\ consumed[d] <= written[d]
          /\ written[d] <= Len(stream[d])
          /\ written[d] - consumed[d] <= SendBuf
      BY DEF Inv, Counts
    <2> DEFINE all == Parts * MaxRequests
    <2>3. all \in Nat /\ sent[d] <= all
      BY <1>5, <2>2
    <2>4. sent'[d] = sent[d] \/ (sent'[d] = sent[d] + 1 /\ sent[d] < all)
      BY <1>8
    <2> HIDE DEF all
    <2>5. received[d] <= sent'[d] /\ sent'[d] <= all
      BY <2>1, <2>2, <2>3, <2>4
    <2>6. consumed'[d] = consumed[d] \/ (consumed'[d] = consumed[d] + 1 /\ consumed[d] < written[d])
      BY <1>8
    <2>7. consumed'[d] <= written[d] /\ written[d] - consumed'[d] <= SendBuf
      BY <2>1, <2>2, <2>6
    <2> QED
      BY <2>2, <2>5, <2>7 DEF all
  <1>10. Reasons'
    <2>1. \A d \in Conns : peer[d] = "closed" => peer'[d] = "closed"
      BY <1>8
    <2>2. \A p \in Pools : \A i \in DOMAIN results[p] : results[p][i].link \in Conns
      BY JobFacts DEF Inv, Kinds
    <2>3. \A w \in Workers : running[w] # NoJob => running[w].link \in Conns
      BY JobFacts DEF Inv, Kinds
    <2> QED
      BY <1>2, <2>1, <2>2, <2>3 DEF Inv, Reasons
  <1>11. /\ LinkCount' /\ Descriptors' /\ FlagsAgree' /\ DataLive'
         /\ Lists' /\ Heard' /\ Fresh' /\ Phases'
    BY <1>1, <1>2, <1>3, <1>8, LoopKept
  <1> QED
    BY <1>4, <1>7, <1>9, <1>10, <1>11 DEF Inv

(* Link::write writes as much as there is, or as there is room for.         *)
LEMMA WrittenBy ==
    ASSUME Inv, NEW c \in Conns, NEW n \in Nat, written[c] <= n
    PROVE  /\ AfterWrite(c, n) \in [Conns -> Nat]
           /\ \A d \in Conns \ {c} : AfterWrite(c, n)[d] = written[d]
           /\ consumed[c] <= AfterWrite(c, n)[c]
           /\ AfterWrite(c, n)[c] <= n
           /\ AfterWrite(c, n)[c] - consumed[c] <= SendBuf
  <1>1. /\ written \in [Conns -> Nat] /\ consumed[c] \in Nat /\ SendBuf \in Nat
        /\ consumed[c] <= written[c] /\ written[c] - consumed[c] <= SendBuf
    BY ServerAssumption DEF Inv, Kinds, Counts
  <1> QED
    BY <1>1 DEF AfterWrite, Room

(* A step of a worker.                                                      *)
LEMMA TakeInv ==
    ASSUME Inv, NEW w \in Workers, TakeJob(w)
    PROVE  Inv'
  <1>1. UNCHANGED <<results, clientVars, linkVars, loopVars>>
    BY DEF TakeJob
  <1>2. /\ PoolsDistinct' /\ JobsFit'
        /\ jobs' \in [Pools -> Seq(Jobs)] /\ running' \in [Workers -> Jobs \cup {NoJob}]
        /\ \A c \in Conns : (InPool(c)' <=> InPool(c)) /\ (Owed(c)' <=> Owed(c))
    BY TakePools DEF Inv
  <1>3. Kinds'
    BY <1>1, <1>2 DEF Inv, Kinds, clientVars, linkVars, loopVars
  <1>4. Counts'
    BY <1>1 DEF Inv, Counts, clientVars, linkVars
  <1>5. Answered'
    BY <1>1, <1>2 DEF Inv, Answered, linkVars
  <1>6. Reasons'
    <2>1. /\ results' = results /\ error' = error /\ peer' = peer
      BY <1>1 DEF clientVars, linkVars
    <2>2. \A v \in Workers : running'[v] = running[v] \/ running'[v].state = "taken"
      <3>1. PoolOf(w) \in Pools /\ jobs[PoolOf(w)] \in Seq(Jobs) /\ jobs[PoolOf(w)] # <<>>
        BY PoolKnown DEF Inv, Kinds, TakeJob
      <3>2. Head(jobs[PoolOf(w)]).state = "taken"
        <4>1. 1 \in DOMAIN jobs[PoolOf(w)] /\ Head(jobs[PoolOf(w)]) = jobs[PoolOf(w)][1]
          BY <3>1
        <4> QED
          BY <3>1, <4>1 DEF Inv, JobsFit
      <3> QED
        BY <3>2 DEF TakeJob, Inv, Kinds
    <2>3. \A v \in Workers : running'[v].state = "taken" => running'[v].result = "ok"
      BY <1>2 DEF JobsFit
    <2> QED
      BY <2>1, <2>2, <2>3 DEF Inv, Reasons
  <1>7. /\ LinkCount' /\ Descriptors' /\ FlagsAgree' /\ DataLive'
        /\ Lists' /\ Heard' /\ Fresh' /\ Phases'
    BY <1>1, <1>2, LoopKept DEF clientVars, linkVars
  <1> QED
    BY <1>2, <1>3, <1>4, <1>5, <1>6, <1>7 DEF Inv

LEMMA RunInv ==
    ASSUME Inv, NEW w \in Workers, RunJob(w)
    PROVE  Inv'
  <1> DEFINE job == running[w]
             c == job.link
             out == Append(stream[c], job.req)
  <1>1. /\ UNCHANGED <<jobs, results, clientVars, fd, error, received, parsed, loopVars>>
        /\ stream' = [stream EXCEPT ![c] = out]
        /\ written' = written \/ written' = AfterWrite(c, Len(out))
    BY DEF RunJob
  <1>2. /\ PoolsDistinct' /\ JobsFit' /\ running' \in [Workers -> Jobs \cup {NoJob}]
        /\ running[w] \in Jobs /\ running[w].state = "taken" /\ running[w] # NoJob
        /\ Owed(running[w].link)
        /\ \A d \in Conns : /\ InPool(d)' <=> InPool(d)
                            /\ Owed(d)' <=> Owed(d) /\ d # running[w].link
        /\ \A v \in Workers \ {w} : running'[v] = running[v]
        /\ running'[w].link = running[w].link
        /\ running'[w].result = "error" => peer[running[w].link] = "closed"
    BY RunPools DEF Inv
  <1>3. c \in Conns /\ job.req \in Nat /\ stream[c] \in Seq(Nat) /\ Owed(c) /\ job.req = parsed[c]
    BY <1>2, JobFacts DEF Inv, Kinds, JobsFit
  <1> HIDE DEF job, c
  <1>4. /\ out \in Seq(Nat) /\ Len(out) = Len(stream[c]) + 1 /\ Len(stream[c]) \in Nat
        /\ out[Len(out)] = job.req
        /\ \A i \in 1..Len(stream[c]) : out[i] = stream[c][i]
    BY <1>3
  <1> HIDE DEF out
  <1>5. /\ stream' \in [Conns -> Seq(Nat)] /\ stream'[c] = out
        /\ \A d \in Conns \ {c} : stream'[d] = stream[d]
    BY <1>1, <1>3, <1>4 DEF Inv, Kinds
  <1>6. /\ written' \in [Conns -> Nat]
        /\ \A d \in Conns \ {c} : written'[d] = written[d]
        /\ consumed[c] <= written'[c]
        /\ written'[c] <= Len(out)
        /\ written'[c] - consumed[c] <= SendBuf
    <2>1. /\ written[c] <= Len(stream[c]) /\ written \in [Conns -> Nat]
          /\ consumed[c] <= written[c] /\ written[c] - consumed[c] <= SendBuf
      BY <1>3 DEF Inv, Kinds, Counts
    <2>2. Len(out) \in Nat /\ written[c] <= Len(out)
      BY <1>3, <1>4, <2>1
    <2>3. CASE written' = written
      BY <2>1, <2>2, <2>3
    <2>4. CASE written' = AfterWrite(c, Len(out))
      BY <1>3, <2>2, <2>4, WrittenBy
    <2> QED
      BY <1>1, <2>3, <2>4
  <1>7. Kinds'
    BY <1>1, <1>2, <1>5, <1>6 DEF Inv, Kinds, clientVars, loopVars
  <1>8. Counts'
    BY <1>1, <1>5, <1>6 DEF Inv, Counts, clientVars
  <1>9. Answered'
    <2> SUFFICES ASSUME NEW d \in Conns
                 PROVE  /\ \A i \in 1..Len(stream'[d]) : stream'[d][i] = i
                        /\ Owed(d)' => parsed[d] = Len(stream'[d]) + 1
                        /\ ~Owed(d)' => parsed[d] = Len(stream'[d])
      BY <1>1 DEF Answered
    <2>1. CASE d = c
      <3>1. parsed[c] = Len(stream[c]) + 1 /\ \A i \in 1..Len(stream[c]) : stream[c][i] = i
        BY <1>3 DEF Inv, Answered
      <3>2. ~Owed(d)'
        BY <1>2, <2>1 DEF c, job
      <3>3. \A i \in 1..Len(out) : i \in 1..Len(stream[c]) \/ i = Len(out)
        BY <1>4
      <3> QED
        BY <1>3, <1>4, <1>5, <2>1, <3>1, <3>2, <3>3
    <2>2. CASE d # c
      <3>1. Owed(d)' <=> Owed(d)
        BY <1>2, <2>2 DEF c, job
      <3> QED
        BY <1>5, <2>2, <3>1 DEF Inv, Answered
    <2> QED
      BY <2>1, <2>2
  <1>10. Reasons'
    <2>1. results' = results /\ error' = error /\ peer' = peer
      BY <1>1 DEF clientVars
    <2>2. \A v \in Workers : running'[v] # NoJob /\ running'[v].result = "error" =>
             peer[running'[v].link] = "closed"
      BY <1>2 DEF Inv, Reasons
    <2> QED
      BY <2>1, <2>2 DEF Inv, Reasons
  <1>11. /\ LinkCount' /\ Descriptors' /\ FlagsAgree' /\ DataLive'
         /\ Lists' /\ Heard' /\ Fresh' /\ Phases'
    BY <1>1, <1>2, LoopKept DEF clientVars
  <1> QED
    BY <1>2, <1>7, <1>8, <1>9, <1>10, <1>11 DEF Inv

LEMMA PushInv ==
    ASSUME Inv, NEW w \in Workers, PushResult(w)
    PROVE  Inv'
  <1>1. UNCHANGED <<jobs, clientVars, linkVars, loopVars>>
    BY DEF PushResult
  <1>2. /\ PoolsDistinct' /\ JobsFit' /\ Reasons'
        /\ results' \in [Pools -> Seq(Jobs)] /\ running' \in [Workers -> Jobs \cup {NoJob}]
        /\ \A c \in Conns : (InPool(c)' <=> InPool(c)) /\ (Owed(c)' <=> Owed(c))
        /\ \A q \in Pools : results[q] # <<>> => results'[q] # <<>>
    BY PushPools DEF Inv
  <1>3. Kinds'
    BY <1>1, <1>2 DEF Inv, Kinds, clientVars, linkVars, loopVars
  <1>4. Counts'
    BY <1>1 DEF Inv, Counts, clientVars, linkVars
  <1>5. Answered'
    BY <1>1, <1>2 DEF Inv, Answered, linkVars
  <1>6. /\ LinkCount' /\ Descriptors' /\ FlagsAgree' /\ DataLive'
        /\ Lists' /\ Heard' /\ Fresh' /\ Phases'
    BY <1>1, <1>2, LoopKept DEF clientVars, linkVars
  <1> QED
    BY <1>2, <1>3, <1>4, <1>5, <1>6 DEF Inv

-----------------------------------------------------------------------------
(* The main thread.                                                         *)
LEMMA PoolsKept ==
    ASSUME Inv, UNCHANGED <<poolVars, parsed, stream, peer, error>>
    PROVE  /\ PoolsDistinct' /\ JobsFit' /\ Answered' /\ Reasons'
           /\ \A c \in Conns : (InPool(c)' <=> InPool(c)) /\ (Owed(c)' <=> Owed(c))
  <1>1. jobs' = jobs /\ results' = results /\ running' = running
    BY DEF poolVars
  <1>2. \A c \in Conns : (InPool(c)' <=> InPool(c)) /\ (Owed(c)' <=> Owed(c))
    BY <1>1 DEF InPool, Owed, Runs
  <1>3. PoolsDistinct'
    BY <1>1 DEF Inv, PoolsDistinct, Runs
  <1>4. JobsFit'
    BY <1>1 DEF Inv, JobsFit
  <1>5. Answered'
    BY <1>1, <1>2 DEF Inv, Answered
  <1>6. Reasons'
    BY <1>1 DEF Inv, Reasons
  <1> QED
    BY <1>2, <1>3, <1>4, <1>5, <1>6

LEMMA EmptyList == On(<<>>) = {} /\ Distinct(<<>>)
  BY DEF On, Distinct

(* What epoll_wait reports.                                                 *)
LEMMA ReportsAreEvents ==
    ASSUME Inv, NEW e \in ReadyEvents
    PROVE  /\ e \in Events
           /\ e.kind \in Pools => results[e.kind] # <<>>
           /\ e.kind = "link" =>
                 /\ e.fd \in Fds /\ e.flags = ReadyFlags(e.fd) /\ e.flags # {}
                 /\ e = Event("link", e.fd, ReadyFlags(e.fd))
  <1>1. \A f \in Fds : ReadyFlags(f) \in SUBSET Flags
    BY DEF ReadyFlags, Inv, Kinds, Registries
  <1>2. CASE \E f \in Fds : ReadyFlags(f) # {} /\ e = Event("link", f, ReadyFlags(f))
    BY <1>1, <1>2 DEF Event, Events, Pools
  <1>3. CASE e = Event("accept", 0, {})
    BY <1>3 DEF Event, Events, Pools
  <1>4. CASE \E p \in Pools : results[p] # <<>> /\ e = Event(p, 0, {})
    BY <1>4 DEF Event, Events, Pools
  <1> QED
    BY <1>2, <1>3, <1>4 DEF ReadyEvents

LEMMA PollInv ==
    ASSUME Inv, Wait \/ Interrupted
    PROVE  Inv'
  <1>1. /\ phase = "wait" /\ phase' = "events" /\ ready' = ready2 /\ ready2' = <<>>
        /\ UNCHANGED <<current, fde, link_count, clientVars, linkVars, poolVars>>
        /\ events' = ReadyEvents \/ events' = events
    BY DEF Wait, Interrupted
  <1>2. /\ UNCHANGED clientVars /\ UNCHANGED linkVars /\ UNCHANGED poolVars
        /\ current' = current /\ fde' = fde /\ link_count' = link_count
    BY <1>1
  <1>3. /\ peer' = peer /\ sent' = sent /\ fd' = fd /\ received' = received /\ results' = results
        /\ parsed' = parsed /\ stream' = stream /\ error' = error
        /\ consumed' = consumed /\ written' = written
    BY <1>2 DEF clientVars, linkVars, poolVars
  <1>4. ready = <<>> /\ events = {} /\ current = NoConn
    BY <1>1 DEF Inv, Phases
  <1>5. events' \subseteq ReadyEvents
    BY <1>1, <1>4
  <1>6. /\ PoolsDistinct' /\ JobsFit' /\ Answered' /\ Reasons'
        /\ \A c \in Conns : (InPool(c)' <=> InPool(c)) /\ (Owed(c)' <=> Owed(c))
    BY <1>2, <1>3, PoolsKept
  <1>7. Kinds'
    <2>1. events' \subseteq Events
      BY <1>5, ReportsAreEvents
    <2> QED
      BY <1>1, <1>2, <2>1 DEF Inv, Kinds, clientVars, linkVars, poolVars
  <1>8. Counts'
    BY <1>3 DEF Inv, Counts
  <1>9. LinkCount'
    BY <1>2, <1>3 DEF Inv, LinkCount, Alive
  <1>10. On(ready)' = On(ready2) /\ On(ready2)' = {} /\ On(ready) = {}
    BY <1>1, <1>4, EmptyList
  <1>11. Descriptors'
    BY <1>3, <1>6, <1>10 DEF Inv, Descriptors, Alive
  <1>12. FlagsAgree' /\ DataLive'
    BY <1>2, <1>3 DEF Inv, FlagsAgree, DataLive
  <1>13. Lists'
    BY <1>1, <1>6, <1>10, EmptyList DEF Inv, Lists
  <1>14. Heard'
    BY <1>2, <1>3, <1>6, <1>10 DEF Inv, Heard, Alive
  <1>15. Fresh'
    <2> SUFFICES ASSUME NEW e \in events'
                 PROVE  /\ e.kind \in Pools => results[e.kind] # <<>>
                        /\ e.kind = "link" =>
                              /\ fde.kernel[e.fd] # {}
                              /\ \A g \in events' : g.kind = "link" /\ g.fd = e.fd => g = e
                              /\ "in" \in e.flags =>
                                    LET c == fde.data[e.fd]
                                    IN  /\ c \notin On(ready)' /\ c \notin On(ready2)'
                                        /\ peer[c] = "closed" \/ received[c] < sent[c]
      BY <1>2, <1>3 DEF Fresh
    <2>1. e \in ReadyEvents
      BY <1>5
    <2>2. ASSUME e.kind = "link"
          PROVE  /\ fde.kernel[e.fd] # {}
                 /\ \A g \in events' : g.kind = "link" /\ g.fd = e.fd => g = e
      <3>1. e.flags = ReadyFlags(e.fd) /\ e.flags # {}
        BY <2>1, <2>2, ReportsAreEvents
      <3>2. \A g \in events' : g.kind = "link" /\ g.fd = e.fd => g = e
        BY <1>5, <2>1, <2>2, ReportsAreEvents
      <3> QED
        BY <3>1, <3>2 DEF ReadyFlags
    <2>3. ASSUME e.kind = "link", "in" \in e.flags
          PROVE  LET c == fde.data[e.fd]
                 IN  /\ c \notin On(ready)' /\ c \notin On(ready2)'
                     /\ peer[c] = "closed" \/ received[c] < sent[c]
      <3>1. e.fd \in Fds /\ e.flags = ReadyFlags(e.fd) /\ e.fd # 0
        BY <2>1, <2>3, ReportsAreEvents, ServerAssumption
      <3>2. PICK c \in Conns : fd[c] = e.fd /\ (peer[c] = "closed" \/ received[c] < sent[c])
        BY <2>3, <3>1 DEF ReadyFlags
      <3>3. "in" \in fde.kernel[e.fd]
        BY <2>3, <3>1 DEF ReadyFlags
      <3>4. c = fde.data[e.fd]
        BY <3>1, <3>2, <3>3 DEF Inv, DataLive, Descriptors, Alive
      <3>5. c \notin On(ready2)
        BY <3>1, <3>2, <3>3 DEF Inv, Heard, Alive
      <3> QED
        BY <1>10, <3>2, <3>4, <3>5
    <2> QED
      BY <2>1, <2>2, <2>3, ReportsAreEvents
  <1>16. Phases'
    BY <1>1, <1>4 DEF Phases
  <1> QED
    BY <1>6, <1>7, <1>8, <1>9, <1>11, <1>12, <1>13, <1>14, <1>15, <1>16 DEF Inv

LEMMA PhaseInv ==
    ASSUME Inv, EventsDone \/ ReadyDone
    PROVE  Inv'
  <1>1. /\ UNCHANGED <<events, ready, ready2, current, fde, link_count>>
        /\ UNCHANGED clientVars /\ UNCHANGED linkVars /\ UNCHANGED poolVars
        /\ \/ phase = "events" /\ events = {} /\ phase' = "ready"
           \/ phase = "ready" /\ ready = <<>> /\ phase' = "wait"
    BY DEF EventsDone, ReadyDone
  <1>2. /\ peer' = peer /\ sent' = sent /\ fd' = fd /\ received' = received /\ results' = results
        /\ parsed' = parsed /\ stream' = stream /\ error' = error
        /\ consumed' = consumed /\ written' = written
    BY <1>1 DEF clientVars, linkVars, poolVars
  <1>3. /\ PoolsDistinct' /\ JobsFit' /\ Answered' /\ Reasons'
        /\ \A c \in Conns : (InPool(c)' <=> InPool(c)) /\ (Owed(c)' <=> Owed(c))
    BY <1>1, <1>2, PoolsKept
  <1>4. Kinds'
    BY <1>1 DEF Inv, Kinds, clientVars, linkVars, poolVars
  <1>5. Counts' /\ LinkCount'
    BY <1>1, <1>2 DEF Inv, Counts, LinkCount, Alive
  <1>6. Descriptors' /\ FlagsAgree' /\ DataLive'
    BY <1>1, <1>2, <1>3 DEF Inv, Descriptors, FlagsAgree, DataLive, Alive
  <1>7. Lists' /\ Heard' /\ Fresh'
    BY <1>1, <1>2, <1>3 DEF Inv, Lists, Heard, Fresh, Alive
  <1>8. Phases'
    BY <1>1 DEF Inv, Phases
  <1> QED
    BY <1>3, <1>4, <1>5, <1>6, <1>7, <1>8 DEF Inv

(* A step that touches the descriptor of one link only.                     *)
OnlyAt(c) ==
    /\ fde' \in Registries /\ fde'.flags = fde'.kernel
    /\ \A g \in Fds \ {fd[c]} : fde'.kernel[g] = fde.kernel[g] /\ fde'.data[g] = fde.data[g]

LEMMA LiveFd == ASSUME Inv, NEW c \in Conns, Alive(c) PROVE fd[c] \in Fds /\ 0 \notin Fds
  BY ServerAssumption DEF Inv, Kinds, Alive

LEMMA LinkTouched ==
    ASSUME Inv, NEW c \in Conns, Alive(c), OnlyAt(c),
           \/ fd' = [fd EXCEPT ![c] = 0] /\ fde'.kernel[fd[c]] = {}
           \/ fd' = fd /\ (fde'.kernel[fd[c]] # {} => fde'.data[fd[c]] = c)
    PROVE  /\ fd' \in [Conns -> Fds \cup {0}] /\ FlagsAgree' /\ DataLive'
           /\ \A d \in Conns \ {c} : fd'[d] = fd[d] /\ (Alive(d)' <=> Alive(d))
           /\ \A d \in Conns \ {c} : Alive(d) => /\ fd[d] # fd[c]
                                                 /\ fde'.kernel[fd'[d]] = fde.kernel[fd[d]]
           /\ \A d, e \in Conns : Alive(d)' /\ fd'[d] = fd'[e] => d = e
  <1>1. fd[c] \in Fds /\ 0 \notin Fds /\ fd \in [Conns -> Fds \cup {0}]
    BY LiveFd DEF Inv, Kinds
  <1>2. fd' \in [Conns -> Fds \cup {0}] /\ \A d \in Conns \ {c} : fd'[d] = fd[d]
    BY <1>1
  <1>3. \A d \in Conns \ {c} : Alive(d)' <=> Alive(d)
    BY <1>2 DEF Alive
  <1>4. \A d \in Conns \ {c} : Alive(d) => fd[d] # fd[c]
    BY DEF Inv, Descriptors
  <1>5. \A d \in Conns \ {c} : Alive(d) => fde'.kernel[fd'[d]] = fde.kernel[fd[d]]
    BY <1>2, <1>4, LiveFd DEF OnlyAt
  <1>6. FlagsAgree'
    BY DEF OnlyAt, FlagsAgree
  <1>7. DataLive'
    <2> SUFFICES ASSUME NEW f \in Fds, fde'.kernel[f] # {}
                 PROVE  fde'.data[f] \in Conns /\ fd'[fde'.data[f]] = f
      BY DEF DataLive
    <2>1. CASE f = fd[c]
      BY <2>1
    <2>2. CASE f # fd[c]
      <3>1. fde'.data[f] = fde.data[f] /\ fde.data[f] \in Conns /\ fd[fde.data[f]] = f
        BY <2>2 DEF OnlyAt, Inv, DataLive
      <3> QED
        BY <1>2, <2>2, <3>1
    <2> QED
      BY <2>1, <2>2
  <1>8. \A d, e \in Conns : Alive(d)' /\ fd'[d] = fd'[e] => d = e
    <2>1. \A d, e \in Conns : fd[d] # 0 /\ fd[d] = fd[e] => d = e
      BY DEF Inv, Descriptors, Alive
    <2> QED
      BY <1>1, <2>1 DEF Alive
  <1> QED
    BY <1>2, <1>3, <1>4, <1>5, <1>6, <1>7, <1>8

LEMMA DeletedLink ==
    ASSUME Inv, NEW c \in Conns, Alive(c), Deleted(c)
    PROVE  /\ OnlyAt(c) /\ fd' = [fd EXCEPT ![c] = 0] /\ fde'.kernel[fd[c]] = {}
           /\ LinkCount'
  <1>1. fd[c] \in Fds /\ fde \in Registries /\ fde.flags = fde.kernel /\ fd \in [Conns -> Fds \cup {0}]
    BY LiveFd DEF Inv, Kinds, FlagsAgree
  <1>2. OnlyAt(c) /\ fde'.kernel[fd[c]] = {}
    BY <1>1, CloseFd DEF Deleted, OnlyAt
  <1>3. LinkCount'
    <2> DEFINE live == {d \in Conns : Alive(d)}
    <2>1. live' = live \ {c} /\ c \in live
      BY <1>1 DEF Deleted, Alive
    <2>2. IsFiniteSet(live) /\ link_count = Cardinality(live)
      BY DEF Inv, LinkCount
    <2> HIDE DEF live
    <2>3. IsFiniteSet(live') /\ Cardinality(live') = Cardinality(live) - 1
      BY <2>1, <2>2, FS_RemoveElement
    <2> QED
      BY <2>2, <2>3 DEF live, LinkCount, Deleted
  <1> QED
    BY <1>2, <1>3 DEF Deleted

(* What proc_result leaves of the descriptor: heard, or not heard.          *)
LEMMA Subscribed ==
    ASSUME Inv, NEW c \in Conns, Alive(c), NEW x \in {fde, fde_set(fde, fd[c], "out", c)}
    PROVE  LET y == fde_set(x, fd[c], "in", c)
               z == fde_clr(x, fd[c], "in")
           IN  /\ y \in Registries /\ y.flags = y.kernel
               /\ "in" \in y.kernel[fd[c]] /\ y.data[fd[c]] = c
               /\ \A g \in Fds \ {fd[c]} : y.kernel[g] = fde.kernel[g] /\ y.data[g] = fde.data[g]
               /\ z \in Registries /\ z.flags = z.kernel
               /\ "in" \notin z.kernel[fd[c]]
               /\ z.kernel[fd[c]] # {} => z.data[fd[c]] = c
               /\ \A g \in Fds \ {fd[c]} : z.kernel[g] = fde.kernel[g] /\ z.data[g] = fde.data[g]
  <1> DEFINE f == fd[c]
             y == fde_set(x, f, "in", c)
             z == fde_clr(x, f, "in")
  <1>1. f \in Fds /\ fde \in Registries /\ fde.flags = fde.kernel /\ {"in", "out"} \subseteq Flags
    BY LiveFd DEF Inv, Kinds, FlagsAgree, Flags
  <1>2. fde.kernel[f] # {} => fde.data[f] = c
    BY <1>1, LiveFd DEF Inv, DataLive, Descriptors
  <1>0. x = fde \/ x = fde_set(fde, f, "out", c)
    OBVIOUS
  <1> HIDE DEF f
  <1>3. /\ x \in Registries /\ x.flags = x.kernel
        /\ x.kernel[f] # {} => x.data[f] = c
        /\ \A g \in Fds \ {f} : x.kernel[g] = fde.kernel[g] /\ x.data[g] = fde.data[g]
    BY <1>0, <1>1, <1>2, SetFlag
  <1>4. /\ y \in Registries /\ y.flags = y.kernel
        /\ "in" \in y.kernel[f] /\ y.data[f] = c
        /\ \A g \in Fds \ {f} : y.kernel[g] = x.kernel[g] /\ y.data[g] = x.data[g]
    BY <1>1, <1>3, SetFlag
  <1>5. /\ z \in Registries /\ z.flags = z.kernel
        /\ z.kernel[f] = x.kernel[f] \ {"in"} /\ z.data = x.data
        /\ \A g \in Fds \ {f} : z.kernel[g] = x.kernel[g]
    BY <1>1, <1>3, ClearFlag
  <1> HIDE DEF y, z
  <1>6. "in" \notin z.kernel[f] /\ (z.kernel[f] # {} => z.data[f] = c)
    BY <1>3, <1>5
  <1> QED
    BY <1>3, <1>4, <1>5, <1>6 DEF f, y, z

(* The three ways proc_result goes: the link is dropped, it is heard again, *)
(* or there is more input and it stands in a ready list.                    *)
Settled(c, failed, list) ==
    /\ OnlyAt(c)
    /\ \/ /\ fd' = [fd EXCEPT ![c] = 0] /\ fde'.kernel[fd[c]] = {} /\ list' = list
          /\ failed \/ peer[c] = "closed"
       \/ /\ fd' = fd /\ list' = list
          /\ "in" \in fde'.kernel[fd[c]] /\ fde'.data[fd[c]] = c
       \/ /\ fd' = fd /\ list' = Append(list, c)
          /\ "in" \notin fde'.kernel[fd[c]]
          /\ fde'.kernel[fd[c]] # {} => fde'.data[fd[c]] = c

WritesUpTo(c, n) ==
    /\ written' \in [Conns -> Nat]
    /\ \A d \in Conns \ {c} : written'[d] = written[d]
    /\ consumed[c] <= written'[c] /\ written'[c] <= n
    /\ written'[c] - consumed[c] <= SendBuf

LEMMA SettlesFirst ==
    ASSUME Inv, NEW c \in Conns, Alive(c), NEW failed \in BOOLEAN,
           NEW out \in Seq(Nat), NEW n \in Nat, written[c] <= Len(out),
           ProcResult(c, failed, out, n, ready)
    PROVE  /\ Settled(c, failed, ready) /\ LinkCount' /\ WritesUpTo(c, Len(out))
  <1>1. CASE /\ failed \/ peer[c] = "closed"
             /\ Deleted(c)
             /\ UNCHANGED <<written, ready>>
    <2>1. /\ OnlyAt(c) /\ fd' = [fd EXCEPT ![c] = 0] /\ fde'.kernel[fd[c]] = {}
          /\ LinkCount'
      BY <1>1, DeletedLink
    <2>2. WritesUpTo(c, Len(out))
      BY <1>1 DEF WritesUpTo, Inv, Kinds, Counts
    <2> QED
      BY <1>1, <2>1, <2>2 DEF Settled
  <1>2. CASE /\ ~failed
             /\ written' = AfterWrite(c, Len(out))
             /\ LET x == IF written'[c] < Len(out) THEN fde_set(fde, fd[c], "out", c) ELSE fde
                IN  IF received[c] = Parts * n
                    THEN fde' = fde_set(x, fd[c], "in", c) /\ UNCHANGED ready
                    ELSE fde' = fde_clr(x, fd[c], "in") /\ ready' = Append(ready, c)
             /\ UNCHANGED <<fd, link_count>>
    <2>1. WritesUpTo(c, Len(out))
      BY <1>2, WrittenBy DEF WritesUpTo
    <2>2. LinkCount'
      BY <1>2 DEF Inv, LinkCount, Alive
    <2> DEFINE x == IF written'[c] < Len(out) THEN fde_set(fde, fd[c], "out", c) ELSE fde
               y == fde_set(x, fd[c], "in", c)
               z == fde_clr(x, fd[c], "in")
    <2>3. /\ y \in Registries /\ y.flags = y.kernel
          /\ "in" \in y.kernel[fd[c]] /\ y.data[fd[c]] = c
          /\ \A g \in Fds \ {fd[c]} : y.kernel[g] = fde.kernel[g] /\ y.data[g] = fde.data[g]
          /\ z \in Registries /\ z.flags = z.kernel
          /\ "in" \notin z.kernel[fd[c]]
          /\ z.kernel[fd[c]] # {} => z.data[fd[c]] = c
          /\ \A g \in Fds \ {fd[c]} : z.kernel[g] = fde.kernel[g] /\ z.data[g] = fde.data[g]
      <3>1. x \in {fde, fde_set(fde, fd[c], "out", c)}
        OBVIOUS
      <3> HIDE DEF x
      <3> QED
        BY <3>1, Subscribed
    <2>4. \/ fde' = y /\ ready' = ready
          \/ fde' = z /\ ready' = Append(ready, c)
      BY <1>2
    <2> HIDE DEF y, z
    <2> QED
      BY <1>2, <2>1, <2>2, <2>3, <2>4 DEF Settled, OnlyAt
  <1> QED
    BY <1>1, <1>2 DEF ProcResult

LEMMA SettlesSecond ==
    ASSUME Inv, NEW c \in Conns, Alive(c), NEW failed \in BOOLEAN,
           NEW out \in Seq(Nat), NEW n \in Nat, written[c] <= Len(out),
           ProcResult(c, failed, out, n, ready2)
    PROVE  /\ Settled(c, failed, ready2) /\ LinkCount' /\ WritesUpTo(c, Len(out))
  <1>1. CASE /\ failed \/ peer[c] = "closed"
             /\ Deleted(c)
             /\ UNCHANGED <<written, ready2>>
    <2>1. /\ OnlyAt(c) /\ fd' = [fd EXCEPT ![c] = 0] /\ fde'.kernel[fd[c]] = {}
          /\ LinkCount'
      BY <1>1, DeletedLink
    <2>2. WritesUpTo(c, Len(out))
      BY <1>1 DEF WritesUpTo, Inv, Kinds, Counts
    <2> QED
      BY <1>1, <2>1, <2>2 DEF Settled
  <1>2. CASE /\ ~failed
             /\ written' = AfterWrite(c, Len(out))
             /\ LET x == IF written'[c] < Len(out) THEN fde_set(fde, fd[c], "out", c) ELSE fde
                IN  IF received[c] = Parts * n
                    THEN fde' = fde_set(x, fd[c], "in", c) /\ UNCHANGED ready2
                    ELSE fde' = fde_clr(x, fd[c], "in") /\ ready2' = Append(ready2, c)
             /\ UNCHANGED <<fd, link_count>>
    <2>1. WritesUpTo(c, Len(out))
      BY <1>2, WrittenBy DEF WritesUpTo
    <2>2. LinkCount'
      BY <1>2 DEF Inv, LinkCount, Alive
    <2> DEFINE x == IF written'[c] < Len(out) THEN fde_set(fde, fd[c], "out", c) ELSE fde
               y == fde_set(x, fd[c], "in", c)
               z == fde_clr(x, fd[c], "in")
    <2>3. /\ y \in Registries /\ y.flags = y.kernel
          /\ "in" \in y.kernel[fd[c]] /\ y.data[fd[c]] = c
          /\ \A g \in Fds \ {fd[c]} : y.kernel[g] = fde.kernel[g] /\ y.data[g] = fde.data[g]
          /\ z \in Registries /\ z.flags = z.kernel
          /\ "in" \notin z.kernel[fd[c]]
          /\ z.kernel[fd[c]] # {} => z.data[fd[c]] = c
          /\ \A g \in Fds \ {fd[c]} : z.kernel[g] = fde.kernel[g] /\ z.data[g] = fde.data[g]
      <3>1. x \in {fde, fde_set(fde, fd[c], "out", c)}
        OBVIOUS
      <3> HIDE DEF x
      <3> QED
        BY <3>1, Subscribed
    <2>4. \/ fde' = y /\ ready2' = ready2
          \/ fde' = z /\ ready2' = Append(ready2, c)
      BY <1>2
    <2> HIDE DEF y, z
    <2> QED
      BY <1>2, <2>1, <2>2, <2>3, <2>4 DEF Settled, OnlyAt
  <1> QED
    BY <1>1, <1>2 DEF ProcResult

(* A result is taken from a pool.                                           *)
LEMMA PopInv ==
    ASSUME Inv, phase = "events", NEW e \in events, PopResult(e)
    PROVE  Inv'
  <1> DEFINE p == e.kind
             job == Head(results[p])
  <1>1. p \in Pools /\ results[p] # <<>>
    BY DEF PopResult, Inv, Fresh
  <1>c. PICK c \in Conns : c = job.link
    BY <1>1, TailLinks, JobFacts DEF Inv, Kinds
  <1>2. /\ results' = [results EXCEPT ![p] = Tail(@)] /\ events' = events \ {e}
        /\ UNCHANGED <<clientVars, error, received, parsed, stream, phase, ready2, current,
                       jobs, running>>
        /\ ProcResult(c, job.result = "error", stream[c], parsed[c], ready)
    BY <1>c DEF PopResult, Handled
  <1>3. peer' = peer /\ sent' = sent /\ consumed' = consumed /\ garbage' = garbage
    BY <1>2 DEF clientVars
  <1>4. /\ PoolsDistinct' /\ JobsFit' /\ Reasons' /\ results' \in [Pools -> Seq(Jobs)]
        /\ \A q \in Pools \ {p} : results'[q] = results[q]
        /\ InPool(c)
        /\ \A d \in Conns : /\ InPool(d)' <=> InPool(d) /\ d # c
                            /\ Owed(d)' <=> Owed(d)
    BY <1>1, <1>c, <1>2, <1>3, LeavePools DEF Inv
  <1> HIDE DEF job
  <1>5. Alive(c) /\ current = NoConn /\ c # current
    BY <1>4, ServerAssumption DEF Inv, Descriptors, Phases
  <1>6. /\ fde.kernel[fd[c]] = {} /\ c \notin On(ready) /\ c \notin On(ready2)
    BY <1>4, <1>5 DEF Inv, Heard, Lists
  <1>7. /\ stream[c] \in Seq(Nat) /\ parsed[c] \in Nat /\ written[c] <= Len(stream[c])
        /\ Len(stream[c]) \in Nat
    BY <1>4 DEF Inv, Kinds, Counts
  <1>8. Settled(c, job.result = "error", ready) /\ LinkCount' /\ WritesUpTo(c, Len(stream[c]))
    <2>1. (job.result = "error") \in BOOLEAN
      OBVIOUS
    <2> QED
      BY <1>2, <1>5, <1>7, <2>1, SettlesFirst
  <1>9. /\ fd' \in [Conns -> Fds \cup {0}] /\ FlagsAgree' /\ DataLive'
        /\ \A d \in Conns \ {c} : fd'[d] = fd[d] /\ (Alive(d)' <=> Alive(d))
        /\ \A d \in Conns \ {c} : Alive(d) => /\ fd[d] # fd[c]
                                              /\ fde'.kernel[fd'[d]] = fde.kernel[fd[d]]
        /\ \A d, g \in Conns : Alive(d)' /\ fd'[d] = fd'[g] => d = g
    BY <1>4, <1>5, <1>8, LinkTouched DEF Settled
  <1>10. /\ ready' \in Seq(Conns) /\ Distinct(ready')
         /\ \A d \in Conns \ {c} : d \in On(ready') <=> d \in On(ready)
    <2>1. ready \in Seq(Conns) /\ Distinct(ready)
      BY DEF Inv, Kinds, Lists
    <2>2. /\ Append(ready, c) \in Seq(Conns) /\ Distinct(Append(ready, c))
          /\ On(Append(ready, c)) = On(ready) \cup {c}
      BY <1>4, <1>6, <2>1, AppendOn
    <2> QED
      BY <1>8, <2>1, <2>2 DEF Settled
  <1>11. c \in On(ready') => Alive(c)'
    <2>1. CASE ready' = ready
      BY <1>6, <2>1
    <2>2. CASE fd' = fd
      BY <1>5, <2>2 DEF Alive
    <2> QED
      BY <1>8, <2>1, <2>2 DEF Settled
  <1>12. Alive(c)' => c \in On(ready') \/ "in" \in fde'.kernel[fd'[c]]
    <2>1. ready \in Seq(Conns)
      BY DEF Inv, Kinds
    <2>2. On(Append(ready, c)) = On(ready) \cup {c}
      BY <1>4, <2>1, AppendOn
    <2>3. fd' = [fd EXCEPT ![c] = 0] => ~Alive(c)'
      BY <1>4 DEF Alive, Inv, Kinds
    <2> QED
      BY <1>8, <2>2, <2>3 DEF Settled
  <1>13. Kinds'
    <2>1. /\ fde' \in Registries /\ written' \in [Conns -> Nat]
      BY <1>8 DEF Settled, OnlyAt, WritesUpTo
    <2>2. events' \subseteq Events
      BY <1>2 DEF Inv, Kinds
    <2> QED
      BY <1>2, <1>3, <1>4, <1>9, <1>10, <2>1, <2>2 DEF Inv, Kinds
  <1>14. Counts'
    BY <1>2, <1>3, <1>8 DEF Inv, Counts, WritesUpTo
  <1>15. Answered'
    BY <1>2, <1>4 DEF Inv, Answered
  <1>16. Descriptors'
    <2>1. \A d \in Conns : Alive(d)' => peer'[d] \in {"accepted", "closed"}
      BY <1>3, <1>5, <1>9 DEF Inv, Descriptors
    <2>2. \A d \in Conns : d \in On(ready)' \/ d \in On(ready2)' \/ InPool(d)' => Alive(d)'
      BY <1>2, <1>4, <1>6, <1>9, <1>10, <1>11 DEF Inv, Descriptors
    <2> QED
      BY <1>9, <2>1, <2>2 DEF Descriptors
  <1>17. Lists'
    BY <1>2, <1>4, <1>6, <1>10 DEF Inv, Lists
  <1>18. Heard'
    <2> SUFFICES ASSUME NEW d \in Conns, Alive(d)'
                 PROVE  /\ InPool(d)' /\ current' # d => fde'.kernel[fd'[d]] = {}
                        /\ d \in On(ready2') => "in" \notin fde'.kernel[fd'[d]]
                        /\ ~InPool(d)' /\ d \notin On(ready') /\ d \notin On(ready2')
                             => "in" \in fde'.kernel[fd'[d]]
      BY DEF Heard
    <2>1. CASE d = c
      BY <1>2, <1>4, <1>6, <1>12, <2>1
    <2>2. CASE d # c
      <3>1. Alive(d) /\ fde'.kernel[fd'[d]] = fde.kernel[fd[d]]
        BY <1>9, <2>2
      <3> QED
        BY <1>2, <1>4, <1>10, <2>2, <3>1 DEF Inv, Heard
    <2> QED
      BY <2>1, <2>2
  <1>19. Fresh'
    <2> SUFFICES ASSUME NEW g \in events', g \in events, g # e
                 PROVE  /\ g.kind \in Pools => results'[g.kind] # <<>>
                        /\ g.kind = "link" =>
                              /\ fde'.kernel[g.fd] # {}
                              /\ \A h \in events' : h.kind = "link" /\ h.fd = g.fd => h = g
                              /\ "in" \in g.flags =>
                                    LET d == fde'.data[g.fd]
                                    IN  /\ d \notin On(ready') /\ d \notin On(ready2')
                                        /\ peer'[d] = "closed" \/ received'[d] < sent'[d]
      BY <1>2 DEF Fresh
    <2>1. g.kind \in Pools => g.kind # p
      <3>1. ASSUME g.kind = p
            PROVE  g = e
        <4>1. p # "link" /\ {e, g} \subseteq Events
          BY <1>1 DEF Inv, Kinds, Pools
        <4>2. \A h \in {e, g} : h = [kind |-> p, fd |-> 0, flags |-> {}]
          BY <3>1, <4>1 DEF Events
        <4> QED
          BY <4>2
      <3> QED
        BY <3>1
    <2>2. g.kind \in Pools => results'[g.kind] # <<>>
      BY <1>4, <2>1 DEF Inv, Fresh
    <2>3. ASSUME g.kind = "link"
          PROVE  /\ fde'.kernel[g.fd] = fde.kernel[g.fd] /\ fde'.data[g.fd] = fde.data[g.fd]
                 /\ fde.kernel[g.fd] # {} /\ fde.data[g.fd] \in Conns \ {c}
      <3>1. g.fd \in Fds
        BY <2>3 DEF Inv, Kinds, Events, Pools
      <3>2. fde.kernel[g.fd] # {}
        BY <2>3 DEF Inv, Fresh
      <3>3. g.fd # fd[c]
        BY <1>6, <3>2
      <3>4. fde.data[g.fd] \in Conns /\ fd[fde.data[g.fd]] = g.fd
        BY <3>1, <3>2 DEF Inv, DataLive
      <3> QED
        BY <1>8, <3>1, <3>2, <3>3, <3>4 DEF Settled, OnlyAt
    <2> QED
      BY <1>2, <1>3, <1>10, <2>2, <2>3 DEF Inv, Fresh
  <1>20. Phases'
    BY <1>2, <1>5 DEF Phases
  <1> QED
    BY <1>4, <1>8, <1>9, <1>13, <1>14, <1>15, <1>16, <1>17, <1>18, <1>19, <1>20 DEF Inv

(* A connection is accepted, or there is no descriptor for it.              *)
LEMMA AcceptInv ==
    ASSUME Inv, phase = "events", NEW e \in events, Accept(e)
    PROVE  Inv'
  <1>1. /\ events' = events \ {e}
        /\ UNCHANGED <<sent, garbage, consumed, error, received, parsed, stream, written,
                       phase, ready, ready2, current, poolVars>>
    BY DEF Accept, Handled
  <1>2. jobs' = jobs /\ results' = results /\ running' = running
    BY <1>1 DEF poolVars
  <1>3. PICK c \in Conns :
           /\ peer[c] = "pending"
           /\ \/ FreeFds = {} /\ UNCHANGED <<peer, fd, fde, link_count>>
              \/ accept_link(c)
    BY DEF Accept
  <1>4. ~Alive(c) /\ fd[c] = 0 /\ c \notin On(ready) /\ c \notin On(ready2) /\ ~InPool(c)
    BY <1>3 DEF Inv, Descriptors, Alive
  <1>5. \A d \in Conns : (InPool(d)' <=> InPool(d)) /\ (Owed(d)' <=> Owed(d))
    BY <1>2 DEF InPool, Owed, Runs
  <1>6. PoolsDistinct' /\ JobsFit' /\ Answered'
    <2>1. PoolsDistinct'
      BY <1>2 DEF Inv, PoolsDistinct, Runs
    <2>2. JobsFit'
      BY <1>1, <1>2 DEF Inv, JobsFit
    <2>3. Answered'
      BY <1>1, <1>5 DEF Inv, Answered
    <2> QED
      BY <2>1, <2>2, <2>3
  <1>7. Counts'
    BY <1>1 DEF Inv, Counts
  <1>8. Lists'
    BY <1>1, <1>5 DEF Inv, Lists
  <1>9. Phases'
    BY <1>1, <1>5 DEF Inv, Phases
  <1>10. events' \subseteq Events
    BY <1>1 DEF Inv, Kinds
  <1>11. CASE UNCHANGED <<peer, fd, fde, link_count>>
    <2>1. Kinds'
      BY <1>1, <1>2, <1>10, <1>11 DEF Inv, Kinds
    <2>2. LinkCount' /\ Descriptors' /\ FlagsAgree' /\ DataLive'
      BY <1>1, <1>5, <1>11 DEF Inv, LinkCount, Descriptors, FlagsAgree, DataLive, Alive
    <2>3. Reasons'
      BY <1>1, <1>2, <1>11 DEF Inv, Reasons
    <2>4. Heard'
      BY <1>1, <1>5, <1>11 DEF Inv, Heard, Alive
    <2>5. Fresh'
      BY <1>1, <1>2, <1>11 DEF Inv, Fresh
    <2> QED
      BY <1>6, <1>7, <1>8, <1>9, <2>1, <2>2, <2>3, <2>4, <2>5 DEF Inv
  <1>12. CASE accept_link(c)
    <2>1. PICK f \in FreeFds :
             /\ peer' = [peer EXCEPT ![c] = "accepted"]
             /\ fd' = [fd EXCEPT ![c] = f]
             /\ fde' = fde_set(fde, f, "in", c)
             /\ link_count' = link_count + 1
      BY <1>12 DEF accept_link
    <2>2. f \in Fds /\ f # 0 /\ \A d \in Conns : fd[d] # f
      BY ServerAssumption DEF FreeFds
    <2>3. fde.kernel[f] = {}
      BY <2>2 DEF Inv, DataLive
    <2>4. /\ fde' \in Registries /\ fde'.flags = fde'.kernel
          /\ "in" \in fde'.kernel[f] /\ fde'.data[f] = c
          /\ \A g \in Fds \ {f} : fde'.kernel[g] = fde.kernel[g] /\ fde'.data[g] = fde.data[g]
      <3>1. fde \in Registries /\ fde.flags = fde.kernel /\ "in" \in Flags
        BY DEF Inv, Kinds, FlagsAgree, Flags
      <3> QED
        BY <2>1, <2>2, <2>3, <3>1, SetFlag
    <2>5. /\ fd' \in [Conns -> Fds \cup {0}] /\ fd'[c] = f
          /\ \A d \in Conns \ {c} : fd'[d] = fd[d]
      BY <2>1, <2>2 DEF Inv, Kinds
    <2>6. /\ peer' \in [Conns -> {"new", "pending", "accepted", "closed"}] /\ peer'[c] = "accepted"
          /\ \A d \in Conns \ {c} : peer'[d] = peer[d]
      BY <2>1 DEF Inv, Kinds
    <2>7. Alive(c)' /\ \A d \in Conns \ {c} : Alive(d)' <=> Alive(d)
      BY <2>2, <2>5 DEF Alive
    <2>8. Kinds'
      BY <1>1, <1>2, <1>10, <2>4, <2>5, <2>6 DEF Inv, Kinds
    <2>9. LinkCount'
      <3> DEFINE live == {d \in Conns : Alive(d)}
      <3>1. live' = live \cup {c} /\ c \notin live
        BY <1>4, <2>7
      <3>2. IsFiniteSet(live) /\ link_count = Cardinality(live)
        BY DEF Inv, LinkCount
      <3> HIDE DEF live
      <3>3. IsFiniteSet(live') /\ Cardinality(live') = Cardinality(live) + 1
        BY <3>1, <3>2, FS_AddElement
      <3> QED
        BY <2>1, <3>2, <3>3 DEF live, LinkCount
    <2>10. Descriptors'
      <3>1. \A d, g \in Conns : Alive(d)' /\ fd'[d] = fd'[g] => d = g
        BY <2>2, <2>5, <2>7 DEF Inv, Descriptors
      <3>2. \A d \in Conns : Alive(d)' => peer'[d] \in {"accepted", "closed"}
        BY <2>6, <2>7 DEF Inv, Descriptors
      <3>3. \A d \in Conns : d \in On(ready)' \/ d \in On(ready2)' \/ InPool(d)' => Alive(d)'
        BY <1>1, <1>5, <2>7 DEF Inv, Descriptors
      <3> QED
        BY <3>1, <3>2, <3>3 DEF Descriptors
    <2>11. FlagsAgree'
      BY <2>4 DEF FlagsAgree
    <2>12. DataLive'
      <3> SUFFICES ASSUME NEW g \in Fds, fde'.kernel[g] # {}
                   PROVE  fde'.data[g] \in Conns /\ fd'[fde'.data[g]] = g
        BY DEF DataLive
      <3>1. CASE g = f
        BY <2>4, <2>5, <3>1
      <3>2. CASE g # f
        <4>1. fde'.data[g] = fde.data[g] /\ fde.data[g] \in Conns /\ fd[fde.data[g]] = g
          BY <2>4, <3>2 DEF Inv, DataLive
        <4>2. g # 0
          BY ServerAssumption
        <4> QED
          BY <1>4, <2>5, <4>1, <4>2
      <3> QED
        BY <3>1, <3>2
    <2>13. Reasons'
      <3>1. \A d \in Conns : peer[d] = "closed" => peer'[d] = "closed"
        BY <1>3, <2>6
      <3>2. \A p \in Pools : \A i \in DOMAIN results[p] : results[p][i].link \in Conns
        BY JobFacts DEF Inv, Kinds
      <3>3. \A w \in Workers : running[w] # NoJob => running[w].link \in Conns
        BY JobFacts DEF Inv, Kinds
      <3> QED
        BY <1>1, <1>2, <3>1, <3>2, <3>3 DEF Inv, Reasons
    <2>14. \A d \in Conns \ {c} : Alive(d) => fde'.kernel[fd'[d]] = fde.kernel[fd[d]]
      BY <2>2, <2>4, <2>5, LiveFd
    <2>15. Heard'
      <3> SUFFICES ASSUME NEW d \in Conns, Alive(d)'
                   PROVE  /\ InPool(d) /\ current # d => fde'.kernel[fd'[d]] = {}
                          /\ d \in On(ready2) => "in" \notin fde'.kernel[fd'[d]]
                          /\ ~InPool(d) /\ d \notin On(ready) /\ d \notin On(ready2)
                               => "in" \in fde'.kernel[fd'[d]]
        BY <1>1, <1>5 DEF Heard
      <3>1. CASE d = c
        BY <1>4, <2>4, <2>5, <3>1
      <3>2. CASE d # c
        BY <2>7, <2>14, <3>2 DEF Inv, Heard
      <3> QED
        BY <3>1, <3>2
    <2>16. Fresh'
      <3> SUFFICES ASSUME NEW g \in events', g \in events
                   PROVE  /\ g.kind \in Pools => results[g.kind] # <<>>
                          /\ g.kind = "link" =>
                                /\ fde'.kernel[g.fd] # {}
                                /\ \A h \in events' : h.kind = "link" /\ h.fd = g.fd => h = g
                                /\ "in" \in g.flags =>
                                      LET d == fde'.data[g.fd]
                                      IN  /\ d \notin On(ready) /\ d \notin On(ready2)
                                          /\ peer'[d] = "closed" \/ received[d] < sent[d]
        BY <1>1, <1>2 DEF Fresh
      <3>1. ASSUME g.kind = "link"
            PROVE  /\ fde'.kernel[g.fd] = fde.kernel[g.fd] /\ fde'.data[g.fd] = fde.data[g.fd]
                   /\ fde.kernel[g.fd] # {} /\ fde.data[g.fd] \in Conns \ {c}
        <4>1. g.fd \in Fds /\ g.fd # 0
          BY <3>1, ServerAssumption DEF Inv, Kinds, Events, Pools
        <4>2. fde.kernel[g.fd] # {}
          BY <3>1 DEF Inv, Fresh
        <4>3. g.fd # f
          BY <2>3, <4>2
        <4>4. fde.data[g.fd] \in Conns /\ fd[fde.data[g.fd]] = g.fd
          BY <4>1, <4>2 DEF Inv, DataLive
        <4> QED
          BY <1>4, <2>4, <4>1, <4>2, <4>3, <4>4
      <3> QED
        BY <1>1, <2>6, <3>1 DEF Inv, Fresh
    <2> QED
      BY <1>6, <1>7, <1>8, <1>9, <2>8, <2>9, <2>10, <2>11, <2>12, <2>13, <2>15, <2>16 DEF Inv
  <1> QED
    BY <1>3, <1>11, <1>12

(* Input arrives.                                                           *)
LEMMA RequestInv ==
    ASSUME Inv, phase = "events", NEW e \in events, ProcRequest(e)
    PROVE  Inv'
  <1>1. /\ e.kind = "link" /\ events' = events \ {e}
        /\ UNCHANGED <<clientVars, fd, parsed, stream, written, phase, ready2, current,
                       fde, link_count, poolVars>>
    BY DEF ProcRequest, Handled
  <1>2. /\ peer' = peer /\ sent' = sent /\ garbage' = garbage /\ consumed' = consumed
        /\ jobs' = jobs /\ results' = results /\ running' = running
    BY <1>1 DEF clientVars, poolVars
  <1>3. e.fd \in Fds /\ e.fd # 0 /\ fde.kernel[e.fd] # {}
    BY <1>1, ServerAssumption DEF Inv, Kinds, Events, Pools, Fresh
  <1>4. PICK c \in Conns : c = fde.data[e.fd] /\ fd[c] = e.fd
    BY <1>3 DEF Inv, DataLive
  <1>5. Alive(c) /\ ~InPool(c)
    BY <1>3, <1>4, ServerAssumption DEF Alive, Inv, Heard, Phases
  <1>6. \/ UNCHANGED <<ready, error, received>>
        \/ /\ "in" \in e.flags /\ ready' = Append(ready, c)
           /\ \/ \E n \in received[c] + 1 .. sent[c] :
                    /\ received' = [received EXCEPT ![c] = n]
                    /\ UNCHANGED error
              \/ /\ peer[c] = "closed" \/ received[c] = sent[c]
                 /\ received' = [received EXCEPT ![c] = sent[c]]
                 /\ error' = [error EXCEPT ![c] = TRUE]
    BY <1>4 DEF ProcRequest
  <1>7. ASSUME ready' # ready
        PROVE  /\ c \notin On(ready) /\ c \notin On(ready2) /\ ready' = Append(ready, c)
               /\ peer[c] = "closed" \/ received[c] < sent[c]
    BY <1>1, <1>4, <1>6, <1>7 DEF Inv, Fresh
  <1>8. /\ received \in [Conns -> Nat] /\ sent \in [Conns -> Nat] /\ error \in [Conns -> BOOLEAN]
        /\ received[c] <= sent[c]
    BY DEF Inv, Kinds, Counts
  <1>9. /\ received' \in [Conns -> Nat] /\ received[c] <= received'[c] /\ received'[c] <= sent[c]
        /\ \A d \in Conns \ {c} : received'[d] = received[d]
    <2>1. CASE UNCHANGED <<ready, error, received>>
      BY <1>8, <2>1
    <2>2. ASSUME NEW n \in received[c] + 1 .. sent[c], received' = [received EXCEPT ![c] = n]
          PROVE  <1>9!1
      BY <1>8, <2>2
    <2>3. CASE received' = [received EXCEPT ![c] = sent[c]]
      BY <1>8, <2>3
    <2> QED
      BY <1>6, <2>1, <2>2, <2>3
  <1>10. /\ error' \in [Conns -> BOOLEAN]
         /\ \A d \in Conns : error'[d] => error[d] \/ peer[d] = "closed"
    <2>1. CASE error' = error
      BY <1>8, <2>1
    <2>2. CASE /\ "in" \in e.flags
               /\ peer[c] = "closed" \/ received[c] = sent[c]
               /\ error' = [error EXCEPT ![c] = TRUE]
      <3>1. peer[c] = "closed" \/ received[c] < sent[c]
        BY <1>1, <1>4, <2>2 DEF Inv, Fresh
      <3> QED
        BY <1>8, <2>2, <3>1
    <2> QED
      BY <1>6, <2>1, <2>2
  <1>11. /\ ready' \in Seq(Conns) /\ Distinct(ready')
         /\ ready' = ready \/ On(ready') = On(ready) \cup {c}
    <2>1. ready \in Seq(Conns) /\ Distinct(ready)
      BY DEF Inv, Kinds, Lists
    <2>2. c \notin On(ready) =>
             /\ Append(ready, c) \in Seq(Conns) /\ Distinct(Append(ready, c))
             /\ On(Append(ready, c)) = On(ready) \cup {c}
      BY <2>1, AppendOn
    <2> QED
      BY <1>7, <2>1, <2>2
  <1>12. \A d \in Conns : (InPool(d)' <=> InPool(d)) /\ (Owed(d)' <=> Owed(d))
    BY <1>2 DEF InPool, Owed, Runs
  <1>13. Kinds'
    <2>1. events' \subseteq Events
      BY <1>1 DEF Inv, Kinds
    <2> QED
      BY <1>1, <1>2, <1>9, <1>10, <1>11, <2>1 DEF Inv, Kinds
  <1>14. Counts'
    <2> SUFFICES ASSUME NEW d \in Conns
                 PROVE  Parts * parsed[d] <= received'[d] /\ received'[d] <= sent[d]
      BY <1>1, <1>2 DEF Inv, Counts
    <2>1. CASE d = c
      <3>0. Parts \in Nat /\ parsed[c] \in Nat
        BY ServerAssumption DEF Inv, Kinds
      <3>1. Parts * parsed[c] <= received[c] /\ Parts * parsed[c] \in Nat
        <4>1. Parts * parsed[c] <= received[c]
          BY DEF Inv, Counts
        <4>2. Parts * parsed[c] \in Nat
          BY <3>0
        <4> QED
          BY <4>1, <4>2
      <3>2. received[c] \in Nat /\ received'[c] \in Nat
        BY <1>8, <1>9
      <3> DEFINE whole == Parts * parsed[c]
      <3> HIDE DEF whole
      <3>3. whole <= received'[c]
        BY <1>9, <3>1, <3>2 DEF whole
      <3> QED
        BY <1>9, <2>1, <3>3 DEF whole
    <2>2. CASE d # c
      BY <1>9, <2>2 DEF Inv, Counts
    <2> QED
      BY <2>1, <2>2
  <1>15. LinkCount' /\ FlagsAgree' /\ DataLive'
    BY <1>1 DEF Inv, LinkCount, FlagsAgree, DataLive, Alive
  <1>16. PoolsDistinct' /\ JobsFit' /\ Answered'
    <2>1. PoolsDistinct'
      BY <1>2 DEF Inv, PoolsDistinct, Runs
    <2>2. JobsFit'
      BY <1>1, <1>2 DEF Inv, JobsFit
    <2>3. Answered'
      BY <1>1, <1>12 DEF Inv, Answered
    <2> QED
      BY <2>1, <2>2, <2>3
  <1>17. Reasons'
    BY <1>2, <1>10 DEF Inv, Reasons
  <1>18. Descriptors'
    BY <1>1, <1>2, <1>5, <1>11, <1>12 DEF Inv, Descriptors, Alive
  <1>19. Lists'
    BY <1>1, <1>5, <1>7, <1>11, <1>12 DEF Inv, Lists
  <1>20. Heard'
    <2> SUFFICES ASSUME NEW d \in Conns, Alive(d)
                 PROVE  /\ InPool(d) /\ current # d => fde.kernel[fd[d]] = {}
                        /\ d \in On(ready2) => "in" \notin fde.kernel[fd[d]]
                        /\ ~InPool(d) /\ d \notin On(ready') /\ d \notin On(ready2)
                             => "in" \in fde.kernel[fd[d]]
      BY <1>1, <1>12 DEF Heard, Alive
    <2> QED
      BY <1>11 DEF Inv, Heard
  <1>21. Fresh'
    <2> SUFFICES ASSUME NEW g \in events', g \in events, g # e
                 PROVE  /\ g.kind \in Pools => results[g.kind] # <<>>
                        /\ g.kind = "link" =>
                              /\ fde.kernel[g.fd] # {}
                              /\ \A h \in events' : h.kind = "link" /\ h.fd = g.fd => h = g
                              /\ "in" \in g.flags =>
                                    LET d == fde.data[g.fd]
                                    IN  /\ d \notin On(ready') /\ d \notin On(ready2)
                                        /\ peer[d] = "closed" \/ received'[d] < sent[d]
      BY <1>1, <1>2 DEF Fresh
    <2>1. ASSUME g.kind = "link"
          PROVE  fde.data[g.fd] \in Conns \ {c}
      <3>1. g.fd \in Fds /\ fde.kernel[g.fd] # {} /\ g.fd # e.fd
        BY <1>1, <2>1 DEF Inv, Kinds, Events, Pools, Fresh
      <3> QED
        BY <1>4, <3>1 DEF Inv, DataLive
    <2> QED
      BY <1>1, <1>9, <1>11, <2>1 DEF Inv, Fresh
  <1>22. Phases'
    BY <1>1, <1>12 DEF Inv, Phases
  <1> QED
    BY <1>13, <1>14, <1>15, <1>16, <1>17, <1>18, <1>19, <1>20, <1>21, <1>22 DEF Inv
(* The links of ready_list, one after the other.                            *)
LEMMA FirstReady ==
    ASSUME Inv, phase = "ready", ready # <<>>, NEW c \in Conns, c = Head(ready)
    PROVE  /\ Alive(c) /\ c \notin On(ready2) /\ ~InPool(c) /\ ~Owed(c) /\ c # current
           /\ events = {} /\ current = NoConn
           /\ Tail(ready) \in Seq(Conns) /\ Distinct(Tail(ready))
           /\ On(Tail(ready)) = On(ready) \ {c}
  <1>1. ready \in Seq(Conns) /\ Distinct(ready)
    BY DEF Inv, Kinds, Lists
  <1>2. /\ Tail(ready) \in Seq(Conns) /\ Distinct(Tail(ready))
        /\ On(Tail(ready)) = On(ready) \ {c} /\ c \in On(ready)
    BY <1>1, TailOn
  <1>3. Alive(c) /\ c \notin On(ready2) /\ ~InPool(c)
    BY <1>2 DEF Inv, Descriptors, Lists
  <1>4. ~Owed(c)
    BY <1>3 DEF InPool, Owed
  <1>5. events = {} /\ current = NoConn /\ c # current
    BY ServerAssumption DEF Inv, Phases
  <1> QED
    BY <1>2, <1>3, <1>4, <1>5

LEMMA DropInv ==
    ASSUME Inv, phase = "ready", ready # <<>>, ReadyDrop
    PROVE  Inv'
  <1>c. PICK c \in Conns : c = Head(ready)
    BY TailOn DEF Inv, Kinds
  <1>1. /\ Deleted(c) /\ ready' = Tail(ready)
        /\ UNCHANGED <<clientVars, error, received, parsed, stream, written,
                       phase, events, ready2, current, poolVars>>
    BY <1>c DEF ReadyDrop
  <1>2. /\ peer' = peer /\ sent' = sent /\ garbage' = garbage /\ consumed' = consumed
        /\ jobs' = jobs /\ results' = results /\ running' = running
    BY <1>1 DEF clientVars, poolVars
  <1>3. /\ Alive(c) /\ c \notin On(ready2) /\ ~InPool(c)
        /\ events = {} /\ current = NoConn
        /\ Tail(ready) \in Seq(Conns) /\ Distinct(Tail(ready))
        /\ On(Tail(ready)) = On(ready) \ {c}
    BY <1>c, FirstReady
  <1>4. OnlyAt(c) /\ fd' = [fd EXCEPT ![c] = 0] /\ fde'.kernel[fd[c]] = {} /\ LinkCount'
    BY <1>1, <1>3, DeletedLink
  <1>5. /\ fd' \in [Conns -> Fds \cup {0}] /\ FlagsAgree' /\ DataLive'
        /\ \A d \in Conns \ {c} : fd'[d] = fd[d] /\ (Alive(d)' <=> Alive(d))
        /\ \A d \in Conns \ {c} : Alive(d) => fde'.kernel[fd'[d]] = fde.kernel[fd[d]]
        /\ \A d, g \in Conns : Alive(d)' /\ fd'[d] = fd'[g] => d = g
    BY <1>3, <1>4, LinkTouched
  <1>6. ~Alive(c)'
    BY <1>4 DEF Inv, Kinds, Alive
  <1>7. /\ PoolsDistinct' /\ JobsFit' /\ Answered' /\ Reasons'
        /\ \A d \in Conns : (InPool(d)' <=> InPool(d)) /\ (Owed(d)' <=> Owed(d))
    BY <1>1, <1>2, PoolsKept
  <1>8. Kinds'
    <2>1. fde' \in Registries
      BY <1>4 DEF OnlyAt
    <2> QED
      BY <1>1, <1>2, <1>3, <1>5, <2>1 DEF Inv, Kinds
  <1>9. Counts'
    BY <1>1, <1>2 DEF Inv, Counts
  <1>10. Descriptors'
    <2>1. \A d \in Conns : Alive(d)' => peer'[d] \in {"accepted", "closed"}
      BY <1>2, <1>5, <1>6 DEF Inv, Descriptors
    <2>2. \A d \in Conns : d \in On(ready)' \/ d \in On(ready2)' \/ InPool(d)' => Alive(d)'
      BY <1>1, <1>3, <1>5, <1>7 DEF Inv, Descriptors
    <2> QED
      BY <1>5, <2>1, <2>2 DEF Descriptors
  <1>11. Lists'
    BY <1>1, <1>3, <1>7 DEF Inv, Lists
  <1>12. Heard'
    <2> SUFFICES ASSUME NEW d \in Conns \ {c}, Alive(d)
                 PROVE  /\ InPool(d) /\ current # d => fde.kernel[fd[d]] = {}
                        /\ d \in On(ready2) => "in" \notin fde.kernel[fd[d]]
                        /\ ~InPool(d) /\ d \notin On(ready') /\ d \notin On(ready2)
                             => "in" \in fde.kernel[fd[d]]
      BY <1>1, <1>5, <1>6, <1>7 DEF Heard
    <2> QED
      BY <1>1, <1>3 DEF Inv, Heard
  <1>13. Fresh'
    BY <1>1, <1>3 DEF Fresh
  <1>14. Phases'
    BY <1>1, <1>3 DEF Phases, Inv
  <1> QED
    BY <1>4, <1>5, <1>7, <1>8, <1>9, <1>10, <1>11, <1>12, <1>13, <1>14 DEF Inv

LEMMA WatchInv ==
    ASSUME Inv, phase = "ready", ready # <<>>, ReadyWatch
    PROVE  Inv'
  <1>c. PICK c \in Conns : c = Head(ready)
    BY TailOn DEF Inv, Kinds
  <1>1. /\ fde' = fde_set(fde, fd[c], "in", c) /\ ready' = Tail(ready)
        /\ phase' = phase /\ events' = events /\ ready2' = ready2 /\ current' = current
        /\ link_count' = link_count
        /\ UNCHANGED clientVars /\ UNCHANGED linkVars /\ UNCHANGED poolVars
    BY <1>c DEF ReadyWatch
  <1>2. /\ peer' = peer /\ sent' = sent /\ garbage' = garbage /\ consumed' = consumed
        /\ fd' = fd /\ error' = error /\ received' = received /\ parsed' = parsed
        /\ stream' = stream /\ written' = written
        /\ jobs' = jobs /\ results' = results /\ running' = running
    BY <1>1 DEF clientVars, linkVars, poolVars
  <1>3. /\ Alive(c) /\ c \notin On(ready2) /\ ~InPool(c)
        /\ events = {} /\ current = NoConn
        /\ Tail(ready) \in Seq(Conns) /\ Distinct(Tail(ready))
        /\ On(Tail(ready)) = On(ready) \ {c}
    BY <1>c, FirstReady
  <1>4. OnlyAt(c) /\ "in" \in fde'.kernel[fd[c]] /\ fde'.data[fd[c]] = c
    BY <1>1, <1>3, Subscribed DEF OnlyAt
  <1>5. /\ FlagsAgree' /\ DataLive'
        /\ \A d \in Conns \ {c} : Alive(d) => fde'.kernel[fd[d]] = fde.kernel[fd[d]]
    BY <1>2, <1>3, <1>4, LinkTouched
  <1>6. /\ PoolsDistinct' /\ JobsFit' /\ Answered' /\ Reasons'
        /\ \A d \in Conns : (InPool(d)' <=> InPool(d)) /\ (Owed(d)' <=> Owed(d))
    BY <1>1, <1>2, PoolsKept
  <1>7. Kinds'
    <2>1. fde' \in Registries
      BY <1>4 DEF OnlyAt
    <2> QED
      BY <1>1, <1>2, <1>3, <2>1 DEF Inv, Kinds
  <1>8. Counts' /\ LinkCount'
    BY <1>1, <1>2 DEF Inv, Counts, LinkCount, Alive
  <1>9. Descriptors'
    BY <1>1, <1>2, <1>3, <1>6 DEF Inv, Descriptors, Alive
  <1>10. Lists'
    BY <1>1, <1>3, <1>6 DEF Inv, Lists
  <1>11. Heard'
    <2> SUFFICES ASSUME NEW d \in Conns, Alive(d)
                 PROVE  /\ InPool(d) /\ current # d => fde'.kernel[fd[d]] = {}
                        /\ d \in On(ready2) => "in" \notin fde'.kernel[fd[d]]
                        /\ ~InPool(d) /\ d \notin On(ready') /\ d \notin On(ready2)
                             => "in" \in fde'.kernel[fd[d]]
      BY <1>1, <1>2, <1>6 DEF Heard, Alive
    <2>1. CASE d = c
      BY <1>3, <1>4, <2>1
    <2>2. CASE d # c
      BY <1>1, <1>3, <1>5, <2>2 DEF Inv, Heard
    <2> QED
      BY <2>1, <2>2
  <1>12. Fresh'
    BY <1>1, <1>3 DEF Fresh
  <1>13. Phases'
    BY <1>1, <1>3 DEF Phases, Inv
  <1> QED
    BY <1>5, <1>6, <1>7, <1>8, <1>9, <1>10, <1>11, <1>12, <1>13 DEF Inv

(* A whole request is no more than the client may send.                     *)
LEMMA NoMore ==
    ASSUME NEW a \in Nat, NEW b \in Nat, NEW p \in Nat \ {0}, p * a <= p * b
    PROVE  a <= b
  <1> SUFFICES ASSUME a > b
               PROVE  FALSE
    OBVIOUS
  <1>1. PICK k \in Nat : a = b + 1 + k
    <2>1. a - b - 1 \in Nat /\ a = b + 1 + (a - b - 1)
      OBVIOUS
    <2> QED
      BY <2>1
  <1>2. p * a = p * b + p + p * k
    BY <1>1
  <1>3. p * k \in Nat /\ p * b \in Nat
    OBVIOUS
  <1> QED
    BY <1>2, <1>3

LEMMA WholeRequest ==
    ASSUME Inv, NEW c \in Conns, Decodable(c)
    PROVE  parsed[c] + 1 \in 1..MaxRequests /\ Parts * (parsed[c] + 1) <= received[c]
  <1>1. /\ Parts \in Nat \ {0} /\ MaxRequests \in Nat /\ parsed[c] \in Nat
        /\ received[c] \in Nat /\ sent[c] \in Nat
    BY ServerAssumption DEF Inv, Kinds
  <1>2. received[c] <= sent[c] /\ sent[c] <= Parts * MaxRequests
    BY DEF Inv, Counts
  <1>3. Parts * (parsed[c] + 1) <= received[c]
    BY <1>1 DEF Decodable
  <1> DEFINE whole == Parts * (parsed[c] + 1)
             all == Parts * MaxRequests
  <1>4. whole \in Nat /\ all \in Nat
    BY <1>1
  <1> HIDE DEF whole, all
  <1>5. whole <= all
    BY <1>1, <1>2, <1>3, <1>4 DEF whole, all
  <1>6. parsed[c] + 1 <= MaxRequests
    BY <1>1, <1>5, NoMore DEF whole, all
  <1> QED
    BY <1>1, <1>3, <1>6

LEMMA ThreadInv ==
    ASSUME Inv, phase = "ready", ready # <<>>, ReadyThread
    PROVE  Inv'
  <1>c. PICK c \in Conns : c = Head(ready)
    BY TailOn DEF Inv, Kinds
  <1>1. /\ ready' = Tail(ready) /\ phase' = "del" /\ current' = c
        /\ parsed' = [parsed EXCEPT ![c] = @ + 1]
        /\ Decodable(c)
        /\ UNCHANGED <<clientVars, fd, error, received, stream, written,
                       events, ready2, fde, link_count, results, running>>
    BY <1>c DEF ReadyThread
  <1>p. PICK p \in Pools : \E flags \in FlagsOn(p) :
           jobs' = [jobs EXCEPT ![p] =
              Append(@, [state |-> "taken", link |-> c, req |-> parsed[c] + 1,
                         flags |-> flags, result |-> "ok"])]
    BY <1>c DEF ReadyThread
  <1>q. PICK flags \in FlagsOn(p) :
           jobs' = [jobs EXCEPT ![p] =
              Append(@, [state |-> "taken", link |-> c, req |-> parsed[c] + 1,
                         flags |-> flags, result |-> "ok"])]
    BY <1>p
  <1> DEFINE job == [state |-> "taken", link |-> c, req |-> parsed[c] + 1,
                     flags |-> flags, result |-> "ok"]
  <1>2. /\ peer' = peer /\ sent' = sent /\ garbage' = garbage /\ consumed' = consumed
    BY <1>1 DEF clientVars
  <1>3. /\ Alive(c) /\ c \notin On(ready2) /\ ~InPool(c) /\ ~Owed(c)
        /\ events = {} /\ current = NoConn
        /\ Tail(ready) \in Seq(Conns) /\ Distinct(Tail(ready))
        /\ On(Tail(ready)) = On(ready) \ {c}
    BY <1>c, FirstReady
  <1>4. parsed[c] + 1 \in 1..MaxRequests /\ Parts * (parsed[c] + 1) <= received[c]
    BY <1>1, WholeRequest
  <1>5. job \in Jobs
    <2>1. flags \in CommandFlags
      BY DEF FlagsOn
    <2> QED
      BY <1>4, <2>1 DEF Jobs
  <1>6. /\ job.link = c /\ job.state = "taken" /\ job.result = "ok" /\ job.req = parsed[c] + 1
        /\ jobs' = [jobs EXCEPT ![p] = Append(@, job)]
    BY <1>q
  <1> HIDE DEF job
  <1>7. /\ PoolsDistinct' /\ JobsFit' /\ jobs' \in [Pools -> Seq(Jobs)]
        /\ \A d \in Conns : /\ InPool(d)' <=> InPool(d) \/ d = c
                            /\ Owed(d)' <=> Owed(d) \/ d = c
    BY <1>1, <1>3, <1>5, <1>6, QueuePools DEF Inv
  <1>8. /\ parsed' \in [Conns -> Nat] /\ parsed'[c] = parsed[c] + 1
        /\ \A d \in Conns \ {c} : parsed'[d] = parsed[d]
    <2>1. parsed \in [Conns -> Nat]
      BY DEF Inv, Kinds
    <2> QED
      BY <1>1, <2>1
  <1>9. Kinds'
    BY <1>1, <1>2, <1>3, <1>7, <1>8 DEF Inv, Kinds
  <1>10. Counts'
    <2> SUFFICES ASSUME NEW d \in Conns
                 PROVE  Parts * parsed'[d] <= received[d]
      BY <1>1, <1>2 DEF Inv, Counts
    <2>1. CASE d = c
      BY <1>4, <1>8, <2>1
    <2>2. CASE d # c
      BY <1>8, <2>2 DEF Inv, Counts
    <2> QED
      BY <2>1, <2>2
  <1>11. LinkCount' /\ FlagsAgree' /\ DataLive'
    BY <1>1 DEF Inv, LinkCount, FlagsAgree, DataLive, Alive
  <1>12. Answered'
    <2> SUFFICES ASSUME NEW d \in Conns
                 PROVE  /\ \A i \in 1..Len(stream[d]) : stream[d][i] = i
                        /\ Owed(d)' => parsed'[d] = Len(stream[d]) + 1
                        /\ ~Owed(d)' => parsed'[d] = Len(stream[d])
      BY <1>1 DEF Answered
    <2>1. CASE d = c
      BY <1>3, <1>7, <1>8, <2>1 DEF Inv, Answered
    <2>2. CASE d # c
      BY <1>7, <1>8, <2>2 DEF Inv, Answered
    <2> QED
      BY <2>1, <2>2
  <1>13. Reasons'
    BY <1>1, <1>2 DEF Inv, Reasons
  <1>14. Descriptors'
    <2>1. \A d \in Conns : d \in On(ready)' \/ d \in On(ready2)' \/ InPool(d)' => Alive(d)'
      BY <1>1, <1>3, <1>7 DEF Inv, Descriptors, Alive
    <2> QED
      BY <1>1, <1>2, <2>1 DEF Inv, Descriptors, Alive
  <1>15. Lists'
    BY <1>1, <1>3, <1>7 DEF Inv, Lists
  <1>16. Heard'
    <2> SUFFICES ASSUME NEW d \in Conns, Alive(d)
                 PROVE  /\ InPool(d)' /\ c # d => fde.kernel[fd[d]] = {}
                        /\ d \in On(ready2) => "in" \notin fde.kernel[fd[d]]
                        /\ ~InPool(d)' /\ d \notin On(ready') /\ d \notin On(ready2)
                             => "in" \in fde.kernel[fd[d]]
      BY <1>1 DEF Heard, Alive
    <2>1. CASE d = c
      BY <1>3, <1>7, <2>1
    <2>2. CASE d # c
      <3>1. d # current
        BY <1>3, ServerAssumption
      <3> QED
        BY <1>1, <1>3, <1>7, <2>2, <3>1 DEF Inv, Heard
    <2> QED
      BY <2>1, <2>2
  <1>17. Fresh'
    BY <1>1, <1>3 DEF Fresh
  <1>18. Phases'
    <2>1. InPool(current)'
      <3>1. \A d \in Conns : d = c => InPool(d)'
        BY <1>7
      <3> QED
        BY <1>1, <3>1
    <2> QED
      BY <1>1, <1>3, <2>1 DEF Phases
  <1> QED
    BY <1>7, <1>9, <1>10, <1>11, <1>12, <1>13, <1>14, <1>15, <1>16, <1>17, <1>18 DEF Inv

LEMMA DelInv ==
    ASSUME Inv, DelAfterPush
    PROVE  Inv'
  <1>c. PICK c \in Conns : c = current /\ InPool(c)
    BY DEF Inv, Phases, DelAfterPush
  <1>1. /\ phase = "del" /\ phase' = "ready" /\ current' = NoConn
        /\ fde' = fde_del(fde, fd[c])
        /\ events' = events /\ ready' = ready /\ ready2' = ready2 /\ link_count' = link_count
        /\ UNCHANGED clientVars /\ UNCHANGED linkVars /\ UNCHANGED poolVars
    BY <1>c DEF DelAfterPush
  <1>2. /\ peer' = peer /\ sent' = sent /\ garbage' = garbage /\ consumed' = consumed
        /\ fd' = fd /\ error' = error /\ received' = received /\ parsed' = parsed
        /\ stream' = stream /\ written' = written
        /\ jobs' = jobs /\ results' = results /\ running' = running
    BY <1>1 DEF clientVars, linkVars, poolVars
  <1>3. Alive(c) /\ events = {} /\ c \notin On(ready) /\ c \notin On(ready2)
    BY <1>c, <1>1 DEF Inv, Descriptors, Phases, Lists
  <1>4. OnlyAt(c) /\ fde'.kernel[fd[c]] = {}
    <2>1. fd[c] \in Fds /\ fde \in Registries /\ fde.flags = fde.kernel
      BY <1>3, LiveFd DEF Inv, Kinds, FlagsAgree
    <2> QED
      BY <1>1, <2>1, DeleteFlags DEF OnlyAt
  <1>5. /\ FlagsAgree' /\ DataLive'
        /\ \A d \in Conns \ {c} : Alive(d) => fde'.kernel[fd[d]] = fde.kernel[fd[d]]
    BY <1>2, <1>3, <1>4, LinkTouched
  <1>6. /\ PoolsDistinct' /\ JobsFit' /\ Answered' /\ Reasons'
        /\ \A d \in Conns : (InPool(d)' <=> InPool(d)) /\ (Owed(d)' <=> Owed(d))
    BY <1>1, <1>2, PoolsKept
  <1>7. Kinds'
    <2>1. fde' \in Registries
      BY <1>4 DEF OnlyAt
    <2> QED
      BY <1>1, <1>2, <2>1 DEF Inv, Kinds
  <1>8. Counts' /\ LinkCount'
    BY <1>1, <1>2 DEF Inv, Counts, LinkCount, Alive
  <1>9. Descriptors' /\ Lists'
    BY <1>1, <1>2, <1>6 DEF Inv, Descriptors, Lists, Alive
  <1>10. Heard'
    <2> SUFFICES ASSUME NEW d \in Conns, Alive(d)
                 PROVE  /\ InPool(d) => fde'.kernel[fd[d]] = {}
                        /\ d \in On(ready2) => "in" \notin fde'.kernel[fd[d]]
                        /\ ~InPool(d) /\ d \notin On(ready) /\ d \notin On(ready2)
                             => "in" \in fde'.kernel[fd[d]]
      BY <1>1, <1>2, <1>6 DEF Heard, Alive
    <2>1. CASE d = c
      BY <1>c, <1>3, <1>4, <2>1
    <2>2. CASE d # c
      BY <1>c, <1>5, <2>2 DEF Inv, Heard
    <2> QED
      BY <2>1, <2>2
  <1>11. Fresh'
    BY <1>1, <1>3 DEF Fresh
  <1>12. Phases'
    BY <1>1, <1>3 DEF Phases
  <1> QED
    BY <1>5, <1>6, <1>7, <1>8, <1>9, <1>10, <1>11, <1>12 DEF Inv

LEMMA CommandInv ==
    ASSUME Inv, phase = "ready", ready # <<>>, ReadyMain
    PROVE  Inv'
  <1>c. PICK c \in Conns : c = Head(ready)
    BY TailOn DEF Inv, Kinds
  <1> DEFINE req == parsed[c] + 1
             out == Append(stream[c], req)
  <1>1. /\ ready' = Tail(ready) /\ Decodable(c)
        /\ parsed' = [parsed EXCEPT ![c] = req]
        /\ stream' = [stream EXCEPT ![c] = out]
        /\ ProcResult(c, FALSE, stream'[c], req, ready2)
        /\ UNCHANGED <<clientVars, error, received, phase, events, current, poolVars>>
    BY <1>c DEF ReadyMain
  <1>2. /\ peer' = peer /\ sent' = sent /\ garbage' = garbage /\ consumed' = consumed
        /\ jobs' = jobs /\ results' = results /\ running' = running
    BY <1>1 DEF clientVars, poolVars
  <1>3. /\ Alive(c) /\ c \notin On(ready2) /\ ~InPool(c) /\ ~Owed(c)
        /\ events = {} /\ current = NoConn
        /\ Tail(ready) \in Seq(Conns) /\ Distinct(Tail(ready))
        /\ On(Tail(ready)) = On(ready) \ {c}
    BY <1>c, FirstReady
  <1>4. Parts * req <= received[c]
    BY <1>1, WholeRequest
  <1>5. /\ parsed \in [Conns -> Nat] /\ stream \in [Conns -> Seq(Nat)]
        /\ written[c] \in Nat /\ written[c] <= Len(stream[c])
    BY DEF Inv, Kinds, Counts
  <1>6. /\ parsed[c] = Len(stream[c]) /\ \A i \in 1..Len(stream[c]) : stream[c][i] = i
    BY <1>3 DEF Inv, Answered
  <1>7. req \in Nat /\ req = parsed[c] + 1
    BY <1>5
  <1> HIDE DEF req
  <1>8. /\ out \in Seq(Nat) /\ Len(out) = Len(stream[c]) + 1 /\ out[Len(out)] = req
        /\ \A i \in 1..Len(stream[c]) : out[i] = stream[c][i]
        /\ Len(stream[c]) \in Nat
    BY <1>5, <1>7
  <1> HIDE DEF out
  <1>9. /\ stream' \in [Conns -> Seq(Nat)] /\ stream'[c] = out
        /\ \A d \in Conns \ {c} : stream'[d] = stream[d]
    BY <1>1, <1>5, <1>8
  <1>10. /\ parsed' \in [Conns -> Nat] /\ parsed'[c] = req
         /\ \A d \in Conns \ {c} : parsed'[d] = parsed[d]
    BY <1>1, <1>5, <1>7
  <1>11. Settled(c, FALSE, ready2) /\ LinkCount' /\ WritesUpTo(c, Len(out))
    <2>1. written[c] <= Len(out)
      BY <1>5, <1>8
    <2>2. ProcResult(c, FALSE, out, req, ready2)
      BY <1>1, <1>9 DEF ProcResult
    <2> QED
      BY <1>3, <1>7, <1>8, <2>1, <2>2, SettlesSecond
  <1>12. /\ fd' \in [Conns -> Fds \cup {0}] /\ FlagsAgree' /\ DataLive'
         /\ \A d \in Conns \ {c} : fd'[d] = fd[d] /\ (Alive(d)' <=> Alive(d))
         /\ \A d \in Conns \ {c} : Alive(d) => fde'.kernel[fd'[d]] = fde.kernel[fd[d]]
         /\ \A d, g \in Conns : Alive(d)' /\ fd'[d] = fd'[g] => d = g
    BY <1>3, <1>11, LinkTouched DEF Settled
  <1>13. /\ ready2' \in Seq(Conns) /\ Distinct(ready2')
         /\ \A d \in Conns \ {c} : d \in On(ready2') <=> d \in On(ready2)
         /\ c \in On(ready2') => ready2' = Append(ready2, c)
         /\ c \in On(Append(ready2, c))
    <2>1. ready2 \in Seq(Conns) /\ Distinct(ready2)
      BY DEF Inv, Kinds, Lists
    <2>2. /\ Append(ready2, c) \in Seq(Conns) /\ Distinct(Append(ready2, c))
          /\ On(Append(ready2, c)) = On(ready2) \cup {c}
      BY <1>3, <2>1, AppendOn
    <2> QED
      BY <1>3, <1>11, <2>1, <2>2 DEF Settled
  <1>14. /\ c \in On(ready2') => fd' = fd
         /\ c \in On(ready2') /\ Alive(c)' => "in" \notin fde'.kernel[fd'[c]]
         /\ c \notin On(ready2') /\ Alive(c)' => "in" \in fde'.kernel[fd'[c]]
    <2>1. CASE /\ fd' = [fd EXCEPT ![c] = 0] /\ ready2' = ready2
      <3>1. ~Alive(c)'
        BY <2>1 DEF Inv, Kinds, Alive
      <3> QED
        BY <1>3, <2>1, <3>1
    <2>2. CASE fd' = fd /\ ready2' = ready2 /\ "in" \in fde'.kernel[fd[c]]
      BY <1>3, <2>2
    <2>3. CASE fd' = fd /\ ready2' = Append(ready2, c) /\ "in" \notin fde'.kernel[fd[c]]
      BY <1>13, <2>3
    <2> QED
      BY <1>11, <2>1, <2>2, <2>3 DEF Settled
  <1>15. \A d \in Conns : (InPool(d)' <=> InPool(d)) /\ (Owed(d)' <=> Owed(d))
    BY <1>2 DEF InPool, Owed, Runs
  <1>16. PoolsDistinct' /\ Reasons'
    BY <1>1, <1>2 DEF Inv, PoolsDistinct, Reasons, Runs
  <1>17. JobsFit'
    <2>1. ASSUME NEW p \in Pools, NEW i \in DOMAIN jobs[p]
          PROVE  jobs[p][i].req = parsed'[jobs[p][i].link]
      <3>1. jobs[p][i].link \in Conns
        BY <2>1, JobFacts DEF Inv, Kinds
      <3>2. jobs[p][i].link # c
        BY <1>3, <2>1 DEF InPool, LinksOf
      <3> QED
        BY <1>10, <2>1, <3>1, <3>2 DEF Inv, JobsFit
    <2>2. ASSUME NEW w \in Workers, running[w].state = "taken"
          PROVE  running[w].req = parsed'[running[w].link]
      <3>1. running[w] \in Jobs
        <4>1. running[w] \in Jobs \cup {NoJob}
          BY DEF Inv, Kinds
        <4>2. NoJob.state # "taken"
          BY DEF NoJob
        <4> QED
          BY <2>2, <4>1, <4>2
      <3>2. running[w].link \in Conns /\ running[w].link # c
        BY <1>3, <3>1, JobFacts DEF Runs, InPool
      <3> QED
        BY <1>10, <2>2, <3>2 DEF Inv, JobsFit
    <2> QED
      BY <1>2, <2>1, <2>2 DEF Inv, JobsFit
  <1>18. Kinds'
    <2>1. /\ fde' \in Registries /\ written' \in [Conns -> Nat]
      BY <1>11 DEF Settled, OnlyAt, WritesUpTo
    <2> QED
      BY <1>1, <1>2, <1>3, <1>9, <1>10, <1>12, <1>13, <2>1 DEF Inv, Kinds
  <1>19. Counts'
    <2> SUFFICES ASSUME NEW d \in Conns
                 PROVE  /\ Parts * parsed'[d] <= received[d]
                        /\ consumed[d] <= written'[d]
                        /\ written'[d] <= Len(stream'[d])
                        /\ written'[d] - consumed[d] <= SendBuf
      BY <1>1, <1>2 DEF Inv, Counts
    <2>1. CASE d = c
      BY <1>4, <1>9, <1>10, <1>11, <2>1 DEF WritesUpTo
    <2>2. CASE d # c
      BY <1>9, <1>10, <1>11, <2>2 DEF Inv, Counts, WritesUpTo
    <2> QED
      BY <2>1, <2>2
  <1>20. Answered'
    <2> SUFFICES ASSUME NEW d \in Conns
                 PROVE  /\ \A i \in 1..Len(stream'[d]) : stream'[d][i] = i
                        /\ Owed(d) => parsed'[d] = Len(stream'[d]) + 1
                        /\ ~Owed(d) => parsed'[d] = Len(stream'[d])
      BY <1>15 DEF Answered
    <2>1. CASE d = c
      <3>1. \A i \in 1..Len(out) : i \in 1..Len(stream[c]) \/ i = Len(out)
        BY <1>8
      <3>2. req = Len(out)
        BY <1>6, <1>7, <1>8
      <3> QED
        BY <1>3, <1>6, <1>8, <1>9, <1>10, <2>1, <3>1, <3>2
    <2>2. CASE d # c
      BY <1>9, <1>10, <2>2 DEF Inv, Answered
    <2> QED
      BY <2>1, <2>2
  <1>21. Descriptors'
    <2>1. \A d \in Conns : Alive(d)' => peer'[d] \in {"accepted", "closed"}
      BY <1>2, <1>3, <1>12 DEF Inv, Descriptors
    <2>2. \A d \in Conns : d \in On(ready)' \/ d \in On(ready2)' \/ InPool(d)' => Alive(d)'
      <3>1. c \in On(ready2') => Alive(c)'
        BY <1>3, <1>14 DEF Alive
      <3> QED
        BY <1>1, <1>3, <1>12, <1>13, <1>15, <3>1 DEF Inv, Descriptors
    <2> QED
      BY <1>12, <2>1, <2>2 DEF Descriptors
  <1>22. Lists'
    BY <1>1, <1>3, <1>13, <1>15 DEF Inv, Lists
  <1>23. Heard'
    <2> SUFFICES ASSUME NEW d \in Conns, Alive(d)'
                 PROVE  /\ InPool(d) /\ current # d => fde'.kernel[fd'[d]] = {}
                        /\ d \in On(ready2') => "in" \notin fde'.kernel[fd'[d]]
                        /\ ~InPool(d) /\ d \notin On(ready') /\ d \notin On(ready2')
                             => "in" \in fde'.kernel[fd'[d]]
      BY <1>1, <1>15 DEF Heard
    <2>1. CASE d = c
      BY <1>3, <1>14, <2>1
    <2>2. CASE d # c
      <3>1. Alive(d) /\ fde'.kernel[fd'[d]] = fde.kernel[fd[d]]
        BY <1>12, <2>2
      <3> QED
        BY <1>1, <1>3, <1>13, <2>2, <3>1 DEF Inv, Heard
    <2> QED
      BY <2>1, <2>2
  <1>24. Fresh'
    BY <1>1, <1>3 DEF Fresh
  <1>25. Phases'
    BY <1>1, <1>3 DEF Phases, Inv
  <1> QED
    BY <1>11, <1>12, <1>16, <1>17, <1>18, <1>19, <1>20, <1>21, <1>22, <1>23, <1>24, <1>25 DEF Inv

-----------------------------------------------------------------------------
(* The invariant holds at first and is kept by every step.                  *)
LEMMA InitInv == Init => Inv
  <1> SUFFICES ASSUME Init PROVE Inv
    OBVIOUS
  <1> USE DEF Init
  <1>1. Kinds
    <2>1. /\ fd \in [Conns -> Fds \cup {0}] /\ stream \in [Conns -> Seq(Nat)]
          /\ jobs \in [Pools -> Seq(Jobs)] /\ results \in [Pools -> Seq(Jobs)]
          /\ running \in [Workers -> Jobs \cup {NoJob}]
      OBVIOUS
    <2>2. fde \in Registries
      BY DEF NoEvents, Registries, Flags
    <2> QED
      BY <2>1, <2>2 DEF Kinds
  <1>2. Counts
    BY ServerAssumption DEF Counts
  <1>3. LinkCount
    <2>1. {c \in Conns : Alive(c)} = {}
      BY DEF Alive
    <2> QED
      BY <2>1, FS_EmptySet DEF LinkCount
  <1>4. \A c \in Conns : ~InPool(c) /\ ~Owed(c)
    BY DEF InPool, Owed, LinksOf, Runs
  <1>5. PoolsDistinct
    BY DEF PoolsDistinct, DistinctLinks, LinksOf, Runs
  <1>6. JobsFit
    BY DEF JobsFit, NoJob
  <1>7. Answered
    BY <1>4 DEF Answered
  <1>8. Reasons
    BY DEF Reasons
  <1>9. Descriptors
    BY <1>4, EmptyList DEF Descriptors, Alive
  <1>10. FlagsAgree /\ DataLive
    BY DEF FlagsAgree, DataLive, NoEvents
  <1>11. Lists
    BY <1>4, EmptyList DEF Lists
  <1>12. Heard /\ Fresh /\ Phases
    BY DEF Heard, Fresh, Phases, Alive
  <1> QED
    BY <1>1, <1>2, <1>3, <1>5, <1>6, <1>7, <1>8, <1>9, <1>10, <1>11, <1>12 DEF Inv

LEMMA StutterInv ==
    ASSUME Inv, UNCHANGED vars
    PROVE  Inv'
  <1>1. /\ UNCHANGED <<events, ready, ready2, current, fde, link_count, phase>>
        /\ UNCHANGED clientVars /\ UNCHANGED linkVars /\ UNCHANGED poolVars
    BY DEF vars, loopVars
  <1>2. /\ peer' = peer /\ sent' = sent /\ fd' = fd /\ received' = received /\ results' = results
        /\ parsed' = parsed /\ stream' = stream /\ error' = error
        /\ consumed' = consumed /\ written' = written
    BY <1>1 DEF clientVars, linkVars, poolVars
  <1>3. /\ PoolsDistinct' /\ JobsFit' /\ Answered' /\ Reasons'
        /\ \A c \in Conns : (InPool(c)' <=> InPool(c)) /\ (Owed(c)' <=> Owed(c))
    BY <1>1, <1>2, PoolsKept
  <1>4. Kinds'
    BY <1>1 DEF Inv, Kinds, clientVars, linkVars, poolVars
  <1>5. /\ LinkCount' /\ Descriptors' /\ FlagsAgree' /\ DataLive'
        /\ Lists' /\ Heard' /\ Fresh' /\ Phases'
    BY <1>1, <1>2, <1>3, LoopKept DEF loopVars
  <1>6. Counts'
    BY <1>1, <1>2 DEF Inv, Counts
  <1> QED
    BY <1>3, <1>4, <1>5, <1>6 DEF Inv

LEMMA NextInv ==
    ASSUME Inv, [Next]_vars
    PROVE  Inv'
  <1>1. CASE Wait \/ Interrupted
    BY <1>1, PollInv
  <1>2. CASE HandleEvent
    <2>1. phase = "events"
      BY <1>2 DEF HandleEvent
    <2>2. PICK e \in events : Accept(e) \/ PopResult(e) \/ ProcRequest(e)
      BY <1>2 DEF HandleEvent
    <2>3. CASE Accept(e)
      BY <2>1, <2>3, AcceptInv
    <2>4. CASE PopResult(e)
      BY <2>1, <2>4, PopInv
    <2>5. CASE ProcRequest(e)
      BY <2>1, <2>5, RequestInv
    <2> QED
      BY <2>2, <2>3, <2>4, <2>5
  <1>3. CASE EventsDone \/ ReadyDone
    BY <1>3, PhaseInv
  <1>4. CASE HandleReady
    <2>1. phase = "ready" /\ ready # <<>>
      BY <1>4 DEF HandleReady
    <2>2. CASE ReadyDrop
      BY <2>1, <2>2, DropInv
    <2>3. CASE ReadyWatch
      BY <2>1, <2>3, WatchInv
    <2>4. CASE ReadyThread
      BY <2>1, <2>4, ThreadInv
    <2>5. CASE ReadyMain
      BY <2>1, <2>5, CommandInv
    <2> QED
      BY <1>4, <2>2, <2>3, <2>4, <2>5 DEF HandleReady
  <1>5. CASE DelAfterPush
    BY <1>5, DelInv
  <1>6. ASSUME NEW w \in Workers, Worker(w)
        PROVE  Inv'
    BY <1>6, TakeInv, RunInv, PushInv DEF Worker
  <1>7. ASSUME NEW c \in Conns, Client(c)
        PROVE  Inv'
    BY <1>7, ClientInv
  <1>8. CASE UNCHANGED vars
    BY <1>8, StutterInv
  <1> QED
    BY <1>1, <1>2, <1>3, <1>4, <1>5, <1>6, <1>7, <1>8 DEF Next, Main

LEMMA Invariance == Spec => []Inv
  <1>1. Init => Inv
    BY InitInv
  <1>2. Inv /\ [Next]_vars => Inv'
    BY NextInv
  <1> QED
    BY <1>1, <1>2, PTL DEF Spec

(* The variables keep their kinds, what is decoded was read and what is     *)
(* read was sent, no more goes to the kernel than it has room for, and      *)
(* link_count counts the live links.                                        *)
THEOREM TypeCorrect == Spec => []TypeOK
  <1>1. Inv => TypeOK
    BY DEF Inv, Kinds, Counts, LinkCount, TypeOK
  <1> QED
    BY <1>1, Invariance, PTL

(* However set, clr, del and close follow each other, Fdevents believes     *)
(* what the kernel has registered.                                          *)
THEOREM FlagsAgreeHolds == Spec => []FlagsAgree
  <1>1. Inv => FlagsAgree
    BY DEF Inv
  <1> QED
    BY <1>1, Invariance, PTL

(* Every client gets its responses in the order of its requests, one each,  *)
(* whichever threads made them.                                             *)
THEOREM InOrder == Spec => []ResponsesInOrder
  <1>1. Inv => ResponsesInOrder
    <2> SUFFICES ASSUME Inv, NEW c \in Conns
                 PROVE  /\ \A i \in 1..Len(stream[c]) : stream[c][i] = i
                        /\ Len(stream[c]) \in {parsed[c], parsed[c] - 1}
      BY DEF ResponsesInOrder
    <2>1. parsed[c] \in Nat /\ stream[c] \in Seq(Nat)
      BY DEF Inv, Kinds
    <2>2. Len(stream[c]) \in Nat
      BY <2>1
    <2>3. /\ \A i \in 1..Len(stream[c]) : stream[c][i] = i
          /\ parsed[c] = Len(stream[c]) + 1 \/ parsed[c] = Len(stream[c])
      BY DEF Inv, Answered
    <2> QED
      BY <2>1, <2>2, <2>3
  <1> QED
    BY <1>1, Invariance, PTL

-----------------------------------------------------------------------------
(* How often a link is held, by whom.                                       *)
LEMMA InListOnce ==
    ASSUME NEW list, Distinct(list), NEW c
    PROVE  InList(c, list) = IF c \in On(list) THEN 1 ELSE 0
  <1>1. CASE c \in On(list)
    <2>1. PICK i \in DOMAIN list : list[i] = c
      BY <1>1 DEF On
    <2>2. {j \in DOMAIN list : list[j] = c} = {i}
      BY <2>1 DEF Distinct
    <2> QED
      BY <1>1, <2>2, FS_Singleton DEF InList
  <1>2. CASE c \notin On(list)
    <2>1. {j \in DOMAIN list : list[j] = c} = {}
      BY <1>2 DEF On
    <2> QED
      BY <1>2, <2>1, FS_EmptySet DEF InList
  <1> QED
    BY <1>1, <1>2

LEMMA InQueueOnce ==
    ASSUME NEW q, DistinctLinks(q), NEW c
    PROVE  InQueue(c, q) = IF c \in LinksOf(q) THEN 1 ELSE 0
  <1>1. CASE c \in LinksOf(q)
    <2>1. PICK i \in DOMAIN q : q[i].link = c
      BY <1>1 DEF LinksOf
    <2>2. {j \in DOMAIN q : q[j].link = c} = {i}
      BY <2>1 DEF DistinctLinks
    <2> QED
      BY <1>1, <2>2, FS_Singleton DEF InQueue
  <1>2. CASE c \notin LinksOf(q)
    <2>1. {j \in DOMAIN q : q[j].link = c} = {}
      BY <1>2 DEF LinksOf
    <2> QED
      BY <1>2, <2>1, FS_EmptySet DEF InQueue
  <1> QED
    BY <1>1, <1>2

LEMMA HeldOnce ==
    ASSUME Inv, NEW c \in Conns
    PROVE  /\ ReadyHolds(c) = IF c \in On(ready) \/ c \in On(ready2) THEN 1 ELSE 0
           /\ PoolHolds(c) = IF InPool(c) THEN 1 ELSE 0
  <1>1. ReadyHolds(c) = IF c \in On(ready) \/ c \in On(ready2) THEN 1 ELSE 0
    <2>1. /\ InList(c, ready) = IF c \in On(ready) THEN 1 ELSE 0
          /\ InList(c, ready2) = IF c \in On(ready2) THEN 1 ELSE 0
      BY InListOnce DEF Inv, Lists
    <2>2. ~(c \in On(ready) /\ c \in On(ready2))
      BY DEF Inv, Lists
    <2> QED
      BY <2>1, <2>2 DEF ReadyHolds
  <1>2. PoolHolds(c) = IF InPool(c) THEN 1 ELSE 0
    <2>1. \A p \in Pools : /\ InQueue(c, jobs[p]) = IF c \in LinksOf(jobs[p]) THEN 1 ELSE 0
                           /\ InQueue(c, results[p]) = IF c \in LinksOf(results[p]) THEN 1 ELSE 0
      BY InQueueOnce DEF Inv, PoolsDistinct
    <2>2. Cardinality(RunBy(c)) = IF \E w \in Workers : Runs(w, c) THEN 1 ELSE 0
      <3>1. CASE \E w \in Workers : Runs(w, c)
        <4>1. PICK w \in Workers : Runs(w, c)
          BY <3>1
        <4>2. RunBy(c) = {w}
          BY <4>1 DEF Inv, PoolsDistinct, RunBy, Runs
        <4> QED
          BY <3>1, <4>2, FS_Singleton
      <3>2. CASE ~\E w \in Workers : Runs(w, c)
        <4>1. RunBy(c) = {}
          BY <3>2 DEF RunBy, Runs
        <4> QED
          BY <3>2, <4>1, FS_EmptySet
      <3> QED
        BY <3>1, <3>2
    <2>3. /\ \A p, q \in Pools : ~(c \in LinksOf(jobs[p]) /\ c \in LinksOf(results[q]))
          /\ \A p, q \in Pools : p # q => /\ ~(c \in LinksOf(jobs[p]) /\ c \in LinksOf(jobs[q]))
                                          /\ ~(c \in LinksOf(results[p]) /\ c \in LinksOf(results[q]))
          /\ (\E w \in Workers : Runs(w, c)) =>
                \A p \in Pools : c \notin LinksOf(jobs[p]) /\ c \notin LinksOf(results[p])
      BY DEF Inv, PoolsDistinct
    <2>4. Pools = {"reader", "writer"} /\ "reader" # "writer"
      BY DEF Pools
    <2> QED
      BY <2>1, <2>2, <2>3, <2>4 DEF PoolHolds, InPool
  <1> QED
    BY <1>1, <1>2

(* No ready list, job, result, event or registration refers to a link that  *)
(* was deleted.                                                             *)
THEOREM NoDangling == Spec => []NoDanglingLink
  <1>1. Inv => NoDanglingLink
    <2> SUFFICES ASSUME Inv PROVE NoDanglingLink
      OBVIOUS
    <2>1. ASSUME NEW c \in Conns, ~Alive(c)
          PROVE  ReadyHolds(c) + PoolHolds(c) = 0
      BY <2>1, HeldOnce DEF Inv, Descriptors
    <2>2. ASSUME NEW f \in Fds, fde.kernel[f] # {}
          PROVE  fde.data[f] # NoConn /\ fd[fde.data[f]] = f
      BY <2>2, ServerAssumption DEF Inv, DataLive
    <2>3. \A e \in events : e.kind = "link" => fde.kernel[e.fd] # {}
      BY DEF Inv, Fresh
    <2> QED
      BY <2>1, <2>2, <2>3 DEF NoDanglingLink
  <1> QED
    BY <1>1, Invariance, PTL

(* A live link has one owner: a ready list, a pool, or the event registry.  *)
THEOREM OneOwnerHolds == Spec => []OneOwner
  <1>1. Inv => OneOwner
    <2> SUFFICES ASSUME Inv, NEW c \in Conns, Alive(c)
                 PROVE  /\ ReadyHolds(c) + PoolHolds(c) <= 1
                        /\ PoolHolds(c) = 1 /\ current # c => fde.kernel[fd[c]] = {}
                        /\ ReadyHolds(c) + PoolHolds(c) = 0 =>
                              "in" \in fde.kernel[fd[c]] /\ fde.data[fd[c]] = c
      BY DEF OneOwner
    <2>1. /\ ReadyHolds(c) = IF c \in On(ready) \/ c \in On(ready2) THEN 1 ELSE 0
          /\ PoolHolds(c) = IF InPool(c) THEN 1 ELSE 0
      BY HeldOnce
    <2>2. InPool(c) => c \notin On(ready) /\ c \notin On(ready2)
      BY DEF Inv, Lists
    <2>3. /\ InPool(c) /\ current # c => fde.kernel[fd[c]] = {}
          /\ ~InPool(c) /\ c \notin On(ready) /\ c \notin On(ready2) => "in" \in fde.kernel[fd[c]]
      BY DEF Inv, Heard
    <2>4. "in" \in fde.kernel[fd[c]] => fde.data[fd[c]] = c
      BY LiveFd DEF Inv, DataLive, Descriptors
    <2> QED
      BY <2>1, <2>2, <2>3, <2>4
  <1> QED
    BY <1>1, Invariance, PTL

(* A connection is dropped only when its client closed it or sent something *)
(* that is no request: by proc_result, or from the ready list.              *)
LEMMA DropsNeedReasons ==
    ASSUME Inv, Next, NEW c \in Conns, Alive(c), fd'[c] = 0
    PROVE  peer[c] = "closed" \/ garbage[c] # 0
  <1>1. fd \in [Conns -> Fds \cup {0}] /\ fd[c] # 0 /\ fd' # fd
    BY DEF Inv, Kinds, Alive
  <1>2. ASSUME NEW e \in events, Accept(e)
        PROVE  FALSE
    <2>1. PICK d \in Conns, f \in Fds : fd' = [fd EXCEPT ![d] = f]
      BY <1>1, <1>2 DEF Accept, accept_link, FreeFds
    <2> QED
      BY <1>1, <2>1, ServerAssumption
  <1>3. ASSUME NEW e \in events, PopResult(e), phase = "events"
        PROVE  peer[c] = "closed"
    <2>1. e.kind \in Pools /\ results[e.kind] # <<>> /\ results[e.kind] \in Seq(Jobs)
      BY <1>3 DEF PopResult, Inv, Fresh, Kinds
    <2>2. PICK d \in Conns : d = Head(results[e.kind]).link
      BY <2>1, TailLinks, JobFacts
    <2>3. Head(results[e.kind]).result = "error" => peer[d] = "closed"
      <3>1. 1 \in DOMAIN results[e.kind] /\ Head(results[e.kind]) = results[e.kind][1]
        BY <2>1
      <3> QED
        BY <2>1, <2>2, <3>1 DEF Inv, Reasons
    <2>4. fd' = [fd EXCEPT ![d] = 0] /\ peer[d] = "closed"
      BY <1>1, <1>3, <2>2, <2>3 DEF PopResult, ProcResult, Deleted
    <2> QED
      BY <1>1, <2>4
  <1>4. ASSUME ready # <<>>, ReadyDrop
        PROVE  peer[c] = "closed" \/ garbage[c] # 0
    <2>1. PICK d \in Conns : d = Head(ready)
      BY <1>4, TailOn DEF Inv, Kinds
    <2>2. fd' = [fd EXCEPT ![d] = 0] /\ (error[d] \/ Malformed(d))
      BY <1>4, <2>1 DEF ReadyDrop, Deleted
    <2>3. c = d
      BY <1>1, <2>2
    <2> QED
      BY <2>2, <2>3 DEF Malformed, Inv, Reasons
  <1>5. ASSUME ready # <<>>, ReadyMain
        PROVE  peer[c] = "closed"
    <2>1. PICK d \in Conns : d = Head(ready)
      BY <1>5, TailOn DEF Inv, Kinds
    <2>2. fd' = [fd EXCEPT ![d] = 0] /\ peer[d] = "closed"
      BY <1>1, <1>5, <2>1 DEF ReadyMain, ProcResult, Deleted
    <2> QED
      BY <1>1, <2>2
  <1>6. CASE Wait \/ Interrupted \/ EventsDone \/ ReadyDone \/ DelAfterPush
    BY <1>1, <1>6 DEF Wait, Interrupted, EventsDone, ReadyDone, DelAfterPush, linkVars
  <1>7. CASE HandleEvent
    BY <1>1, <1>2, <1>3, <1>7 DEF HandleEvent, ProcRequest
  <1>8. CASE HandleReady
    BY <1>1, <1>4, <1>5, <1>8 DEF HandleReady, ReadyWatch, ReadyThread, linkVars
  <1>9. CASE \E w \in Workers : Worker(w)
    BY <1>1, <1>9 DEF Worker, TakeJob, RunJob, PushResult, linkVars
  <1>10. CASE \E d \in Conns : Client(d)
    BY <1>1, <1>10 DEF Client, Connect, Send, SendGarbage, Consume, Close, linkVars
  <1> QED
    BY <1>6, <1>7, <1>8, <1>9, <1>10 DEF Next, Main

(* No event left over from another moment, or from another owner of the     *)
(* descriptor, makes the server give up a connection.                       *)
THEOREM DropsHaveReasons == Spec => DroppedForAReason
  <1>1. Inv /\ [Next]_vars => [\A c \in Conns : Alive(c) /\ fd'[c] = 0 =>
                                   peer[c] = "closed" \/ garbage[c] # 0]_vars
    BY DropsNeedReasons
  <1> QED
    BY <1>1, Invariance, PTL DEF Spec, DroppedForAReason
=============================================================================
