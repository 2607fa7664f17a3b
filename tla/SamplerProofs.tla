--------------------------- MODULE SamplerProofs ----------------------------
(***************************************************************************)
(* Proofs about Sampler, for any sets of requests and domains and any      *)
(* capacity of the queue.                                                  *)
(***************************************************************************)
EXTENDS Sampler, SequenceTheorems, TLAPS

USE SamplerAssumption

Outcomes == {"too_much_data", "not_running", "new", "queued", "taken", "done", "timeout"}
Steps == {"idle", "work", "dispatch", "collect"}

\* The parts of TypeOK that do not need the counts of Progress.
Types ==
    /\ queue \in Seq(Tasks) /\ Len(queue) <= MaxTasks
    /\ outcome \in [Tasks -> Outcomes]
    /\ running \in {"loop", "quit", "stopped"}
    /\ step \in [Tasks -> Steps]
    /\ todo \in [Requests -> SUBSET Domains]
    /\ err \in [Tasks -> {0, -1}]
    /\ records \in [Tasks -> SUBSET Domains] /\ failed \subseteq DomainTasks
    /\ refs \in [Tasks -> {"none", "held", "freed", "leaked"}]
    /\ errors \in [Tasks -> Nat]
    /\ samples \in [Tasks -> SUBSET Domains] /\ silent \subseteq DomainTasks

LEMMA RequestTask ==
    ASSUME NEW r \in Requests PROVE <<r, NoDom>> \in Tasks /\ \A d \in Domains : <<r, d>> \in Tasks
  BY DEF Tasks

\* collect_error counts one more response for its task.
LEMMA ErrorCounted ==
    ASSUME Types, NEW k \in Tasks, collect_error(k)
    PROVE  /\ errors' \in [Tasks -> Nat] /\ errors'[k] = errors[k] + 1
           /\ \A x \in Tasks : x # k => errors'[x] = errors[x]
<1>1. errors \in [Tasks -> Nat] /\ errors' = [errors EXCEPT ![k] = errors[k] + 1]
  BY DEF Types, collect_error
<1>2. errors[k] + 1 \in Nat
  BY <1>1
<1> QED
  BY <1>1, <1>2

\* executor_dispatch and the other operations of the pool keep its types.
LEMMA PoolType ==
    ASSUME Types, NEW k \in Tasks,
           \/ Accepted(k) \/ Refused(k) \/ P!Take(k) \/ UNCHANGED pool
           \/ \E late \in BOOLEAN : P!Report(k, late)
    PROVE  /\ queue' \in Seq(Tasks) /\ Len(queue') <= MaxTasks
           /\ outcome' \in [Tasks -> Outcomes]
<1>1. CASE Accepted(k)
  <2>1. queue' = Append(queue, k) /\ Len(queue) < MaxTasks /\ outcome' = [outcome EXCEPT ![k] = "queued"]
    BY <1>1 DEF Accepted, P!Accept
  <2>2. queue' \in Seq(Tasks) /\ Len(queue') = Len(queue) + 1 /\ Len(queue) \in Nat
    BY <2>1, AppendProperties, LenProperties DEF Types
  <2> QED
    BY <2>1, <2>2 DEF Types, Outcomes
<1>2. CASE Refused(k)
  BY <1>2 DEF Refused, P!Refuse, P!Refusals, Types, Outcomes
<1>3. CASE P!Take(k)
  <2>1. queue' = Tail(queue) /\ queue # <<>> /\ outcome' = [outcome EXCEPT ![k] = "taken"]
    BY <1>3 DEF P!Take
  <2>2. queue' \in Seq(Tasks) /\ Len(queue') = Len(queue) - 1 /\ Len(queue) \in Nat
    BY <2>1, HeadTailProperties, LenProperties DEF Types
  <2> QED
    BY <2>1, <2>2 DEF Types, Outcomes
<1>4. CASE UNCHANGED pool
  BY <1>4 DEF pool, Types
<1>5. ASSUME NEW late \in BOOLEAN, P!Report(k, late)
      PROVE  queue' = queue /\ outcome' \in [Tasks -> Outcomes]
  BY <1>5 DEF P!Report, Types, Outcomes
<1> QED
  BY <1>1, <1>2, <1>3, <1>4, <1>5 DEF Types

LEMMA InitTypes == Init => Types
<1> SUFFICES ASSUME Init PROVE Types
  OBVIOUS
<1>1. queue = <<>> /\ outcome = [k \in Tasks |-> "new"]
  BY DEF Init, P!Init
<1>2. queue \in Seq(Tasks) /\ Len(queue) <= MaxTasks
  BY <1>1, EmptySeq
<1> QED
  BY <1>1, <1>2 DEF Init, Types, Outcomes, Steps

LEMMA NextTypes == Types /\ [Next]_vars => Types'
<1> SUFFICES ASSUME Types, [Next]_vars PROVE Types'
  OBVIOUS
<1>1. ASSUME NEW r \in Requests, vmon_io_callback(r) \/ poll_libvirt(r) PROVE Types'
  <2>1. /\ Accepted(<<r, NoDom>>) \/ Refused(<<r, NoDom>>) \/ UNCHANGED pool
        /\ running' \in {"loop", "quit", "stopped"}
        /\ UNCHANGED <<step, todo, err, libvirt, refs, out>>
    BY <1>1 DEF vmon_io_callback, poll_libvirt, sampler_handle_request, sampler_send_request, Types
  <2> QED
    BY <2>1, RequestTask, PoolType DEF Types, out, libvirt
<1>2. CASE vmon_io_eof \/ StopExecutor
  BY <1>2 DEF vmon_io_eof, StopExecutor, Types, pool, out, libvirt
<1>3. ASSUME NEW r \in Requests, list_domains_work(r) PROVE Types'
  <2>1. <<r, NoDom>> \in Tasks /\ \A d \in Domains : <<r, d>> \in Tasks
    BY RequestTask
  <2>2. CASE ListFails(r)
    BY <2>1, <2>2 DEF ListFails, collect_error, Goto, Types, Steps, pool, libvirt
  <2>3. CASE ListDomains(r)
    BY <2>1, <2>3 DEF ListDomains, Goto, Types, Steps, pool, out, libvirt
  <2>4. ASSUME NEW d \in Domains, DispatchDomain(r, d) PROVE Types'
    <3>1. /\ Accepted(<<r, d>>) \/ Refused(<<r, d>>)
          /\ todo' = [todo EXCEPT ![r] = @ \ {d}]
          /\ UNCHANGED <<running, step, records, failed, samples, silent>>
      BY <2>4 DEF DispatchDomain, libvirt
    <3>2. err' \in [Tasks -> {0, -1}]
      BY <2>1, <2>4 DEF DispatchDomain, Types
    <3>3. refs' \in [Tasks -> {"none", "held", "freed", "leaked"}]
      BY <2>1, <2>4 DEF DispatchDomain, Types
    <3>4. errors' \in [Tasks -> Nat]
      <4>1. errors' = errors \/ collect_error(<<r, d>>)
        BY <2>4 DEF DispatchDomain
      <4> QED
        BY <2>1, <4>1, ErrorCounted DEF Types
    <3>5. todo' \in [Requests -> SUBSET Domains]
      BY <3>1 DEF Types
    <3> QED
      BY <2>1, <3>1, <3>2, <3>3, <3>4, <3>5, PoolType DEF Types
  <2>5. CASE ListReturns(r)
    BY <2>1, <2>5 DEF ListReturns, Goto, Types, Steps, pool, out, libvirt
  <2> QED
    BY <1>3, <2>2, <2>3, <2>4, <2>5 DEF list_domains_work
<1>4. ASSUME NEW k \in Tasks, Work(k) PROVE Types'
  <2>1. step' \in [Tasks -> Steps]
    <3>1. \E l \in Steps : step' = [step EXCEPT ![k] = l]
      BY <1>4 DEF Work, Take, sample_domain_work, bulk_sampling_work, sampling_collect, Goto, Steps
    <3> QED
      BY <3>1 DEF Types
  <2>2. records' \in [Tasks -> SUBSET Domains] /\ failed' \subseteq DomainTasks
    <3>1. records' = records \/ \E ds \in SUBSET Domains : records' = [records EXCEPT ![k] = ds]
      BY <1>4 DEF Work, Take, sample_domain_work, bulk_sampling_work, sampling_collect, libvirt
    <3>2. failed' \subseteq failed \/ (k[2] # NoDom /\ failed' = failed \cup {k})
      BY <1>4 DEF Work, Take, sample_domain_work, bulk_sampling_work, sampling_collect, libvirt
    <3>3. k[2] # NoDom => k \in DomainTasks
      BY DEF Tasks, DomainTasks
    <3>4. records' \in [Tasks -> SUBSET Domains]
      BY <3>1 DEF Types
    <3> QED
      BY <3>2, <3>3, <3>4 DEF Types
  <2>3. refs' \in [Tasks -> {"none", "held", "freed", "leaked"}]
    BY <1>4 DEF Work, Take, sample_domain_work, bulk_sampling_work, sampling_collect, Types
  <2>4. errors' \in [Tasks -> Nat]
    <3>1. errors' = errors \/ collect_error(k)
      BY <1>4 DEF Work, Take, sample_domain_work, bulk_sampling_work, sampling_collect, out
    <3> QED
      BY <3>1, ErrorCounted DEF Types
  <2>5. samples' \in [Tasks -> SUBSET Domains] /\ silent' \subseteq DomainTasks
    <3>1. \/ samples' = samples /\ silent' = silent
          \/ samples' = [samples EXCEPT ![k] = records[k]] /\ silent' = silent \cup (failed \cap {k})
      BY <1>4 DEF Work, Take, sample_domain_work, bulk_sampling_work, sampling_collect, out
    <3> QED
      BY <3>1 DEF Types
  <2>6. /\ UNCHANGED <<running, todo, err>>
        /\ P!Take(k) \/ UNCHANGED pool \/ \E late \in BOOLEAN : P!Report(k, late)
    BY <1>4 DEF Work, Take, sample_domain_work, bulk_sampling_work, sampling_collect
  <2> QED
    BY <2>1, <2>2, <2>3, <2>4, <2>5, <2>6, PoolType DEF Types
<1>5. CASE UNCHANGED vars
  BY <1>5 DEF vars, pool, out, libvirt, Types
<1> QED
  BY <1>1, <1>2, <1>3, <1>4, <1>5 DEF Next

(***************************************************************************)
(* Progress of a task                                                      *)
(***************************************************************************)

\* A task that has not been taken has written nothing, a work function writes at
\* most one error, sampling_collect one more.
Counts ==
    \A k \in Tasks :
        /\ step[k] # "idle" <=> outcome[k] = "taken"
        /\ outcome[k] \in {"new", "queued"} \/ step[k] \in {"work", "dispatch"} => errors[k] = 0
        /\ step[k] = "collect" => errors[k] <= 1
        /\ errors[k] <= 2

\* The domains of a request come to life when it lists them, and wait for it.
Waits(r, d) ==
    /\ d \in todo[r] => step[<<r, NoDom>>] = "dispatch" /\ outcome[<<r, d>>] = "new"
    /\ outcome[<<r, NoDom>>] \in {"new", "queued"} \/ step[<<r, NoDom>>] = "work" =>
           outcome[<<r, d>>] = "new" /\ refs[<<r, d>>] = "none"
Listing == \A r \in Requests, d \in Domains : Waits(r, d)

\* What is known of the answer to a domain, from its listing to the end.
Answered(k) ==
    /\ err[k] = 0
    /\ outcome[k] \in {"new", "queued", "taken"} => errors[k] = 0 /\ samples[k] = {}
    /\ step[k] = "collect" => records[k] = Domains \/ k \in failed
    /\ refs[k] # "none" =>
           \/ k[2] \in todo[k[1]] \/ Alive(k)
           \/ errors[k] = 1 /\ samples[k] = {}
           \/ errors[k] = 0 /\ (k[2] \in samples[k] \/ k \in silent)
Answers == \A k \in DomainTasks : Answered(k)

IInv == Types /\ Counts /\ Listing /\ RefsHeld /\ Answers

LEMMA Pairs ==
    /\ \A r, s \in Requests, d, e \in Domains \cup {NoDom} : <<r, d>> = <<s, e>> => r = s /\ d = e
    /\ \A k \in Tasks : k[1] \in Requests /\ k[2] \in Domains \cup {NoDom} /\ k = <<k[1], k[2]>>
    /\ \A k \in DomainTasks : k \in Tasks /\ k[1] \in Requests /\ k[2] \in Domains /\ k = <<k[1], k[2]>>
    /\ \A r \in Requests, d \in Domains : <<r, d>> \in DomainTasks
    /\ \A r \in Requests, d \in Domains \cup {NoDom} : <<r, d>>[1] = r /\ <<r, d>>[2] = d
  BY DEF Tasks, DomainTasks

\* What the two results of executor_dispatch do to the task.
LEMMA Dispatched ==
    ASSUME Types, NEW k \in Tasks, Accepted(k) \/ Refused(k)
    PROVE  /\ outcome[k] = "new"
           /\ outcome'[k] = IF Accepted(k) THEN "queued" ELSE "not_running"
           /\ \A x \in Tasks : x # k => outcome'[x] = outcome[x]
<1>1. ASSUME Accepted(k)
      PROVE  outcome[k] = "new" /\ outcome' = [outcome EXCEPT ![k] = "queued"]
  BY <1>1 DEF Accepted, P!Accept
<1>2. ASSUME Refused(k)
      PROVE  outcome[k] = "new" /\ outcome' = [outcome EXCEPT ![k] = "not_running"]
  <2>1. PICK why \in P!Refusals : outcome' = [outcome EXCEPT ![k] = why]
    BY <1>2 DEF Refused, P!Refuse
  <2> QED
    BY <1>2, <2>1 DEF Refused, P!Refuse, Types
<1> QED
  BY <1>1, <1>2 DEF Types

\* A request is dispatched, or refused, by the main loop.
LEMMA RequestStep ==
    ASSUME IInv, NEW r \in Requests, vmon_io_callback(r) \/ poll_libvirt(r)
    PROVE  Counts' /\ Listing' /\ RefsHeld'
<1> DEFINE k == <<r, NoDom>>
<1>1. k \in Tasks /\ UNCHANGED <<step, todo, refs, errors>>
  BY RequestTask DEF vmon_io_callback, poll_libvirt, out
<1>2. CASE UNCHANGED pool
  BY <1>1, <1>2 DEF pool, IInv, Counts, Listing, Waits, RefsHeld, Alive
<1>3. CASE Accepted(k) \/ Refused(k)
  <2>1. /\ outcome[k] = "new" /\ outcome'[k] \in {"queued", "not_running"}
        /\ \A x \in Tasks : x # k => outcome'[x] = outcome[x]
    <3> HIDE DEF k
    <3> QED
      BY <1>1, <1>3, Dispatched DEF IInv
  <2>2. \A x \in DomainTasks : outcome'[x] = outcome[x]
    BY <2>1, Pairs
  <2>3. Counts'
    BY <1>1, <2>1 DEF IInv, Counts
  <2>4. Listing'
    <3>1. \A s \in Requests, d \in Domains : outcome'[<<s, d>>] = outcome[<<s, d>>]
      BY <2>2, Pairs
    <3>2. \A s \in Requests : outcome'[<<s, NoDom>>] \in {"new", "queued"} =>
              outcome[<<s, NoDom>>] \in {"new", "queued"}
      <4> SUFFICES ASSUME NEW s \in Requests, outcome'[<<s, NoDom>>] \in {"new", "queued"}
                   PROVE  outcome[<<s, NoDom>>] \in {"new", "queued"}
        OBVIOUS
      <4>1. <<s, NoDom>> \in Tasks
        BY RequestTask
      <4> HIDE DEF k
      <4> QED
        BY <2>1, <4>1
    <3>3. ASSUME NEW s \in Requests, NEW d \in Domains PROVE Waits(s, d)'
      <4>1. Waits(s, d)
        BY DEF IInv, Listing
      <4> QED
        BY <1>1, <3>1, <3>2, <4>1 DEF Waits
    <3> QED
      BY <3>3 DEF Listing
  <2>5. RefsHeld'
    BY <1>1, <2>2, Pairs DEF IInv, RefsHeld, Alive
  <2> QED
    BY <2>3, <2>4, <2>5
<1>4. Accepted(k) \/ Refused(k) \/ UNCHANGED pool
  BY DEF vmon_io_callback, poll_libvirt, sampler_handle_request, sampler_send_request
<1> QED
  BY <1>2, <1>3, <1>4

\* The work function of a request returns, perhaps with an error reported.
LEMMA ReturnStep ==
    ASSUME IInv, NEW r \in Requests, step[<<r, NoDom>>] \in {"work", "dispatch"}, todo[r] = {},
           Goto(<<r, NoDom>>, "collect"), UNCHANGED <<outcome, refs, todo>>,
           errors' = errors \/ collect_error(<<r, NoDom>>)
    PROVE  Counts' /\ Listing' /\ RefsHeld'
<1> DEFINE k == <<r, NoDom>>
<1>1. k \in Tasks /\ Types
  BY RequestTask DEF IInv
<1>2. step'[k] = "collect" /\ \A x \in Tasks : x # k => step'[x] = step[x]
  BY <1>1 DEF Goto, Types
<1>3. errors'[k] \in {errors[k], errors[k] + 1} /\ \A x \in Tasks : x # k => errors'[x] = errors[x]
  BY <1>1, ErrorCounted
<1>4. \A x \in DomainTasks : x # k /\ x \in Tasks
  BY Pairs
<1>5. Counts'
  <2> HIDE DEF k
  <2>1. errors[k] = 0 /\ outcome[k] = "taken"
    BY <1>1 DEF IInv, Counts, k
  <2> QED
    BY <1>1, <1>2, <1>3, <2>1 DEF IInv, Counts
<1>6. ASSUME NEW s \in Requests, NEW d \in Domains PROVE Waits(s, d)'
  <2>1. Waits(s, d) /\ Waits(r, d) /\ <<s, NoDom>> \in Tasks
    BY RequestTask DEF IInv, Listing
  <2>2. CASE s = r
    <3>1. outcome[k] = "taken"
      BY <1>1 DEF IInv, Counts
    <3> QED
      BY <1>2, <2>1, <2>2, <3>1 DEF Waits
  <2>3. CASE s # r
    <3>1. step'[<<s, NoDom>>] = step[<<s, NoDom>>]
      BY <1>2, <2>1, <2>3, Pairs
    <3> QED
      BY <2>1, <3>1 DEF Waits
  <2> QED
    BY <2>2, <2>3
<1>7. RefsHeld'
  <2>1. \A x \in DomainTasks : errors'[x] = errors[x]
    BY <1>3, <1>4
  <2> QED
    BY <2>1 DEF IInv, RefsHeld, Alive
<1> QED
  BY <1>5, <1>6, <1>7 DEF Listing

\* A list of domains, each with a reference.
LEMMA ListStep ==
    ASSUME IInv, NEW r \in Requests, ListDomains(r)
    PROVE  Counts' /\ Listing' /\ RefsHeld'
<1> DEFINE k == <<r, NoDom>>
<1>1. k \in Tasks /\ Types /\ step[k] = "work"
  BY RequestTask DEF IInv, ListDomains
<1>2. step'[k] = "dispatch" /\ \A x \in Tasks : x # k => step'[x] = step[x]
  BY <1>1 DEF ListDomains, Goto, Types
<1>3. UNCHANGED <<outcome, errors>>
  BY DEF ListDomains, pool, out
<1>4. PICK ds \in SUBSET Domains :
          /\ todo' = [todo EXCEPT ![r] = ds]
          /\ refs' = [x \in Tasks |-> IF x[1] = r /\ x[2] \in ds THEN "held" ELSE refs[x]]
  BY DEF ListDomains
<1>5. todo'[r] = ds /\ \A s \in Requests : s # r => todo'[s] = todo[s]
  BY <1>1, <1>4 DEF Types
<1>6. \A x \in Tasks : refs'[x] = IF x[1] = r /\ x[2] \in ds THEN "held" ELSE refs[x]
  BY <1>4
<1>7. outcome[k] = "taken"
  BY <1>1 DEF IInv, Counts
<1>8. \A d \in Domains : outcome[<<r, d>>] = "new" /\ refs[<<r, d>>] = "none" /\ d \notin todo[r]
  BY <1>1 DEF IInv, Listing, Waits
<1>9. Counts'
  <2> HIDE DEF k
  <2> QED
    BY <1>1, <1>2, <1>3, <1>7 DEF IInv, Counts
<1>10. ASSUME NEW s \in Requests, NEW d \in Domains PROVE Waits(s, d)'
  <2>1. Waits(s, d) /\ <<s, NoDom>> \in Tasks /\ <<s, d>> \in Tasks
    BY RequestTask DEF IInv, Listing
  <2>2. CASE s = r
    BY <1>2, <1>3, <1>7, <1>8, <2>2 DEF Waits
  <2>3. CASE s # r
    <3>1. step'[<<s, NoDom>>] = step[<<s, NoDom>>] /\ todo'[s] = todo[s]
      BY <1>2, <1>5, <2>1, <2>3, Pairs
    <3>2. refs'[<<s, d>>] = refs[<<s, d>>]
      BY <1>6, <2>1, <2>3, Pairs
    <3> QED
      BY <1>3, <2>1, <3>1, <3>2 DEF Waits
  <2> QED
    BY <2>2, <2>3
<1>11. ASSUME NEW x \in DomainTasks
       PROVE  refs'[x] = "held" <=> x[2] \in todo'[x[1]] \/ Alive(x)'
  <2>1. x \in Tasks /\ x[1] \in Requests /\ x[2] \in Domains /\ x = <<x[1], x[2]>>
    BY Pairs
  <2>2. CASE x[1] = r
    <3>1. outcome[x] = "new" /\ refs[x] = "none"
      BY <1>8, <2>1, <2>2
    <3> QED
      BY <1>3, <1>5, <1>6, <2>1, <2>2, <3>1 DEF Alive
  <2>3. CASE x[1] # r
    <3>1. refs'[x] = refs[x] /\ todo'[x[1]] = todo[x[1]]
      BY <1>5, <1>6, <2>1, <2>3
    <3> QED
      BY <1>3, <3>1 DEF Alive, IInv, RefsHeld
  <2> QED
    BY <2>2, <2>3
<1> QED
  BY <1>9, <1>10, <1>11 DEF Listing, RefsHeld

\* A domain's task is dispatched, or refused, reported and its reference lost.
LEMMA DomainStep ==
    ASSUME IInv, NEW r \in Requests, NEW d \in Domains, DispatchDomain(r, d)
    PROVE  Counts' /\ Listing' /\ RefsHeld'
<1> DEFINE x == <<r, d>>
<1>1. x \in Tasks /\ Types /\ <<r, NoDom>> \in Tasks
  BY RequestTask DEF IInv
<1>2. /\ step[<<r, NoDom>>] = "dispatch" /\ d \in todo[r] /\ step' = step
      /\ todo' = [todo EXCEPT ![r] = @ \ {d}]
      /\ Accepted(x) \/ Refused(x)
  BY DEF DispatchDomain
<1>3. todo'[r] = todo[r] \ {d} /\ \A s \in Requests : s # r => todo'[s] = todo[s]
  BY <1>1, <1>2 DEF Types
<1>4. /\ outcome[x] = "new" /\ outcome'[x] \in {"queued", "not_running"}
      /\ \A y \in Tasks : y # x => outcome'[y] = outcome[y]
  <2> HIDE DEF x
  <2> QED
    BY <1>1, <1>2, Dispatched
<1>5. \A y \in Tasks : y # x => refs'[y] = refs[y] /\ errors'[y] = errors[y]
  <2>1. (errors' = errors /\ refs' = refs) \/ (collect_error(x) /\ refs' = [refs EXCEPT ![x] = "leaked"])
    BY DEF DispatchDomain
  <2> HIDE DEF x
  <2> QED
    BY <1>1, <2>1, ErrorCounted DEF Types
<1>6. \/ outcome'[x] = "queued" /\ refs'[x] = refs[x] /\ errors'[x] = errors[x]
      \/ outcome'[x] = "not_running" /\ refs'[x] = "leaked" /\ errors'[x] = errors[x] + 1
  <2>1. \/ Accepted(x) /\ errors' = errors /\ refs' = refs
        \/ Refused(x) /\ collect_error(x) /\ refs' = [refs EXCEPT ![x] = "leaked"]
    BY DEF DispatchDomain
  <2>2. Accepted(x) => outcome'[x] = "queued"
    <3> HIDE DEF x
    <3> QED
      BY <1>1, Dispatched
  <2>3. Refused(x) => outcome'[x] = "not_running"
    BY DEF Refused
  <2> HIDE DEF x
  <2> QED
    BY <1>1, <2>1, <2>2, <2>3, ErrorCounted DEF Types
<1>7. errors[x] = 0 /\ step[x] = "idle" /\ refs[x] = "held"
  <2>1. errors[x] = 0 /\ step[x] = "idle"
    <3> HIDE DEF x
    <3> QED
      BY <1>1, <1>4 DEF IInv, Counts
  <2>2. refs[x] = "held"
    <3>1. x \in DomainTasks /\ x[1] = r /\ x[2] = d
      BY Pairs
    <3> QED
      BY <1>2, <3>1 DEF IInv, RefsHeld
  <2> QED
    BY <2>1, <2>2
<1>8. Counts'
  <2> HIDE DEF x
  <2> QED
    BY <1>1, <1>2, <1>4, <1>5, <1>6, <1>7 DEF IInv, Counts
<1>9. ASSUME NEW s \in Requests, NEW e \in Domains PROVE Waits(s, e)'
  <2>1. Waits(s, e) /\ <<s, NoDom>> \in Tasks /\ <<s, e>> \in Tasks
    BY RequestTask DEF IInv, Listing
  <2>2. outcome'[<<s, NoDom>>] = outcome[<<s, NoDom>>]
    BY <1>4, <2>1, Pairs
  <2>3. CASE s = r /\ e = d
    <3>1. outcome[<<r, NoDom>>] = "taken"
      BY <1>1, <1>2 DEF IInv, Counts
    <3> QED
      BY <1>2, <1>3, <2>2, <2>3, <3>1 DEF Waits
  <2>4. CASE ~(s = r /\ e = d)
    <3>1. outcome'[<<s, e>>] = outcome[<<s, e>>] /\ refs'[<<s, e>>] = refs[<<s, e>>]
      BY <1>4, <1>5, <2>1, <2>4, Pairs
    <3>2. e \in todo'[s] => e \in todo[s]
      BY <1>3
    <3> QED
      BY <1>2, <2>1, <2>2, <3>1, <3>2 DEF Waits
  <2> QED
    BY <2>3, <2>4
<1>10. ASSUME NEW y \in DomainTasks
       PROVE  refs'[y] = "held" <=> y[2] \in todo'[y[1]] \/ Alive(y)'
  <2>1. y \in Tasks /\ y[1] \in Requests /\ y[2] \in Domains /\ y = <<y[1], y[2]>>
    BY Pairs
  <2>2. CASE y = x
    <3>1. y[1] = r /\ y[2] = d
      BY <2>2
    <3>2. y[2] \notin todo'[y[1]]
      BY <1>3, <3>1
    <3> HIDE DEF x
    <3> QED
      BY <1>6, <1>7, <2>2, <3>2 DEF Alive
  <2>3. CASE y # x
    <3>1. refs'[y] = refs[y] /\ errors'[y] = errors[y] /\ outcome'[y] = outcome[y]
      BY <1>4, <1>5, <2>1, <2>3
    <3>2. y[2] \in todo'[y[1]] <=> y[2] \in todo[y[1]]
      <4>1. ~(y[1] = r /\ y[2] = d)
        BY <2>1, <2>3
      <4> QED
        BY <1>3, <2>1, <4>1
    <3> QED
      BY <3>1, <3>2 DEF Alive, IInv, RefsHeld
  <2> QED
    BY <2>2, <2>3
<1> QED
  BY <1>8, <1>9, <1>10 DEF Listing, RefsHeld

\* A worker takes a task, or comes back from libvirt with a domain's records.
LEMMA TakeStep ==
    ASSUME IInv, NEW k \in Tasks, Take(k) \/ sample_domain_work(k)
    PROVE  Counts' /\ Listing' /\ RefsHeld'
<1>1. Types /\ UNCHANGED <<todo, refs, errors>>
  BY DEF IInv, Take, sample_domain_work, out
<1>2. \A x \in Tasks : x # k => step'[x] = step[x] /\ outcome'[x] = outcome[x]
  BY <1>1 DEF Take, sample_domain_work, Goto, P!Take, pool, Types
<1>3. \/ outcome[k] = "queued" /\ outcome'[k] = "taken" /\ step'[k] = "work"
      \/ k[2] # NoDom /\ outcome'[k] = outcome[k] /\ step[k] = "work" /\ step'[k] = "collect"
  BY <1>1 DEF Take, sample_domain_work, Goto, P!Take, pool, Types
<1>4. outcome[k] \in {"queued", "taken"} /\ errors[k] = 0
  BY <1>3 DEF IInv, Counts
<1>5. Counts'
  BY <1>1, <1>2, <1>3, <1>4 DEF IInv, Counts
<1>6. ASSUME NEW s \in Requests, NEW d \in Domains PROVE Waits(s, d)'
  <2>1. Waits(s, d) /\ <<s, NoDom>> \in Tasks /\ <<s, d>> \in Tasks
    BY RequestTask DEF IInv, Listing
  <2>2. CASE k = <<s, NoDom>>
    <3>1. outcome[k] = "queued" /\ step[k] = "idle"
      BY <1>3, <2>2, Pairs DEF IInv, Counts
    <3>2. d \notin todo[s] /\ outcome[<<s, d>>] = "new" /\ refs[<<s, d>>] = "none"
      BY <2>1, <2>2, <3>1 DEF Waits
    <3>3. outcome'[<<s, d>>] = outcome[<<s, d>>]
      BY <1>2, <2>1, <2>2, Pairs
    <3> QED
      BY <1>1, <3>2, <3>3 DEF Waits
  <2>3. CASE k = <<s, d>>
    <3>1. outcome[<<s, d>>] # "new"
      BY <1>4, <2>3
    <3>2. step'[<<s, NoDom>>] = step[<<s, NoDom>>] /\ outcome'[<<s, NoDom>>] = outcome[<<s, NoDom>>]
      BY <1>2, <2>1, <2>3, Pairs
    <3> QED
      BY <1>1, <2>1, <3>1, <3>2 DEF Waits
  <2>4. CASE k # <<s, NoDom>> /\ k # <<s, d>>
    <3>1. /\ step'[<<s, NoDom>>] = step[<<s, NoDom>>] /\ outcome'[<<s, NoDom>>] = outcome[<<s, NoDom>>]
          /\ outcome'[<<s, d>>] = outcome[<<s, d>>]
      BY <1>2, <2>1, <2>4
    <3> QED
      BY <1>1, <2>1, <3>1 DEF Waits
  <2> QED
    BY <2>2, <2>3, <2>4
<1>7. \A x \in DomainTasks : (Alive(x)' <=> Alive(x)) /\ (outcome[x] = "done" => outcome'[x] = "done")
  BY <1>2, <1>3, <1>4, Pairs DEF Alive
<1>8. RefsHeld'
  BY <1>1, <1>7 DEF IInv, RefsHeld
<1> QED
  BY <1>5, <1>6, <1>8 DEF Listing

\* sampling_collect: a response, and the reference is given back.
LEMMA CollectStep ==
    ASSUME IInv, NEW k \in Tasks, sampling_collect(k)
    PROVE  Counts' /\ Listing' /\ RefsHeld'
<1>1. Types /\ step[k] = "collect" /\ todo' = todo
  BY DEF IInv, sampling_collect
<1>2. step'[k] = "idle" /\ \A x \in Tasks : x # k => step'[x] = step[x]
  BY <1>1 DEF sampling_collect, Goto, Types
<1>3. PICK late \in BOOLEAN :
          /\ P!Report(k, late)
          /\ IF err[k] # 0 \/ late THEN collect_error(k) ELSE errors' = errors
  BY Zenon DEF sampling_collect
<1>4. /\ outcome[k] = "taken" /\ outcome'[k] \in {"done", "timeout"}
      /\ \A x \in Tasks : x # k => outcome'[x] = outcome[x]
  BY <1>1, <1>3 DEF P!Report, Types
<1>5. /\ errors'[k] \in {errors[k], errors[k] + 1} /\ \A x \in Tasks : x # k => errors'[x] = errors[x]
  BY <1>1, <1>3, ErrorCounted
<1>6. outcome'[k] = "done" \/ errors'[k] = errors[k] + 1
  <2>1. CASE late
    BY <1>1, <1>3, <2>1, ErrorCounted
  <2>2. CASE ~late
    BY <1>1, <1>3, <2>2 DEF P!Report, Types
  <2> QED
    BY <2>1, <2>2
<1>7. /\ k[2] # NoDom => refs'[k] = "freed"
      /\ \A x \in Tasks : x # k \/ k[2] = NoDom => refs'[x] = refs[x]
  BY <1>1 DEF sampling_collect, Types
<1>8. errors[k] \in Nat /\ errors[k] <= 1
  BY <1>1 DEF IInv, Counts, Types
<1>9. Counts'
  BY <1>2, <1>4, <1>5, <1>8 DEF IInv, Counts
<1>10. ASSUME NEW s \in Requests, NEW d \in Domains PROVE Waits(s, d)'
  <2>1. Waits(s, d) /\ <<s, NoDom>> \in Tasks /\ <<s, d>> \in Tasks
    BY RequestTask DEF IInv, Listing
  <2>2. CASE k = <<s, NoDom>>
    <3>1. d \notin todo[s]
      BY <1>1, <2>1, <2>2 DEF Waits
    <3> QED
      BY <1>1, <1>2, <1>4, <2>2, <3>1 DEF Waits
  <2>3. CASE k = <<s, d>>
    <3>1. outcome[<<s, d>>] # "new"
      BY <1>4, <2>3
    <3>2. step'[<<s, NoDom>>] = step[<<s, NoDom>>] /\ outcome'[<<s, NoDom>>] = outcome[<<s, NoDom>>]
      BY <1>2, <1>4, <2>1, <2>3, Pairs
    <3> QED
      BY <1>1, <2>1, <3>1, <3>2 DEF Waits
  <2>4. CASE k # <<s, NoDom>> /\ k # <<s, d>>
    <3>1. /\ step'[<<s, NoDom>>] = step[<<s, NoDom>>] /\ outcome'[<<s, NoDom>>] = outcome[<<s, NoDom>>]
          /\ outcome'[<<s, d>>] = outcome[<<s, d>>] /\ refs'[<<s, d>>] = refs[<<s, d>>]
      BY <1>2, <1>4, <1>7, <2>1, <2>4
    <3> QED
      BY <1>1, <2>1, <3>1 DEF Waits
  <2> QED
    BY <2>2, <2>3, <2>4
<1>11. ASSUME NEW x \in DomainTasks
       PROVE  refs'[x] = "held" <=> x[2] \in todo'[x[1]] \/ Alive(x)'
  <2>1. x \in Tasks /\ x[1] \in Requests /\ x[2] \in Domains /\ x[2] # NoDom /\ x = <<x[1], x[2]>>
    BY Pairs
  <2>2. CASE x = k
    <3>1. Waits(x[1], x[2])
      BY <2>1 DEF IInv, Listing
    <3>2. x[2] \notin todo[x[1]]
      BY <1>4, <2>1, <2>2, <3>1 DEF Waits
    <3> QED
      BY <1>1, <1>4, <1>6, <1>7, <1>8, <2>1, <2>2, <3>2 DEF Alive
  <2>3. CASE x # k
    <3>1. refs'[x] = refs[x] /\ errors'[x] = errors[x] /\ outcome'[x] = outcome[x]
      BY <1>4, <1>5, <1>7, <2>1, <2>3
    <3> QED
      BY <1>1, <3>1 DEF Alive, IInv, RefsHeld
  <2> QED
    BY <2>2, <2>3
<1> QED
  BY <1>9, <1>10, <1>11 DEF Listing, RefsHeld

(***************************************************************************)
(* Answers                                                                 *)
(***************************************************************************)

\* A step that leaves a domain's task alone leaves its answer alone.
LEMMA AnswerFrame ==
    ASSUME NEW x \in DomainTasks, Answered(x),
           err'[x] = err[x], outcome'[x] = outcome[x], errors'[x] = errors[x],
           samples'[x] = samples[x], step'[x] = step[x], records'[x] = records[x],
           refs'[x] = refs[x], x \in failed' <=> x \in failed, x \in silent <=> x \in silent',
           x[2] \in todo'[x[1]] <=> x[2] \in todo[x[1]]
    PROVE  Answered(x)'
  BY DEF Answered, Alive

\* The main loop and the work function of a request, up to the dispatches.
LEMMA RequestAnswers ==
    ASSUME IInv, NEW r \in Requests,
           \/ vmon_io_callback(r) \/ poll_libvirt(r) \/ ListFails(r) \/ ListReturns(r)
           \/ bulk_sampling_work(<<r, NoDom>>)
    PROVE  Answers'
<1> DEFINE k == <<r, NoDom>>
<1> SUFFICES ASSUME NEW x \in DomainTasks PROVE Answered(x)'
  BY DEF Answers
<1>1. k \in Tasks /\ x \in Tasks /\ x # k /\ Types /\ Answered(x)
  BY RequestTask, Pairs DEF IInv, Answers
<1>2. UNCHANGED <<samples, records, failed, refs, silent, todo>>
  BY DEF vmon_io_callback, poll_libvirt, ListFails, ListReturns, bulk_sampling_work, libvirt, out
<1>3. err'[x] = err[x]
  BY <1>1 DEF vmon_io_callback, poll_libvirt, ListFails, ListReturns, bulk_sampling_work, Types
<1>4. step'[x] = step[x]
  BY <1>1 DEF vmon_io_callback, poll_libvirt, ListFails, ListReturns, bulk_sampling_work, Goto, Types
<1>5. errors'[x] = errors[x]
  <2>1. errors' = errors \/ collect_error(k)
    BY DEF vmon_io_callback, poll_libvirt, ListFails, ListReturns, bulk_sampling_work, out
  <2> HIDE DEF k
  <2> QED
    BY <1>1, <2>1, ErrorCounted
<1>6. outcome'[x] = outcome[x]
  <2>1. Accepted(k) \/ Refused(k) \/ UNCHANGED outcome
    BY DEF vmon_io_callback, poll_libvirt, sampler_handle_request, sampler_send_request, ListFails,
           ListReturns, bulk_sampling_work, pool
  <2> HIDE DEF k
  <2> QED
    BY <1>1, <2>1, Dispatched
<1> QED
  BY <1>1, <1>2, <1>3, <1>4, <1>5, <1>6, AnswerFrame

LEMMA ListAnswers ==
    ASSUME IInv, NEW r \in Requests, ListDomains(r)
    PROVE  Answers'
<1> DEFINE k == <<r, NoDom>>
<1> SUFFICES ASSUME NEW x \in DomainTasks PROVE Answered(x)'
  BY DEF Answers
<1>1. k \in Tasks /\ x \in Tasks /\ x # k /\ Types /\ Answered(x) /\ x[1] \in Requests
      /\ x[2] \in Domains /\ x = <<x[1], x[2]>>
  BY RequestTask, Pairs DEF IInv, Answers
<1>2. UNCHANGED <<samples, records, failed, silent, err, errors, outcome>> /\ step'[x] = step[x]
  BY <1>1 DEF ListDomains, libvirt, out, pool, Goto, Types
<1>3. PICK ds \in SUBSET Domains :
          /\ todo' = [todo EXCEPT ![r] = ds]
          /\ refs' = [y \in Tasks |-> IF y[1] = r /\ y[2] \in ds THEN "held" ELSE refs[y]]
  BY DEF ListDomains
<1>4. CASE x[1] = r
  <2>1. outcome[x] = "new" /\ refs[x] = "none"
    BY <1>1, <1>4 DEF ListDomains, IInv, Listing, Waits
  <2>2. step[x] = "idle"
    BY <1>1, <2>1 DEF IInv, Counts, Types
  <2>3. refs'[x] # "none" => x[2] \in todo'[x[1]]
    BY <1>1, <1>3, <1>4, <2>1 DEF Types
  <2> QED
    BY <1>1, <1>2, <2>1, <2>2, <2>3 DEF Answered
<1>5. CASE x[1] # r
  BY <1>1, <1>2, <1>3, <1>5, AnswerFrame DEF Types
<1> QED
  BY <1>4, <1>5

LEMMA DispatchAnswers ==
    ASSUME IInv, NEW r \in Requests, NEW d \in Domains, DispatchDomain(r, d)
    PROVE  Answers'
<1> DEFINE k == <<r, NoDom>>  y == <<r, d>>
<1> SUFFICES ASSUME NEW x \in DomainTasks PROVE Answered(x)'
  BY DEF Answers
<1>1. /\ k \in Tasks /\ y \in Tasks /\ x \in Tasks /\ x # k /\ Types /\ Answered(x)
      /\ x[1] \in Requests /\ x[2] \in Domains /\ x = <<x[1], x[2]>>
  BY RequestTask, Pairs DEF IInv, Answers
<1>2. UNCHANGED <<samples, records, failed, silent, step>> /\ todo' = [todo EXCEPT ![r] = @ \ {d}]
  BY DEF DispatchDomain, libvirt
<1>3. err'[x] = err[x]
  BY <1>1 DEF DispatchDomain, Types
<1>4. \/ Accepted(y) /\ errors' = errors /\ refs' = refs
      \/ Refused(y) /\ collect_error(y) /\ refs' = [refs EXCEPT ![y] = "leaked"]
  BY DEF DispatchDomain
<1>5. CASE x = y
  <2>1. outcome[x] = "new"
    <3> HIDE DEF y
    <3> QED
      BY <1>1, <1>4, <1>5, Dispatched
  <2>2. errors[x] = 0 /\ samples[x] = {} /\ err[x] = 0 /\ step[x] = "idle"
    BY <1>1, <2>1 DEF Answered, IInv, Counts, Types
  <2>3. CASE Accepted(y)
    <3>1. outcome'[x] = "queued"
      <4> HIDE DEF y
      <4> QED
        BY <1>1, <1>5, <2>3, Dispatched
    <3>2. errors'[x] = 0
      <4> HIDE DEF y
      <4>1. ~Refused(y)
        BY <1>1, <2>3, <3>1, <1>5 DEF Refused
      <4> QED
        BY <1>4, <2>2, <4>1
    <3> QED
      BY <1>2, <1>3, <2>2, <3>1, <3>2 DEF Answered, Alive
  <2>4. CASE Refused(y) /\ collect_error(y)
    <3>1. errors'[x] = 1
      <4> HIDE DEF y
      <4> QED
        BY <1>1, <1>5, <2>2, <2>4, ErrorCounted
    <3>2. outcome'[x] = "not_running"
      BY <1>5, <2>4 DEF Refused
    <3> QED
      BY <1>2, <1>3, <2>2, <3>1, <3>2 DEF Answered
  <2> QED
    BY <1>4, <2>3, <2>4
<1>6. CASE x # y
  <2>1. outcome'[x] = outcome[x] /\ errors'[x] = errors[x] /\ refs'[x] = refs[x]
    <3> HIDE DEF y
    <3> QED
      BY <1>1, <1>4, <1>6, Dispatched, ErrorCounted DEF Types
  <2>2. x[2] \in todo'[x[1]] <=> x[2] \in todo[x[1]]
    <3>1. ~(x[1] = r /\ x[2] = d)
      BY <1>1, <1>6
    <3> QED
      BY <1>1, <1>2, <3>1 DEF Types
  <2> QED
    BY <1>1, <1>2, <1>3, <2>1, <2>2, AnswerFrame
<1> QED
  BY <1>5, <1>6

LEMMA WorkAnswers ==
    ASSUME IInv, NEW k \in Tasks, Take(k) \/ sample_domain_work(k) \/ sampling_collect(k)
    PROVE  Answers'
<1> SUFFICES ASSUME NEW x \in DomainTasks PROVE Answered(x)'
  BY DEF Answers
<1>1. /\ x \in Tasks /\ Types /\ Answered(x) /\ x[1] \in Requests /\ x[2] \in Domains
      /\ x[2] # NoDom /\ x = <<x[1], x[2]>>
  BY Pairs DEF IInv, Answers
<1>2. UNCHANGED <<err, todo>>
  BY DEF Take, sample_domain_work, sampling_collect
<1>3. CASE x # k
  <2>1. errors'[x] = errors[x]
    <3>1. errors' = errors \/ collect_error(k)
      BY DEF Take, sample_domain_work, sampling_collect, out
    <3> QED
      BY <1>1, <1>3, <3>1, ErrorCounted
  <2>2. outcome'[x] = outcome[x]
    BY <1>1, <1>3 DEF Take, sample_domain_work, sampling_collect, P!Take, P!Report, pool, Types
  <2>3. step'[x] = step[x] /\ refs'[x] = refs[x]
    BY <1>1, <1>3 DEF Take, sample_domain_work, sampling_collect, Goto, Types
  <2>4. records'[x] = records[x] /\ (x \in failed' <=> x \in failed)
    BY <1>1, <1>3 DEF Take, sample_domain_work, sampling_collect, libvirt, Types
  <2>5. samples'[x] = samples[x] /\ (x \in silent <=> x \in silent')
    <3>1. \/ samples' = samples /\ silent' = silent
          \/ samples' = [samples EXCEPT ![k] = records[k]] /\ silent' = silent \cup (failed \cap {k})
      BY DEF Take, sample_domain_work, sampling_collect, out
    <3> QED
      BY <1>1, <1>3, <3>1 DEF Types
  <2> QED
    BY <1>1, <1>2, <2>1, <2>2, <2>3, <2>4, <2>5, AnswerFrame
<1>4. CASE x = k /\ Take(k)
  <2>1. /\ outcome[x] = "queued" /\ outcome'[x] = "taken" /\ step'[x] = "work"
        /\ UNCHANGED <<errors, samples>>
    BY <1>1, <1>4 DEF Take, P!Take, Goto, out, Types
  <2> QED
    BY <1>1, <1>2, <2>1 DEF Answered, Alive
<1>5. CASE x = k /\ sample_domain_work(k)
  <2>1. UNCHANGED <<errors, samples, silent, outcome, refs>>
    BY <1>5 DEF sample_domain_work, out, pool
  <2>2. records'[x] = Domains \/ x \in failed'
    BY <1>1, <1>5 DEF sample_domain_work, Types
  <2> QED
    BY <1>1, <1>2, <2>1, <2>2 DEF Answered, Alive
<1>6. CASE x = k /\ sampling_collect(k)
  <2>1. step[x] = "collect" /\ step'[x] = "idle"
    BY <1>1, <1>6 DEF sampling_collect, Goto, Types
  <2>2. outcome[x] = "taken"
    BY <1>1, <2>1 DEF IInv, Counts
  <2>3. errors[x] = 0 /\ samples[x] = {} /\ err[x] = 0 /\ (records[x] = Domains \/ x \in failed)
    BY <1>1, <2>1, <2>2 DEF Answered
  <2>4. outcome'[x] \in {"done", "timeout"}
    BY <1>1, <1>6 DEF sampling_collect, P!Report, Types
  <2>5. \/ collect_error(k) /\ samples' = samples
        \/ /\ errors' = errors /\ samples' = [samples EXCEPT ![k] = records[k]]
           /\ silent' = silent \cup (failed \cap {k})
    BY <1>6 DEF sampling_collect
  <2>6. CASE collect_error(k) /\ samples' = samples
    <3>1. errors'[x] = 1
      BY <1>1, <1>6, <2>3, <2>6, ErrorCounted
    <3> QED
      BY <1>2, <2>1, <2>3, <2>4, <2>6, <3>1 DEF Answered
  <2>7. CASE /\ errors' = errors /\ samples' = [samples EXCEPT ![k] = records[k]]
             /\ silent' = silent \cup (failed \cap {k})
    <3>1. x[2] \in samples'[x] \/ x \in silent'
      BY <1>1, <1>6, <2>3, <2>7 DEF Types
    <3> QED
      BY <1>2, <2>1, <2>3, <2>4, <2>7, <3>1 DEF Answered
  <2> QED
    BY <2>5, <2>6, <2>7
<1> QED
  BY <1>3, <1>4, <1>5, <1>6

LEMMA InitIInv == Init => IInv
<1> SUFFICES ASSUME Init PROVE IInv
  OBVIOUS
<1>1. Types /\ outcome = [k \in Tasks |-> "new"]
  BY InitTypes DEF Init, P!Init
<1>2. Counts
  BY <1>1 DEF Init, Counts
<1>3. Listing
  BY <1>1, RequestTask DEF Init, Listing, Waits
<1>4. RefsHeld
  BY <1>1, Pairs DEF Init, RefsHeld, Alive
<1>5. Answers
  BY <1>1, Pairs DEF Init, Answers, Answered
<1> QED
  BY <1>1, <1>2, <1>3, <1>4, <1>5 DEF IInv

LEMMA NextIInv == IInv /\ [Next]_vars => IInv'
<1> SUFFICES ASSUME IInv, [Next]_vars PROVE IInv'
  OBVIOUS
<1>1. Types'
  BY NextTypes DEF IInv
<1>2. ASSUME NEW r \in Requests, list_domains_work(r) PROVE Counts' /\ Listing' /\ RefsHeld'
  <2>1. CASE ListFails(r)
    <3>1. /\ step[<<r, NoDom>>] = "work" /\ Goto(<<r, NoDom>>, "collect")
          /\ UNCHANGED <<outcome, refs, todo>> /\ collect_error(<<r, NoDom>>)
      BY <2>1 DEF ListFails, pool
    <3>2. todo[r] = {}
      <4>1. todo[r] \subseteq Domains
        BY DEF IInv, Types
      <4> QED
        BY <3>1, <4>1 DEF IInv, Listing, Waits
    <3> QED
      BY <3>1, <3>2, ReturnStep
  <2>2. CASE ListReturns(r)
    BY <2>2, ReturnStep DEF ListReturns, pool, out
  <2> QED
    BY <1>2, <2>1, <2>2, ListStep, DomainStep DEF list_domains_work
<1>3. ASSUME NEW k \in Tasks, bulk_sampling_work(k) PROVE Counts' /\ Listing' /\ RefsHeld'
  <2>1. PICK r \in Requests : k = <<r, NoDom>>
    BY <1>3, Pairs DEF bulk_sampling_work
  <2>2. /\ step[<<r, NoDom>>] = "work" /\ Goto(<<r, NoDom>>, "collect")
        /\ UNCHANGED <<outcome, refs, todo, errors>>
    BY <1>3, <2>1 DEF bulk_sampling_work, pool, out
  <2>3. todo[r] = {}
    <3>1. todo[r] \subseteq Domains
      BY DEF IInv, Types
    <3> QED
      BY <2>2, <3>1 DEF IInv, Listing, Waits
  <2> QED
    BY <2>2, <2>3, ReturnStep
<1>4. ASSUME vmon_io_eof \/ StopExecutor \/ UNCHANGED vars
      PROVE  Counts' /\ Listing' /\ RefsHeld'
  <2>1. UNCHANGED <<outcome, step, todo, refs, errors>>
    BY <1>4 DEF vmon_io_eof, StopExecutor, vars, pool, out
  <2> QED
    <3>1. Counts'
      BY <2>1 DEF IInv, Counts
    <3>2. Listing'
      BY <2>1 DEF IInv, Listing, Waits
    <3>3. RefsHeld'
      BY <2>1 DEF IInv, RefsHeld, Alive
    <3> QED
      BY <3>1, <3>2, <3>3
<1>5. Counts' /\ Listing' /\ RefsHeld'
  <2>1. ASSUME NEW r \in Requests, vmon_io_callback(r) \/ poll_libvirt(r)
        PROVE  Counts' /\ Listing' /\ RefsHeld'
    BY <2>1, RequestStep
  <2>2. ASSUME NEW k \in Tasks, Take(k) \/ sample_domain_work(k) \/ sampling_collect(k)
        PROVE  Counts' /\ Listing' /\ RefsHeld'
    BY <2>2, TakeStep, CollectStep
  <2> QED
    BY <1>2, <1>3, <1>4, <2>1, <2>2, Zenon DEF Next, Work
<1>6. Answers'
  <2>1. CASE vmon_io_eof \/ StopExecutor \/ UNCHANGED vars
    <3>1. UNCHANGED <<outcome, step, todo, refs, errors, samples, silent, records, failed, err>>
      BY <2>1 DEF vmon_io_eof, StopExecutor, vars, pool, out, libvirt
    <3> QED
      BY <3>1 DEF IInv, Answers, Answered, Alive
  <2>2. ASSUME NEW k \in Tasks, bulk_sampling_work(k) PROVE Answers'
    <3>1. PICK r \in Requests : k = <<r, NoDom>>
      BY <2>2, Pairs DEF bulk_sampling_work
    <3> QED
      BY <2>2, <3>1, RequestAnswers
  <2> QED
    BY <2>1, <2>2, RequestAnswers, ListAnswers, DispatchAnswers, WorkAnswers
    DEF Next, Work, list_domains_work
<1> QED
  BY <1>1, <1>5, <1>6 DEF IInv

\* The variables of the sampler keep their types; no task reports more than two
\* errors.
THEOREM TypeCorrect == Spec => []TypeOK
<1>1. IInv => TypeOK
  <2> SUFFICES ASSUME IInv PROVE TypeOK
    OBVIOUS
  <2>1. \A k \in Tasks : errors[k] \in 0 .. 2
    BY DEF IInv, Counts, Types
  <2>2. errors \in [Tasks -> 0 .. 2]
    BY <2>1 DEF IInv, Types
  <2>3. Outcomes = P!Refusals \cup {"new", "queued", "taken", "done", "timeout"}
    BY DEF Outcomes, P!Refusals
  <2> QED
    BY <2>2, <2>3 DEF IInv, Types, TypeOK, Steps
<1> QED
  BY <1>1, InitIInv, NextIInv, PTL DEF Spec

\* A virDomainPtr is held exactly while its task is to be dispatched or on the
\* way: no task uses a reference that was given back.
THEOREM RefsAlwaysHeld == Spec => []RefsHeld
<1>1. IInv => RefsHeld
  BY DEF IInv
<1> QED
  BY <1>1, InitIInv, NextIInv, PTL DEF Spec

\* A domain that was listed is still on its way with nothing written for it, or
\* has got one answer: an error response or its statistics.  It gets none only if
\* virConnectGetAllDomainStats failed for its task.
THEOREM DomainsNeverDropped == Spec => []NoDomainDropped
<1>1. IInv => NoDomainDropped
  <2> SUFFICES ASSUME IInv, NEW k \in DomainTasks, refs[k] # "none"
               PROVE  \/ (k[2] \in todo[k[1]] \/ Alive(k)) /\ errors[k] = 0 /\ samples[k] = {}
                      \/ ~Alive(k) /\ errors[k] = 1 /\ samples[k] = {}
                      \/ ~Alive(k) /\ errors[k] = 0 /\ k[2] \in samples[k]
                      \/ ~Alive(k) /\ errors[k] = 0 /\ k \in silent
    BY DEF NoDomainDropped
  <2>1. Answered(k) /\ k[1] \in Requests /\ k[2] \in Domains /\ k = <<k[1], k[2]>>
    BY Pairs DEF IInv, Answers
  <2>2. k[2] \in todo[k[1]] => outcome[k] = "new"
    <3>1. Waits(k[1], k[2])
      BY <2>1 DEF IInv, Listing
    <3> QED
      BY <2>1, <3>1 DEF Waits
  <2> QED
    BY <2>1, <2>2 DEF Answered, Alive
<1> QED
  BY <1>1, InitIInv, NextIInv, PTL DEF Spec
=============================================================================
