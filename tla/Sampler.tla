------------------------------ MODULE Sampler -------------------------------
(***************************************************************************)
(* src/sampler.c, with the two callbacks of src/vmon_int.c that feed it:   *)
(* a request becomes a task that lists the domains and dispatches one task *)
(* per domain (or, with bulk sampling, a single task), and every task      *)
(* writes its responses from its collect callback.                         *)
(*                                                                         *)
(* The executor is TaskPool: a task is refused, or queued, taken and       *)
(* reported, possibly as timed out.  libvirt is external: a call fails or  *)
(* answers for the domains it is asked about, none of which is undefined   *)
(* while vmon runs.                                                        *)
(***************************************************************************)
EXTENDS Integers, Sequences

CONSTANTS
    Requests,   \* lines read from stdin, or expiries of the polling timer
    Domains,    \* the domains libvirt knows
    MaxTasks,   \* conf.tasks, the capacity of the executor's queue
    NoDom,      \* req->dom = NULL
    Stop        \* the executor's stop token

ASSUME SamplerAssumption ==
    NoDom \notin Domains /\ MaxTasks \in Nat \ {0}

\* A task's VmonRequest: the request and, for a domain's task, the domain.
Tasks == Requests \X (Domains \cup {NoDom})

VARIABLES
    bulk, polling,      \* conf.bulk_sampling, conf.period # 0
    queue, outcome,     \* the executor
    running,            \* executor and main loop: "loop", "quit", "stopped"
    step,               \* step[k]: how far the work function of task k is
    todo,               \* todo[r]: domains list_domains_work still has to dispatch
    err,                \* err[k]: what the work function returns
    records,            \* records[k]: the domains in req->records
    failed,             \* the tasks whose req->records_num is -1
    refs,               \* refs[k]: the virDomainPtr of task k
    errors,             \* errors[k]: error responses written for task k
    samples,            \* samples[k]: domains whose statistics task k has written
    silent              \* tasks collected without a response: records_num was -1

conf == <<bulk, polling>>
pool == <<queue, outcome>>
out == <<errors, samples, silent>>
libvirt == <<records, failed>>
vars == <<conf, pool, running, step, todo, err, libvirt, refs, out>>

P == INSTANCE TaskPool

Init ==
    /\ bulk \in BOOLEAN /\ polling \in BOOLEAN
    /\ P!Init
    /\ running = "loop"
    /\ step = [k \in Tasks |-> "idle"]
    /\ todo = [r \in Requests |-> {}]
    /\ err = [k \in Tasks |-> 0]
    /\ records = [k \in Tasks |-> {}] /\ failed = {}
    /\ refs = [k \in Tasks |-> "none"]
    /\ errors = [k \in Tasks |-> 0]
    /\ samples = [k \in Tasks |-> {}] /\ silent = {}

collect_error(k) == errors' = [errors EXCEPT ![k] = @ + 1]

-----------------------------------------------------------------------------
(* The main loop *)

\* executor_dispatch as TaskPool has it: it fails when the queue is full or
\* the executor has stopped, and only then (no VmonRequest is oversized).
Accepted(k) == P!Accept(k) /\ running # "stopped"
Refused(k) ==
    /\ P!Refuse(k) /\ outcome'[k] = "not_running"
    /\ Len(queue) >= MaxTasks \/ running = "stopped"

\* bulk_sampling_work or list_domains_work, as bulk has it, for the request.
sampler_send_request(r, ret) ==
    \/ ret = 0 /\ Accepted(<<r, NoDom>>)
    \/ ret = -1 /\ Refused(<<r, NoDom>>)

\* A request that does not parse is not sent.
sampler_handle_request(r, ret) ==
    \/ sampler_send_request(r, ret)
    \/ ret = -1 /\ UNCHANGED pool

\* Any error, of the parser or of the executor, ends the main loop.
vmon_io_callback(r) ==
    /\ ~polling /\ running = "loop" /\ outcome[<<r, NoDom>>] = "new"
    /\ \/ sampler_handle_request(r, 0) /\ UNCHANGED running
       \/ sampler_handle_request(r, -1) /\ running' = "quit"
    /\ UNCHANGED <<conf, step, todo, err, libvirt, refs, out>>

\* End of input.
vmon_io_eof ==
    /\ ~polling /\ running = "loop" /\ running' = "quit"
    /\ UNCHANGED <<conf, pool, step, todo, err, libvirt, refs, out>>

\* The error is logged and the timer stays.
poll_libvirt(r) ==
    /\ polling /\ running = "loop"
    /\ \E ret \in {0, -1} : sampler_send_request(r, ret)
    /\ UNCHANGED <<conf, running, step, todo, err, libvirt, refs, out>>

\* main after the loop: executor_stop makes executor_dispatch fail.
StopExecutor ==
    /\ running = "quit" /\ running' = "stopped"
    /\ UNCHANGED <<conf, pool, step, todo, err, libvirt, refs, out>>

-----------------------------------------------------------------------------
(* The work functions *)

Goto(k, label) == step' = [step EXCEPT ![k] = label]

\* A worker takes the task and calls its work function.
Take(k) ==
    /\ P!Take(k)
    /\ Goto(k, "work")
    /\ UNCHANGED <<conf, running, todo, err, libvirt, refs, out>>

\* Mutation: a failed listing is tried again.
ListFails_Retry(r) ==
    LET k == <<r, NoDom>>
    IN  /\ step[k] = "work" /\ ~bulk
        /\ collect_error(k)
        /\ UNCHANGED <<conf, pool, running, step, todo, err, libvirt, refs, samples, silent>>
\* Mutation: the worker skips the collect callback of work that failed.
ListFails_NoCollect(r) ==
    LET k == <<r, NoDom>>
    IN  /\ step[k] = "work" /\ ~bulk
        /\ collect_error(k)
        /\ Goto(k, "idle")
        /\ UNCHANGED <<conf, pool, running, todo, err, libvirt, refs, samples, silent>>
\* list_domains_work: virConnectListAllDomains fails; the error is reported
\* here, and once more by sampling_collect.
ListFails(r) ==
    LET k == <<r, NoDom>>
    IN  /\ step[k] = "work" /\ ~bulk
        /\ collect_error(k)
        /\ err' = [err EXCEPT ![k] = -1]
        /\ Goto(k, "collect")
        /\ UNCHANGED <<conf, pool, running, todo, libvirt, refs, samples, silent>>

\* It succeeds, with a reference to each domain that is active.
ListDomains(r) ==
    LET k == <<r, NoDom>>
    IN  /\ step[k] = "work" /\ ~bulk
        /\ \E ds \in SUBSET Domains :
               /\ todo' = [todo EXCEPT ![r] = ds]
               /\ refs' = [x \in Tasks |-> IF x[1] = r /\ x[2] \in ds THEN "held" ELSE refs[x]]
        /\ Goto(k, "dispatch")
        /\ UNCHANGED <<conf, pool, running, err, libvirt, out>>

\* Mutation: a domain whose task is refused is skipped without a word.
DispatchDomain_Silent(r, d) ==
    LET k == <<r, NoDom>>  x == <<r, d>>
    IN  /\ step[k] = "dispatch" /\ d \in todo[r]
        /\ todo' = [todo EXCEPT ![r] = @ \ {d}]
        /\ Accepted(x) \/ Refused(x)
        /\ UNCHANGED <<errors, err, refs>>
        /\ UNCHANGED <<conf, running, step, libvirt, samples, silent>>
\* One turn of the loop.  err is that of the last turn; a reference whose task
\* was refused is never freed.
DispatchDomain(r, d) ==
    LET k == <<r, NoDom>>  x == <<r, d>>
    IN  /\ step[k] = "dispatch" /\ d \in todo[r]
        /\ todo' = [todo EXCEPT ![r] = @ \ {d}]
        /\ \/ /\ Accepted(x)
              /\ err' = [err EXCEPT ![k] = 0]
              /\ UNCHANGED <<errors, refs>>
           \/ /\ Refused(x)
              /\ collect_error(x)
              /\ err' = [err EXCEPT ![k] = -1]
              /\ refs' = [refs EXCEPT ![x] = "leaked"]
        /\ UNCHANGED <<conf, running, step, libvirt, samples, silent>>

ListReturns(r) ==
    LET k == <<r, NoDom>>
    IN  /\ step[k] = "dispatch" /\ todo[r] = {}
        /\ Goto(k, "collect")
        /\ UNCHANGED <<conf, pool, running, todo, err, libvirt, refs, out>>

\* sample_domain_work asks for the stats of all domains, not of req->dom.  A
\* failure is kept in records_num, and is no error of the work function.
sample_domain_work(k) ==
    /\ k[2] # NoDom /\ step[k] = "work"
    /\ \/ records' = [records EXCEPT ![k] = Domains] /\ UNCHANGED failed
       \/ failed' = failed \cup {k} /\ UNCHANGED records
    /\ Goto(k, "collect")
    /\ UNCHANGED <<conf, pool, running, todo, err, refs, out>>

\* bulk_sampling_work asks for the stats of { req->dom, NULL }: of no domain,
\* since a request has none.
bulk_sampling_work(k) ==
    /\ k[2] = NoDom /\ step[k] = "work" /\ bulk
    /\ Goto(k, "collect")
    /\ UNCHANGED <<conf, pool, running, todo, err, libvirt, refs, out>>

\* Mutation: the reference is given back by collect_success only.
sampling_collect_ErrorLeak(k) ==
    /\ step[k] = "collect"
    /\ \E late \in BOOLEAN :
           /\ P!Report(k, late)
           /\ IF err[k] # 0 \/ late
              THEN collect_error(k) /\ UNCHANGED <<samples, silent, refs>>
              ELSE /\ samples' = [samples EXCEPT ![k] = records[k]]
                   /\ silent' = silent \cup (failed \cap {k})
                   /\ refs' = IF k[2] = NoDom THEN refs ELSE [refs EXCEPT ![k] = "freed"]
                   /\ UNCHANGED errors
    /\ records' = [records EXCEPT ![k] = {}] /\ failed' = failed \ {k}
    /\ Goto(k, "idle")
    /\ UNCHANGED <<conf, running, todo, err>>
\* sampling_collect: collect_error, or collect_success with one response per
\* record (none if records_num is -1); then the domain's reference is given
\* back.  The records are freed by collect_success and lost by collect_error.
sampling_collect(k) ==
    /\ step[k] = "collect"
    /\ \E late \in BOOLEAN :
           /\ P!Report(k, late)
           /\ IF err[k] # 0 \/ late
              THEN collect_error(k) /\ UNCHANGED <<samples, silent>>
              ELSE /\ samples' = [samples EXCEPT ![k] = records[k]]
                   /\ silent' = silent \cup (failed \cap {k})
                   /\ UNCHANGED errors
    /\ refs' = IF k[2] = NoDom THEN refs ELSE [refs EXCEPT ![k] = "freed"]
    /\ records' = [records EXCEPT ![k] = {}] /\ failed' = failed \ {k}
    /\ Goto(k, "idle")
    /\ UNCHANGED <<conf, running, todo, err>>

list_domains_work(r) ==
    ListFails(r) \/ ListDomains(r) \/ (\E d \in Domains : DispatchDomain(r, d)) \/ ListReturns(r)

Work(k) == Take(k) \/ sample_domain_work(k) \/ bulk_sampling_work(k) \/ sampling_collect(k)

Next ==
    \/ \E r \in Requests : vmon_io_callback(r) \/ poll_libvirt(r) \/ list_domains_work(r)
    \/ vmon_io_eof
    \/ StopExecutor
    \/ \E k \in Tasks : Work(k)

Spec == Init /\ [][Next]_vars

\* The pool as a whole goes on: queued tasks are served (TasksServed of
\* Executor), libvirt answers, work functions run.
Fairness ==
    WF_vars((\E k \in Tasks : Work(k)) \/ \E r \in Requests : list_domains_work(r))
FairSpec == Spec /\ Fairness

-----------------------------------------------------------------------------
DomainTasks == Requests \X Domains
Alive(k) == outcome[k] \in {"queued", "taken"}

TypeOK ==
    /\ queue \in Seq(Tasks) /\ Len(queue) <= MaxTasks
    /\ outcome \in [Tasks -> P!Refusals \cup {"new", "queued", "taken", "done", "timeout"}]
    /\ running \in {"loop", "quit", "stopped"}
    /\ step \in [Tasks -> {"idle", "work", "dispatch", "collect"}]
    /\ todo \in [Requests -> SUBSET Domains]
    /\ err \in [Tasks -> {0, -1}]
    /\ records \in [Tasks -> SUBSET Domains] /\ failed \subseteq DomainTasks
    /\ refs \in [Tasks -> {"none", "held", "freed", "leaked"}]
    /\ errors \in [Tasks -> 0 .. 2]
    /\ samples \in [Tasks -> SUBSET Domains] /\ silent \subseteq DomainTasks

\* A domain's virDomainPtr is held exactly as long as list_domains_work has
\* still to dispatch it or its task is on the way: it is never freed under a
\* task that is going to use it, and what is not freed was refused.
RefsHeld ==
    \A k \in DomainTasks : refs[k] = "held" <=> k[2] \in todo[k[1]] \/ Alive(k)

\* A listed domain has its answer, and only one: it is about to be dispatched
\* or on the way, and then nothing was written for it yet; or it is named in one
\* error response; or its task has written its statistics; or, the one way to
\* get no answer at all, virConnectGetAllDomainStats failed for its task.
NoDomainDropped ==
    \A k \in DomainTasks : refs[k] # "none" =>
        \/ (k[2] \in todo[k[1]] \/ Alive(k)) /\ errors[k] = 0 /\ samples[k] = {}
        \/ ~Alive(k) /\ errors[k] = 1 /\ samples[k] = {}
        \/ ~Alive(k) /\ errors[k] = 0 /\ k[2] \in samples[k]
        \/ ~Alive(k) /\ errors[k] = 0 /\ k \in silent

\* Every request that was accepted is finished, with all the tasks that came
\* out of it, unless vmon ends before.
RequestsFinish ==
    \A r \in Requests : outcome[<<r, NoDom>>] = "queued" ~>
        \/ running # "loop"
        \/ /\ outcome[<<r, NoDom>>] \in {"done", "timeout"}
           /\ \A d \in Domains : ~Alive(<<r, d>>)
=============================================================================
