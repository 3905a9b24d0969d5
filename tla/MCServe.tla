------------------------------ MODULE MCServe ------------------------------
(***************************************************************************)
(* Agents with a schedule (c, p) and one with a queue (q): files that      *)
(* change and are reloaded; an HTTP worker from the start; a worker that   *)
(* comes with a reload; a process that ends after two jobs; more jobs than *)
(* slots.                                                                  *)
(***************************************************************************)
EXTENDS Serve, TLC

CONSTANTS c, p, q, k1, k2

File(kind) == [ver |-> 1, kind |-> kind]
Files(forC, forP, forQ) == (c :> File(forC)) @@ (p :> File(forP)) @@ (q :> File(forQ))
New(k) == [key |-> k, tries |-> 0]

\* The files of c: two contents with a schedule, and others without a job.
Contents == {[ver |-> 2, kind |-> "cron"]} \cup {File(kind) : kind \in Kinds \ {"once"}}

Base == [files |-> Files("none", "none", "cron"), contents |-> [a \in Agents |-> {}], edits |-> 0,
         reloads |-> FALSE, worker |-> "none", keys |-> {k1},
         queued |-> <<New(k1)>>, boots |-> 2, maxJobs |-> 0, stops |-> TRUE]

AllSetups ==
  { [Base EXCEPT !.files = Files("cron", "none", "none"), !.queued = <<>>, !.boots = 1,
                 !.contents[c] = Contents, !.edits = 2, !.reloads = TRUE, !.stops = FALSE],
    [Base EXCEPT !.worker = "start", !.stops = FALSE, !.queued = <<New(k2)>>],
    [Base EXCEPT !.worker = "later", !.stops = FALSE, !.boots = 1, !.reloads = TRUE],
    [Base EXCEPT !.files = Files("once", "none", "cron"), !.queued = <<New(k1), New(k2)>>,
                 !.maxJobs = 2, !.stops = FALSE],
    [Base EXCEPT !.files = Files("once", "cron", "cron"), !.queued = <<>>, !.keys = {},
                 !.boots = 1] }

\* A process with an HTTP worker that is told to stop.
WithWorker == { [Base EXCEPT !.worker = "start", !.boots = 1, !.queued = <<>>] }
============================================================================
