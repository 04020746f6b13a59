----------------------------- MODULE BookPages ------------------------------
(***************************************************************************)
(* .github/workflows/book.yml with tools/build-book.sh: the job that a     *)
(* push of master starts restores data/ from a cache, fetches, runs the    *)
(* checkers into a page and deploys the book.  The workflow has one group, *)
(* so one job runs at a time and at most one is waiting.                   *)
(*                                                                         *)
(* Of fetch-data.sh this uses what FetchData says of it: a run that        *)
(* succeeds leaves every file present, those that were there as they were. *)
(***************************************************************************)
EXTENDS Naturals

CONSTANTS Pins,     \* of the upstream data: the fetch script is its pin
          Files,    \* that the checkers read
          MAX_HEAD  \* bound on the pushes

VARIABLES head,     \* master: its number of commits, and the pin of the last
          waiting,  \* the commit whose job waits, or none (number 0)
          job,      \* the commit it builds, its step, and data/
          cache,    \* the entries: the key, and the data/ saved under it
          site      \* what is published: of which commit, from which data
vars == <<head, waiting, job, cache, site>>

Missing == "missing"
Empty == [f \in Files |-> Missing]
Commit(number, pin) == [number |-> number, pin |-> pin]
Fresh(commit) == [commit |-> commit, step |-> "restore", data |-> Empty]

Init ==
  /\ \E p \in Pins : head = Commit(1, p)
  /\ waiting = Commit(0, head.pin)
  /\ job = [Fresh(head) EXCEPT !.step = "none"]
  /\ cache = {}
  /\ site = [commit |-> Commit(0, head.pin), data |-> Empty]

(* A push, of a commit that may bump the pin; a job that waits is replaced.*)
Push ==
  /\ head.number < MAX_HEAD
  /\ \E p \in Pins : head' = Commit(head.number + 1, p)
  /\ waiting' = head'
  /\ UNCHANGED <<job, cache, site>>

Dispatch == waiting' = head /\ UNCHANGED <<head, job, cache, site>>

Begin ==
  /\ job.step = "none" /\ waiting.number > 0
  /\ job' = Fresh(waiting)
  /\ waiting' = Commit(0, waiting.pin)
  /\ UNCHANGED <<head, cache, site>>

(* A mutant of Key: one entry for all.                                     *)
KeyOfAll(commit) == CHOOSE p \in Pins : TRUE

Key(commit) == commit.pin

(* The service may have dropped an entry.                                  *)
Restore ==
  /\ job.step = "restore"
  /\ \/ \E e \in cache : e.key = Key(job.commit) /\ job' = [job EXCEPT !.step = "fetch", !.data = e.data]
     \/ job' = [job EXCEPT !.step = "fetch"]
  /\ UNCHANGED <<head, waiting, cache, site>>

Get(f) ==
  /\ job.step = "fetch" /\ job.data[f] = Missing
  /\ job' = [job EXCEPT !.data[f] = job.commit.pin]
  /\ UNCHANGED <<head, waiting, cache, site>>

(* What the checkers print is the page, whatever their exit code is.       *)
Check ==
  /\ job.step = "fetch" /\ \A f \in Files : job.data[f] # Missing
  /\ job' = [job EXCEPT !.step = "build"]
  /\ UNCHANGED <<head, waiting, cache, site>>

(* SUMMARY.md covers the chapters, and mdbook builds.                      *)
Upload ==
  /\ job.step = "build"
  /\ job' = [job EXCEPT !.step = "save"]
  /\ UNCHANGED <<head, waiting, cache, site>>

(* Only a job that succeeds saves, and only a key that has no entry.       *)
Save ==
  /\ job.step = "save"
  /\ \/ /\ \A e \in cache : e.key # Key(job.commit)
        /\ cache' = cache \cup {[key |-> Key(job.commit), data |-> job.data]}
     \/ cache' = cache
  /\ job' = [job EXCEPT !.step = "deploy"]
  /\ UNCHANGED <<head, waiting, site>>

Deploy ==
  /\ job.step = "deploy"
  /\ site' = [commit |-> job.commit, data |-> job.data]
  /\ job' = [job EXCEPT !.step = "none"]
  /\ UNCHANGED <<head, waiting, cache>>

Fail ==
  /\ job.step # "none"
  /\ job' = [job EXCEPT !.step = "none"]
  /\ UNCHANGED <<head, waiting, cache, site>>

Evict == \E e \in cache : cache' = cache \ {e} /\ UNCHANGED <<head, waiting, job, site>>

Next ==
  \/ Push \/ Dispatch \/ Begin \/ Restore \/ Check \/ Upload \/ Save \/ Deploy \/ Fail \/ Evict
  \/ \E f \in Files : Get(f)

Spec == Init /\ [][Next]_vars
-----------------------------------------------------------------------------
(* The page that is published is about the data its commit pins, all of    *)
(* it, although fetch-data.sh keeps whatever a cache puts into data/; and  *)
(* no job that is under way or waits is of an older commit than the site.  *)
PublishedIsPinned ==
  /\ site.commit.number > 0 => \A f \in Files : site.data[f] = site.commit.pin
  /\ job.step # "none" => job.commit.number >= site.commit.number
  /\ waiting.number > 0 => waiting.number >= site.commit.number
=============================================================================
