----------------------------- MODULE LocalLock -----------------------------
(***************************************************************************)
(* The lock of the single-slot local model server (acquire_local_llm_lock   *)
(* and release_local_llm_lock of llm/llm_backend.py), a file that holds the *)
(* pid of its owner, and the calls of the processes that own it             *)
(* (LLMBackend.complete).                                                   *)
(*                                                                         *)
(* A file is known by who made it: after an unlink, the maker's write goes  *)
(* to a file nobody can open.  A process is one pid; pids are not reused.   *)
(* All processes are of one user, so os.kill(pid, 0) tells who is alive.    *)
(***************************************************************************)
EXTENDS Integers, FiniteSets

CONSTANTS Processes

VARIABLES
  pc,       \* what each process is doing
  lock,     \* the lock file
  saw,      \* saw[p]: whose pid p read, or Unreadable
  calls,    \* processes the server is answering
  wedged    \* the server had two calls at once, and answers nothing any more

vars == <<pc, lock, saw, calls, wedged>>

NoFile == [there |-> FALSE]
FileOf(p, written) == [there |-> TRUE, maker |-> p, written |-> written]

\* An empty file, or none any more: -1.
Unreadable == "-1"

Running(p) == pc[p] \notin {"idle", "gone"}

Init ==
  /\ pc = [p \in Processes |-> "idle"]
  /\ lock = NoFile
  /\ saw = [p \in Processes |-> Unreadable]
  /\ calls = {} /\ wedged = FALSE

Goes(p, from, to) == pc[p] = from /\ pc' = [pc EXCEPT ![p] = to]

Start(p) ==
  /\ Goes(p, "idle", "open")
  /\ UNCHANGED <<lock, saw, calls, wedged>>

\* os.open with O_CREAT and O_EXCL: the file is there, empty, before the pid is.
Create(p) ==
  /\ Goes(p, "open", "write")
  /\ ~lock.there
  /\ lock' = FileOf(p, FALSE)
  /\ UNCHANGED <<saw, calls, wedged>>

WritePid(p) ==
  /\ Goes(p, "write", "owns")
  /\ lock' = IF lock.there /\ lock.maker = p THEN FileOf(p, TRUE) ELSE lock
  /\ UNCHANGED <<saw, calls, wedged>>

AlreadyThere(p) ==
  /\ Goes(p, "open", "read")
  /\ lock.there
  /\ UNCHANGED <<lock, saw, calls, wedged>>

ReadPid(p) ==
  /\ Goes(p, "read", "judge")
  /\ saw' = [saw EXCEPT ![p] = IF lock.there /\ lock.written THEN lock.maker ELSE Unreadable]
  /\ UNCHANGED <<lock, calls, wedged>>

Stale(other) == other # Unreadable => ~Running(other)

FindStale(p) ==
  /\ Goes(p, "judge", "steal")
  /\ Stale(saw[p])
  /\ UNCHANGED <<lock, saw, calls, wedged>>

\* LocalLLMBusyError ends the process; it owns nothing to release.
FindBusy(p) ==
  /\ Goes(p, "judge", "gone")
  /\ ~Stale(saw[p])
  /\ UNCHANGED <<lock, saw, calls, wedged>>

\* Whatever file has the name now is unlinked.
Steal(p) ==
  /\ Goes(p, "steal", "open")
  /\ lock' = NoFile
  /\ UNCHANGED <<saw, calls, wedged>>

Call(p) ==
  /\ Goes(p, "owns", "calling")
  /\ calls' = calls \cup {p}
  /\ wedged' = (wedged \/ calls # {})
  /\ UNCHANGED <<lock, saw>>

\* An empty completion raises; the exception ends the process, which releases.
Reply(p) ==
  /\ p \in calls
  /\ IF wedged THEN Goes(p, "calling", "release") ELSE Goes(p, "calling", "owns")
  /\ calls' = calls \ {p}
  /\ UNCHANGED <<lock, saw, wedged>>

Finish(p) ==
  /\ Goes(p, "owns", "release")
  /\ UNCHANGED <<lock, saw, calls, wedged>>

\* release, at exit: is it ours?
CheckOwn(p) ==
  /\ IF lock.there /\ lock.written /\ lock.maker = p
     THEN Goes(p, "release", "unlink") ELSE Goes(p, "release", "gone")
  /\ UNCHANGED <<lock, saw, calls, wedged>>

Unlink(p) ==
  /\ Goes(p, "unlink", "gone")
  /\ lock' = NoFile
  /\ UNCHANGED <<saw, calls, wedged>>

\* Killed: no atexit, the file stays; the server drops the connection.
Kill(p) ==
  /\ Running(p)
  /\ pc' = [pc EXCEPT ![p] = "gone"]
  /\ calls' = calls \ {p}
  /\ UNCHANGED <<lock, saw, wedged>>

Next ==
  \E p \in Processes :
    \/ Start(p) \/ Create(p) \/ WritePid(p) \/ AlreadyThere(p) \/ ReadPid(p)
    \/ FindStale(p) \/ FindBusy(p) \/ Steal(p)
    \/ Call(p) \/ Reply(p) \/ Finish(p) \/ CheckOwn(p) \/ Unlink(p) \/ Kill(p)

Spec == Init /\ [][Next]_vars

\* "One process holds it; a second refuses loudly" (llm_backend.py:35): no two
\* processes that are alive both believe they hold the lock.
MutualExclusion ==
  Cardinality({p \in Processes : pc[p] \in {"owns", "calling"}}) <= 1
=============================================================================
