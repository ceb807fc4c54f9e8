------------------------------ MODULE Collected ------------------------------
(***************************************************************************)
(* One collected, contained run of the go command: Runner.Run on Linux     *)
(* (gotool/gotool.go, collect_linux.go) under the containment of           *)
(* contain_unix.go.  The leader of the process group stays unreaped until  *)
(* the pipes are drained and the last group signal is out: its number is   *)
(* the group's, and after the reap it may be a stranger's.  A cancellation *)
(* comes from a goroutine of os/exec at any moment, and a descendant may   *)
(* hold the pipes for ever.                                                *)
(*                                                                         *)
(* The processes are the kernel's and the watching goroutine is os/exec's; *)
(* both are modelled from how the code uses them.  A process that leaves   *)
(* the group by itself is outside the boundary.  A definition introduced   *)
(* by "Mutant:" is a bug the code could have; it is used by no action and   *)
(* shows that a property notices it.                                       *)
(***************************************************************************)
Streams == {"stdout", "stderr"}

VARIABLES
    stage,     \* where runContained stands
    finished,  \* signals are over
    inGrace,   \* signals: held by a Cancel that waits out its grace
    owned,     \* the wait without reaping succeeded: "unknown", "yes", "no"
    swept,     \* the sweep: "none", "done", "refused"
    copied,    \* each copier: "copying", "eof", "cut"
    timedOut,  \* the drain outlived the wait delay and the read ends are closed
    result,    \* what runContained returned
    watch,     \* the goroutine of os/exec that waits for the context
    watchErr,  \* it reports the cancellation
    ctxDone,   \* the context has ended
    leader,    \* "none", "running", "zombie", "reaped"
    status,    \* its exit status
    kin,       \* some descendant of it lives in the group
    holding,   \* streams whose write end a descendant holds
    reused,    \* the number of the group belongs to a stranger
    signalled, \* history: a cancellation reached the group
    struck     \* history: a signal reached a stranger

runVars == <<stage, finished, owned, swept, copied, timedOut, result>>
watchVars == <<inGrace, watch, watchErr, ctxDone>>
groupVars == <<leader, status, kin, holding>>
commandVars == <<runVars, watchVars, groupVars, reused, signalled, struck>>

CommandInit ==
    /\ stage = "start" /\ finished = FALSE /\ inGrace = FALSE /\ owned = "unknown"
    /\ swept = "none" /\ copied = [s \in Streams |-> "copying"] /\ timedOut = FALSE
    /\ result = "none" /\ watch = "watching" /\ watchErr = FALSE /\ ctxDone = FALSE
    /\ leader = "none" /\ status = "none" /\ kin = FALSE /\ holding = {}
    /\ reused = FALSE /\ signalled = FALSE /\ struck = FALSE

-----------------------------------------------------------------------------
(* The group.                                                              *)

GroupLives == leader \in {"running", "zombie"} \/ kin

\* SIGKILL to the group number: everyone in it dies; with nobody in it the
\* number is free, or a stranger's.
KillGroup ==
    /\ IF GroupLives
       THEN /\ kin' = FALSE /\ holding' = {}
            /\ IF leader = "running" THEN leader' = "zombie" /\ status' = "failure"
               ELSE UNCHANGED <<leader, status>>
       ELSE UNCHANGED groupVars
    /\ struck' = (struck \/ (~GroupLives /\ reused))

\* The process handle reaches the leader and nobody else.
KillLeader ==
    /\ IF leader = "running" THEN leader' = "zombie" /\ status' = "failure"
       ELSE UNCHANGED <<leader, status>>
    /\ UNCHANGED <<kin, holding>>

\* A living member forks, with any of the write ends it holds.
Fork ==
    /\ leader = "running" \/ kin
    /\ kin' = TRUE
    /\ holding' \in SUBSET (IF leader = "running" THEN Streams ELSE holding)
    /\ UNCHANGED <<runVars, watchVars, leader, status, reused, signalled, struck>>

KinEnds ==
    /\ kin /\ kin' = FALSE /\ holding' = {}
    /\ UNCHANGED <<runVars, watchVars, leader, status, reused, signalled, struck>>

LeaderExits ==
    /\ leader = "running" /\ leader' = "zombie"
    /\ status' \in {"success", "failure"}
    /\ UNCHANGED <<runVars, watchVars, kin, holding, reused, signalled, struck>>

\* The kernel gives a free number to somebody else.
Reuse ==
    /\ leader = "reaped" /\ ~kin /\ ~reused /\ reused' = TRUE
    /\ UNCHANGED <<runVars, watchVars, groupVars, signalled, struck>>

ContextEnds ==
    /\ ~ctxDone /\ ctxDone' = TRUE
    /\ UNCHANGED <<runVars, inGrace, watch, watchErr, groupVars, reused, signalled, struck>>

-----------------------------------------------------------------------------
(* runContained.                                                           *)

\* cmd.Start refuses an ended context, too.
Start ==
    /\ stage = "start"
    /\ \/ /\ ~ctxDone /\ leader' = "running" /\ stage' = "exited" /\ UNCHANGED result
       \/ /\ stage' = "returned" /\ result' = "notStarted" /\ UNCHANGED leader
    /\ UNCHANGED <<finished, owned, swept, copied, timedOut, watchVars, status, kin, holding,
                   reused, signalled, struck>>

\* waitExited leaves the leader waitable.
Exited ==
    /\ stage = "exited" /\ leader = "zombie"
    /\ owned' = "yes" /\ stage' = "drain"
    /\ UNCHANGED <<finished, swept, copied, timedOut, result, watchVars, groupVars, reused,
                   signalled, struck>>

\* Without the premise of an unreaped child no group signal is sent any more.
Disown ==
    /\ stage = "exited" /\ ~inGrace
    /\ owned' = "no" /\ finished' = TRUE /\ stage' = "drain"
    /\ KillLeader
    /\ UNCHANGED <<swept, copied, timedOut, result, watchVars, reused, signalled, struck>>

\* A copier ends when every write end is closed, or its own end is.
Copier(s) ==
    /\ copied[s] = "copying" /\ stage # "start"
    /\ \/ leader # "running" /\ s \notin holding /\ copied' = [copied EXCEPT ![s] = "eof"]
       \/ timedOut /\ copied' = [copied EXCEPT ![s] = "cut"]
    /\ UNCHANGED <<stage, finished, owned, swept, timedOut, result, watchVars, groupVars, reused,
                   signalled, struck>>

\* drainCollected: the timer closes the read ends, the copiers still end.
DrainExpires ==
    /\ stage = "drain" /\ ~timedOut /\ \E s \in Streams : copied[s] = "copying"
    /\ timedOut' = TRUE
    /\ UNCHANGED <<stage, finished, owned, swept, copied, result, watchVars, groupVars, reused,
                   signalled, struck>>

DrainDone ==
    /\ stage = "drain" /\ \A s \in Streams : copied[s] # "copying"
    /\ stage' = "sweep"
    /\ UNCHANGED <<finished, owned, swept, copied, timedOut, result, watchVars, groupVars, reused,
                   signalled, struck>>

\* Mutant: only a cancelled or overdue run is swept.
SweepIfDue ==
    /\ stage = "sweep" /\ ~inGrace
    /\ finished' = TRUE /\ stage' = "wait"
    /\ IF owned = "yes" /\ (timedOut \/ ctxDone)
       THEN \/ swept' = "done" /\ KillGroup
            \/ swept' = "refused" /\ UNCHANGED <<groupVars, struck>>
       ELSE UNCHANGED <<swept, groupVars, struck>>
    /\ UNCHANGED <<owned, copied, timedOut, result, watchVars, reused, signalled>>

\* The last signal, after a Cancel already under way and before any later one
\* becomes inert.
Sweep ==
    /\ stage = "sweep" /\ ~inGrace
    /\ finished' = TRUE /\ stage' = "wait"
    /\ IF owned = "yes"
       THEN \/ swept' = "done" /\ KillGroup
            \/ swept' = "refused" /\ UNCHANGED <<groupVars, struck>>
       ELSE UNCHANGED <<swept, groupVars, struck>>
    /\ UNCHANGED <<owned, copied, timedOut, result, watchVars, reused, signalled>>

\* cmd.Wait reaps the leader ...
Reap ==
    /\ stage = "wait" /\ leader = "zombie"
    /\ leader' = "reaped" /\ stage' = "await"
    /\ UNCHANGED <<finished, owned, swept, copied, timedOut, result, watchVars, status, kin,
                   holding, reused, signalled, struck>>

\* Mutant: the answer of an overdue drain is an ordinary one.
OutcomeUnhurried ==
    IF owned = "no" \/ swept = "refused" THEN "containment"
    ELSE IF status # "success" THEN "exitError"
    ELSE IF watchErr THEN "cancelled"
    ELSE "ok"

\* A cleanup refusal first, then cmd.Wait's error, then the drain's; a copier
\* may also have failed by itself.
Outcome ==
    IF owned = "no" \/ swept = "refused" THEN "containment"
    ELSE IF status # "success" THEN "exitError"
    ELSE IF watchErr THEN "cancelled"
    ELSE IF timedOut THEN "waitDelay"
    ELSE "ok"

\* ... and then hears from the watching goroutine, once it is not in Cancel.
Return ==
    /\ stage = "await" /\ watch \in {"watching", "delayed", "killed"}
    /\ stage' = "returned" /\ watch' = "done"
    /\ result' \in {Outcome} \cup (IF Outcome = "ok" THEN {"copyError"} ELSE {})
    /\ UNCHANGED <<finished, owned, swept, copied, timedOut, inGrace, watchErr, ctxDone, groupVars,
                   reused, signalled, struck>>

Run == \/ Start \/ Exited \/ DrainExpires \/ DrainDone \/ Sweep \/ Reap \/ Return
       \/ \E s \in Streams : Copier(s)

-----------------------------------------------------------------------------
(* The cancellation.                                                       *)

WatchWakes ==
    /\ watch = "watching" /\ stage # "start" /\ ctxDone /\ watch' = "cancel"
    /\ UNCHANGED <<runVars, inGrace, watchErr, ctxDone, groupVars, reused, signalled, struck>>

\* Mutant: a late Cancel still signals.
CancelUngated ==
    /\ watch = "cancel" /\ ~inGrace
    /\ watch' = "delayed" /\ watchErr' = GroupLives /\ KillGroup /\ signalled' = GroupLives
    /\ UNCHANGED <<runVars, inGrace, ctxDone, reused>>

\* cmd.Cancel of runContained around that of contain: inert once finished;
\* otherwise the group is killed, or asked to quit and given a grace, or the
\* signal is refused.
Cancel ==
    /\ watch = "cancel" /\ ~inGrace
    /\ \/ /\ finished /\ watch' = "delayed"
          /\ UNCHANGED <<inGrace, watchErr, groupVars, signalled, struck>>
       \/ /\ ~finished /\ watch' = "delayed" /\ watchErr' = GroupLives
          /\ KillGroup /\ signalled' = GroupLives /\ UNCHANGED inGrace
       \/ /\ ~finished /\ GroupLives /\ watch' = "grace" /\ inGrace' = TRUE
          /\ signalled' = TRUE /\ UNCHANGED <<watchErr, groupVars, struck>>
       \/ /\ ~finished /\ GroupLives /\ watch' = "delayed" /\ watchErr' = TRUE
          /\ UNCHANGED <<inGrace, groupVars, signalled, struck>>
    /\ UNCHANGED <<runVars, ctxDone, reused>>

\* The grace is over: the group is killed, found gone, or refuses.
GraceEnds ==
    /\ watch = "grace" /\ watch' = "delayed" /\ inGrace' = FALSE
    /\ \/ watchErr' = GroupLives /\ KillGroup
       \/ watchErr' = TRUE /\ GroupLives /\ UNCHANGED <<groupVars, struck>>
    /\ UNCHANGED <<runVars, ctxDone, reused, signalled>>

\* Mutant: a leader that ignored the group signal is left alone.
DelayEndsIdle ==
    /\ watch = "delayed" /\ watch' = "killed"
    /\ UNCHANGED <<runVars, inGrace, watchErr, ctxDone, groupVars, reused, signalled, struck>>

\* os/exec kills the leader itself when the wait delay is over.
DelayEnds ==
    /\ watch = "delayed" /\ watch' = "killed"
    /\ KillLeader
    /\ UNCHANGED <<runVars, inGrace, watchErr, ctxDone, reused, signalled, struck>>

Watch == WatchWakes \/ Cancel \/ GraceEnds \/ DelayEnds

CommandNext == \/ Run \/ Disown \/ Watch
        \/ Fork \/ KinEnds \/ LeaderExits \/ Reuse \/ ContextEnds

\* Both goroutines run on and timers expire; no process owes an exit.
CommandSpec == CommandInit /\ [][CommandNext]_commandVars /\ WF_commandVars(Run) /\ WF_commandVars(Watch)
-----------------------------------------------------------------------------
Stages == {"start", "exited", "drain", "sweep", "wait", "await", "returned"}
Results == {"notStarted", "containment", "exitError", "cancelled", "waitDelay", "copyError", "ok"}

\* No signal ever reaches a stranger that took the group's number, however late
\* the cancellation comes and however long its grace is (runContained).
NoStrangerIsStruck == ~struck

\* A run that returns leaves nobody of its group behind, unless it says that
\* the boundary could not be enforced (Run, "ends the remaining process group").
NobodyIsLeft == result \notin {"none", "notStarted", "containment"} => ~kin

\* What is reported as an answer is one: whole when reported plainly, and when
\* salvaged at the wait delay, from a leader that succeeded and was not
\* cancelled, of a group that was swept, with nothing writing to it any more; a
\* cleanup refusal authorizes no salvage (runContained, Salvaged).
AnswersAreEarned ==
    /\ result = "ok" => /\ status = "success" /\ ~signalled
                        /\ \A s \in Streams : copied[s] = "eof"
    /\ result = "waitDelay" => /\ status = "success" /\ ~signalled /\ swept = "done"
                               /\ \A s \in Streams : copied[s] # "copying"

\* A run whose leader exited or whose context ended returns: a descendant that
\* keeps the pipes, or a signal that is refused, only delays it.
RunReturns ==
    stage \notin {"start", "returned"} /\ (ctxDone \/ leader = "zombie") ~> stage = "returned"
=============================================================================
