-------------------------------- MODULE Once --------------------------------
(***************************************************************************)
(* The one-shot holder of gotool (once.take of gotool/memo.go) behind the  *)
(* toolchain sampler and the pass's environment reader: the first ask      *)
(* spawns the go command, the others wait for its answer, each under its   *)
(* own context, and a failed answer is the holder's as much as any other.  *)
(* RunMemo.Get only hands out one such holder per directory and            *)
(* environment; the holders share nothing.                                 *)
(*                                                                         *)
(* A definition introduced by "Mutant:" is a bug the code could have; it is *)
(* used by no action and shows that a property notices it.                 *)
(***************************************************************************)
CONSTANTS
    Asks,      \* calls of take
    Values,    \* what the go command may answer
    Failures,  \* errors it may fail with, whatever the context
    NoAsk, NoAnswer

ASSUME OnceAssumption ==
    /\ NoAsk \notin Asks
    /\ Values \cap Failures = {}
    /\ {"killed", "cancelled", "panicked", NoAnswer} \cap (Values \cup Failures) = {}
    /\ NoAnswer \notin {"killed", "cancelled", "panicked"}

\* An error that only the end of the asking context causes.
Killed == "killed"
Errors == Failures \cup {Killed}
Answers == Values \cup Errors
Returns == Answers \cup {"cancelled", "panicked"}

VARIABLES
    held,      \* once.value and once.err, NoAnswer until once.taken
    inflight,  \* the ask whose take runs (once.inflight), or NoAsk
    where,     \* where each ask stands
    waits,     \* the take it waits on
    got,       \* what its own take came to
    answer,    \* what it returned
    dead       \* asks whose context has ended

onceVars == <<held, inflight, where, waits, got, answer, dead>>

\* A primed reader holds its snapshot before anybody can ask (PrimedEnvReader).
OnceInit ==
    /\ held \in Values \cup {NoAnswer} /\ inflight = NoAsk
    /\ where = [a \in Asks |-> "idle"] /\ waits = [a \in Asks |-> NoAsk]
    /\ got = [a \in Asks |-> NoAnswer] /\ answer = [a \in Asks |-> NoAnswer]
    /\ dead = {}

Goes(a, place) == where' = [where EXCEPT ![a] = place] /\ UNCHANGED answer
Answered(a, r) == where' = [where EXCEPT ![a] = "returned"] /\ answer' = [answer EXCEPT ![a] = r]

Ask(a) ==
    /\ where[a] = "idle" /\ Goes(a, "loop")
    /\ UNCHANGED <<held, inflight, waits, got, dead>>

\* The head of the loop reads the context without the mutex.
Loop(a) ==
    /\ where[a] = "loop"
    /\ IF a \in dead THEN Answered(a, "cancelled") ELSE Goes(a, "lock")
    /\ UNCHANGED <<held, inflight, waits, got, dead>>

\* Mutant: an ask that finds a take running starts its own.
EnterImpatient(a) ==
    /\ where[a] = "lock"
    /\ \/ held # NoAnswer /\ Answered(a, held) /\ UNCHANGED inflight
       \/ held = NoAnswer /\ inflight' = a /\ Goes(a, "taking")
    /\ UNCHANGED <<held, waits, got, dead>>

\* The critical section: a held answer, or the take, or a take to wait on.
Enter(a) ==
    /\ where[a] = "lock"
    /\ \/ held # NoAnswer /\ Answered(a, held) /\ UNCHANGED <<inflight, waits>>
       \/ held = NoAnswer /\ inflight = NoAsk
          /\ inflight' = a /\ Goes(a, "taking") /\ UNCHANGED waits
       \/ held = NoAnswer /\ inflight # NoAsk
          /\ waits' = [waits EXCEPT ![a] = inflight] /\ Goes(a, "waiting")
          /\ UNCHANGED inflight
    /\ UNCHANGED <<held, got, dead>>

\* select: the end of the awaited take, or of the own context.
Wake(a) ==
    /\ where[a] = "waiting"
    /\ \/ inflight # waits[a] /\ Goes(a, "loop")
       \/ a \in dead /\ Answered(a, "cancelled")
    /\ UNCHANGED <<held, inflight, waits, got, dead>>

\* Mutant: a take that fails under an ended context keeps its error.
TakeRemembered(a) ==
    /\ where[a] = "taking" /\ Goes(a, "completing")
    /\ \E r \in Values \cup Failures \cup (IF a \in dead THEN {Killed} ELSE {}) \cup {"panicked"} :
          got' = [got EXCEPT ![a] = r]
    /\ UNCHANGED <<held, inflight, waits, dead>>

\* fn returns or panics.  Whether the failure is the caller's cancellation is
\* judged once, here, for the caller and for the holder.
Take(a) ==
    /\ where[a] = "taking" /\ Goes(a, "completing")
    /\ \E r \in Values \cup Failures \cup (IF a \in dead THEN {Killed} ELSE {}) \cup {"panicked"} :
          got' = [got EXCEPT ![a] = IF r \in Errors /\ a \in dead THEN "cancelled" ELSE r]
    /\ UNCHANGED <<held, inflight, waits, dead>>

\* Mutant: a take that panics releases nobody.
CompleteUnlessPanicked(a) ==
    /\ where[a] = "completing"
    /\ held' = IF got[a] \in Answers THEN got[a] ELSE held
    /\ inflight' = IF got[a] = "panicked" THEN inflight ELSE NoAsk
    /\ Answered(a, got[a])
    /\ UNCHANGED <<waits, got, dead>>

\* The deferred critical section: only an answer is held; the waiters are
\* released in any case.
Complete(a) ==
    /\ where[a] = "completing"
    /\ held' = IF got[a] \in Answers THEN got[a] ELSE held
    /\ inflight' = NoAsk
    /\ Answered(a, got[a])
    /\ UNCHANGED <<waits, got, dead>>

\* The caller of an ask gives up.
GiveUp(a) ==
    /\ a \notin dead /\ where[a] # "returned" /\ dead' = dead \cup {a}
    /\ UNCHANGED <<held, inflight, where, waits, got, answer>>

\* What take does without the go command.
Holder(a) == Loop(a) \/ Enter(a) \/ Wake(a) \/ Complete(a)

OnceNext == \E a \in Asks : Ask(a) \/ Holder(a) \/ Take(a) \/ GiveUp(a)

OnceSpec == OnceInit /\ [][OnceNext]_onceVars /\ \A a \in Asks : WF_onceVars(Holder(a))

\* The go command ends, too: the runner bounds its cancellation and its drain.
TakesEnd == OnceSpec /\ \A a \in Asks : WF_onceVars(Take(a))
-----------------------------------------------------------------------------
Stations == {"idle", "loop", "lock", "waiting", "taking", "completing", "returned"}
Owning == {"taking", "completing"}

\* The type invariant.
HolderTypeOK ==
    /\ held \in Answers \cup {NoAnswer} /\ inflight \in Asks \cup {NoAsk}
    /\ where \in [Asks -> Stations] /\ waits \in [Asks -> Asks \cup {NoAsk}]
    /\ got \in [Asks -> Returns \cup {NoAnswer}]
    /\ answer \in [Asks -> Returns \cup {NoAnswer}] /\ dead \subseteq Asks

\* One spawn at a time, and none once there is an answer: whoever wakes first
\* after a cancelled or panicked take, the others wait again (take).
OneSpawn ==
    /\ \A a, b \in Asks : where[a] \in Owning /\ where[b] \in Owning => a = b
    /\ (\E a \in Asks : where[a] \in Owning) => held = NoAnswer

\* All asks that get an answer or a failure get the same one: a judged run
\* never mixes two samples of the toolchain (Sampler, EnvReader).
OneAnswer == \A a \in Asks : answer[a] \in Answers => answer[a] = held

\* A cancellation is the caller's: no ask with a live context hears of one, as
\* a cancellation or as a failure another caller's end caused.
CancellationIsOwn ==
    \A a \in Asks : answer[a] \in {"cancelled", Killed} => a \in dead

\* Every ask returns once the go command does, whoever took, was cancelled or
\* panicked before it.
AsksReturn == \A a \in Asks : where[a] # "idle" ~> where[a] = "returned"
=============================================================================
