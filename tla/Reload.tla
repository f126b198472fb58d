------------------------------- MODULE Reload -------------------------------
(***************************************************************************)
(* Hot reload and the life of the pipelines: internal/engine reload.go,    *)
(* engine.go and the run command of cmd/eventr.  Concurrent actors: main,  *)
(* which starts and stops the engine; HTTP handlers and the SIGHUP         *)
(* goroutine, which call BeginReload and BeginReloadAll; the goroutine of  *)
(* every accepted reload.                                                  *)
(*                                                                         *)
(* A pipeline object is <<name, maker>>, the maker being the request that  *)
(* built it, 0 for those of Engine.Load.  A config file may be edited at   *)
(* any time: every reading finds it valid or not.  A refusal with 404, 409 *)
(* changes nothing and is a missing step.  Go iterates over its maps in    *)
(* any order, so lists of names and of pipelines are sets.                 *)
(***************************************************************************)
EXTENDS Integers, FiniteSets

CONSTANTS Names,       \* the loaded pipelines
          PathSets,    \* the possible sets of names with an entry in e.configPaths
          MaxRequests  \* bounds how many reloads are begun

ASSUME ReloadAssumption == /\ Names # {} /\ MaxRequests \in Nat
                           /\ PathSets \subseteq SUBSET Names

Requests  == 1..MaxRequests
Makers    == 0..MaxRequests
Pipelines == Names \X Makers
Nothing   == <<>>

VARIABLES main,      \* boot, starting, up, stopping, exited, fatal
          plan,      \* the pipelines Engine.Start or Engine.Stop still has to do
          signalled, \* SIGINT or SIGTERM has cancelled main's context
          current,   \* e.pipelines: the maker of the pipeline under a name
          life,      \* none, new, running, draining (cancelled), down
          reloading, \* e.reloading
          paths,     \* the names with an entry in e.configPaths
          step,      \* step[r]: where request r is
          kind,      \* one or all
          scope,     \* the names of request r
          todo,      \* those not yet swapped
          old,       \* the pipeline swapPipeline replaces
          failed,    \* firstErr # nil
          status,    \* the reload task: none, running, succeeded, failed
          health,    \* the pipelines the readiness checker asks
          seen,      \* the list refreshHealthChecker has copied
          closedNew, \* history: pipelines stopped before they were started
          overlapped \* history: two requests were in progress at once

process == <<main, plan, signalled>>
pipes   == <<current, life>>
asked   == <<paths, kind, scope>>
result  == <<failed, status>>
checker == <<health, seen>>
history == <<closedNew, overlapped>>
vars    == <<process, pipes, reloading, asked, step, todo, old, result, checker, history>>

(* The process, and whatever happens in it.                                *)
Alive    == main \notin {"exited", "fatal"}
At(r, s) == Alive /\ step[r] = s

Ended      == {"done", "invalid", "noPath"}
InProgress == {r \in Requests : step[r] \notin {"none"} \cup Ended}
Installed  == {<<n, current[n]>> : n \in Names}

Init ==
    /\ main = "boot" /\ plan = {} /\ signalled = FALSE
    /\ current = [n \in Names |-> 0]
    /\ life = [p \in Pipelines |-> IF p[2] = 0 THEN "new" ELSE "none"]
    /\ reloading = {}
    /\ paths \in PathSets
    /\ step = [r \in Requests |-> "none"]
    /\ kind = [r \in Requests |-> "one"]
    /\ scope = [r \in Requests |-> {}]
    /\ todo = [r \in Requests |-> {}]
    /\ old = [r \in Requests |-> Nothing]
    /\ failed = [r \in Requests |-> FALSE]
    /\ status = [r \in Requests |-> "none"]
    /\ health = Installed
    /\ seen = [r \in Requests |-> {}]
    /\ closedNew = {} /\ overlapped = FALSE

-----------------------------------------------------------------------------
(* Pipeline.Start and Pipeline.Stop.  Stop on a pipeline that was never    *)
(* started finds no cancel function and nothing to wait for; it closes the *)
(* edges and returns.  Stop on a stopped one does nothing new.             *)

Cancelled(p) == [life EXCEPT ![p] = IF @ = "running" THEN "draining" ELSE @]

Active(p) == life[p] \in {"running", "draining"}

(* wg.Wait has returned.                                                   *)
StopDone(p) == life[p] \in {"new", "down"}

Closed(p) == IF life[p] = "new" THEN closedNew \cup {p} ELSE closedNew

(* The goroutines of a cancelled pipeline return; they may hang.           *)
GoroutinesReturn(p) ==
    /\ Alive /\ life[p] = "draining"
    /\ life' = [life EXCEPT ![p] = "down"]
    /\ UNCHANGED <<process, current, reloading, asked, step, todo, old, result, checker, history>>

-----------------------------------------------------------------------------
(* BeginReload, BeginReloadAll: set the flags, then validate.              *)

(* The next request: requests are numbered in the order they begin.        *)
Idle(r) == At(r, "none") /\ \A q \in Requests : q < r => step[q] # "none"

FreeAlways(n) == TRUE
Free(n) == n \notin reloading

Begin(r, what, names) ==
    /\ Idle(r)
    /\ \A n \in names : Free(n)
    /\ reloading' = reloading \cup names
    /\ step' = [step EXCEPT ![r] = "check"]
    /\ kind' = [kind EXCEPT ![r] = what]
    /\ scope' = [scope EXCEPT ![r] = names]
    /\ todo' = [todo EXCEPT ![r] = names]
    /\ overlapped' = (overlapped \/ InProgress # {})
    /\ UNCHANGED <<process, pipes, paths, old, result, checker, closedNew>>

BeginReload(r)    == \E n \in paths : Begin(r, "one", {n})
BeginReloadAll(r) == Begin(r, "all", Names)

(* A name without a config path ends BeginReloadAll; only its own flag is  *)
(* cleared.                                                                *)
NoPath(r) ==
    /\ At(r, "check") /\ kind[r] = "all"
    /\ \E n \in scope[r] \ paths :
        /\ reloading' = reloading \ {n}
        /\ todo' = [todo EXCEPT ![r] = scope[r] \ {n}]
    /\ step' = [step EXCEPT ![r] = "noPath"]
    /\ UNCHANGED <<process, pipes, asked, old, result, checker, history>>

(* A config that does not load, or, for BeginReload, names another         *)
(* pipeline.                                                               *)
Invalid(r) ==
    /\ At(r, "check") /\ scope[r] \cap paths # {}
    /\ reloading' = reloading \ scope[r]
    /\ step' = [step EXCEPT ![r] = "invalid"]
    /\ todo' = [todo EXCEPT ![r] = {}]
    /\ UNCHANGED <<process, pipes, asked, old, result, checker, history>>

(* All valid: the task is stored and its goroutine started, which first    *)
(* sets it running.                                                        *)
Valid(r) ==
    /\ At(r, "check") /\ scope[r] \subseteq paths
    /\ step' = [step EXCEPT ![r] = "next"]
    /\ status' = [status EXCEPT ![r] = "running"]
    /\ UNCHANGED <<process, pipes, reloading, asked, todo, old, failed, checker, history>>

-----------------------------------------------------------------------------
(* runReload, runReloadAll.                                                *)

(* updateTask; a reload without error goes on to refresh the health        *)
(* checker, and runReload clears its flag at last.                         *)
Outcome(r) == IF failed'[r] THEN "failed" ELSE "succeeded"
Last(r)    == IF kind[r] = "one" THEN "clear" ELSE "done"

NoRefresh(r) ==
    /\ status' = [status EXCEPT ![r] = Outcome(r)]
    /\ step' = [step EXCEPT ![r] = Last(r)]
Conclude(r) ==
    /\ status' = [status EXCEPT ![r] = Outcome(r)]
    /\ step' = [step EXCEPT ![r] = IF failed'[r] THEN Last(r) ELSE "copy"]

(* runReloadAll reads every config again and breaks off at one that does   *)
(* not load; it leaves the flags of the names it has not come to.          *)
BreakOff(r) ==
    /\ At(r, "next") /\ kind[r] = "all"
    /\ failed' = [failed EXCEPT ![r] = TRUE]
    /\ Conclude(r)
    /\ UNCHANGED <<process, pipes, reloading, asked, todo, old, checker, history>>

(* swapPipeline looks the old pipeline up and calls Stop on it.            *)
OldLoaded(n) == <<n, 0>>
OldOf(n) == <<n, current[n]>>

StopOld(r) ==
    /\ At(r, "next")
    /\ \E n \in todo[r] :
        /\ old' = [old EXCEPT ![r] = OldOf(n)]
        /\ life' = Cancelled(OldOf(n))
    /\ step' = [step EXCEPT ![r] = "stop"]
    /\ UNCHANGED <<process, current, reloading, asked, todo, result, checker, history>>

Name(r) == old[r][1]
New(r)  == <<Name(r), r>>

OldStopped(r) ==
    /\ At(r, "stop") /\ StopDone(old[r])
    /\ step' = [step EXCEPT ![r] = "start"]
    /\ closedNew' = Closed(old[r])
    /\ UNCHANGED <<process, pipes, reloading, asked, todo, old, result, checker, overlapped>>

(* swapPipeline returns err.  runReloadAll clears the flag and goes on,    *)
(* runReload clears it at the very end.  The last flag and the report are  *)
(* one step here.                                                          *)
LastErr(r, err) == err
FirstErr(r, err) == failed[r] \/ err

AfterSwap(r, err) ==
    /\ failed' = [failed EXCEPT ![r] = FirstErr(r, err)]
    /\ todo' = [todo EXCEPT ![r] = @ \ {Name(r)}]
    /\ IF todo'[r] = {}
       THEN Conclude(r)
       ELSE step' = [step EXCEPT ![r] = "next"] /\ UNCHANGED status
    /\ reloading' = IF kind[r] = "all" THEN reloading \ {Name(r)} ELSE reloading
    /\ old' = [old EXCEPT ![r] = Nothing]
    /\ UNCHANGED <<process, asked, checker, history>>

(* The drain timeout.  The old pipeline may be running if Engine.Start     *)
(* started it after Stop had looked for its cancel function.               *)
StopIgnored(r) ==
    /\ At(r, "stop") /\ Active(old[r])
    /\ step' = [step EXCEPT ![r] = "start"]
    /\ UNCHANGED <<process, pipes, reloading, asked, todo, old, result, checker, history>>
StopWaits(r) == FALSE
StopTimedOut(r) ==
    /\ At(r, "stop") /\ Active(old[r])
    /\ AfterSwap(r, TRUE)
    /\ UNCHANGED pipes

(* NewPipeline and Start.  A pipeline that does not start is dropped.      *)
StartForgotten(r) ==
    /\ At(r, "start")
    /\ life' = [life EXCEPT ![New(r)] = "new"]
    /\ step' = [step EXCEPT ![r] = "install"]
    /\ UNCHANGED <<process, current, reloading, asked, todo, old, result, checker, history>>
StartNew(r) ==
    /\ At(r, "start")
    /\ life' = [life EXCEPT ![New(r)] = "running"]
    /\ step' = [step EXCEPT ![r] = "install"]
    /\ UNCHANGED <<process, current, reloading, asked, todo, old, result, checker, history>>

StartErrorLost(r) ==
    /\ At(r, "start")
    /\ step' = [step EXCEPT ![r] = "install"]
    /\ UNCHANGED <<process, pipes, reloading, asked, todo, old, result, checker, history>>
StartNewFails(r) ==
    /\ At(r, "start")
    /\ AfterSwap(r, TRUE)
    /\ UNCHANGED pipes

Install(r) ==
    /\ At(r, "install")
    /\ current' = [current EXCEPT ![Name(r)] = r]
    /\ AfterSwap(r, FALSE)
    /\ UNCHANGED life

(* refreshHealthChecker copies the pipelines under e.mu and hands the copy *)
(* to the checker after unlocking.                                         *)
CopyPipelines(r) ==
    /\ At(r, "copy")
    /\ seen' = [seen EXCEPT ![r] = Installed]
    /\ step' = [step EXCEPT ![r] = "set"]
    /\ UNCHANGED <<process, pipes, reloading, asked, todo, old, result, health, history>>

SetPipelines(r) ==
    /\ At(r, "set")
    /\ health' = seen[r]
    /\ seen' = [seen EXCEPT ![r] = {}]
    /\ step' = [step EXCEPT ![r] = Last(r)]
    /\ UNCHANGED <<process, pipes, reloading, asked, todo, old, result, history>>

(* The deferred clearReloading of runReload.                               *)
ClearFlag(r) ==
    /\ At(r, "clear")
    /\ step' = [step EXCEPT ![r] = "done"]
    /\ reloading' = reloading \ scope[r]
    /\ UNCHANGED <<process, pipes, asked, todo, old, result, checker, history>>

-----------------------------------------------------------------------------
(* The run command: Engine.Start on the pipelines found at its beginning,  *)
(* wait for the signal, Engine.Stop on those found then, exit.  The admin  *)
(* server listens from before Engine.Start until the exit.                 *)
UnchangedByMain == UNCHANGED <<current, reloading, asked, step, todo, old, result, checker, overlapped>>

EngineStart ==
    /\ main = "boot"
    /\ main' = "starting" /\ plan' = Installed
    /\ UNCHANGED <<signalled, life, closedNew>> /\ UnchangedByMain

(* Only these pipelines run under main's context.                          *)
StartOne(p) ==
    /\ main = "starting" /\ p \in plan /\ life[p] = "new"
    /\ life' = [life EXCEPT ![p] = IF signalled THEN "draining" ELSE "running"]
    /\ plan' = plan \ {p}
    /\ UNCHANGED <<main, signalled, closedNew>> /\ UnchangedByMain

(* A stage's Init fails, or a reload has started the pipeline already.     *)
StartFails ==
    /\ main = "starting" /\ plan # {}
    /\ main' = "fatal"
    /\ UNCHANGED <<plan, signalled, life, closedNew>> /\ UnchangedByMain

Started ==
    /\ main = "starting" /\ plan = {}
    /\ main' = "up"
    /\ UNCHANGED <<plan, signalled, life, closedNew>> /\ UnchangedByMain

Signal ==
    /\ Alive /\ ~signalled
    /\ signalled' = TRUE
    /\ life' = [p \in Pipelines |-> IF p[2] = 0 /\ life[p] = "running" THEN "draining" ELSE life[p]]
    /\ UNCHANGED <<main, plan, closedNew>> /\ UnchangedByMain

EngineStop ==
    /\ main = "up" /\ signalled
    /\ main' = "stopping" /\ plan' = Installed
    /\ UNCHANGED <<signalled, life, closedNew>> /\ UnchangedByMain

(* How long Stop waits is left open: it is bounded by thirty seconds for   *)
(* all pipelines together, and what fails is ignored.                      *)
StopOne(p) ==
    /\ main = "stopping" /\ p \in plan
    /\ plan' = plan \ {p}
    /\ life' = Cancelled(p) /\ closedNew' = Closed(p)
    /\ UNCHANGED <<main, signalled>> /\ UnchangedByMain

Exit ==
    /\ main = "stopping" /\ plan = {}
    /\ main' = "exited"
    /\ UNCHANGED <<plan, signalled, life, closedNew>> /\ UnchangedByMain

-----------------------------------------------------------------------------

Terminated == ~Alive /\ UNCHANGED vars

Validate(r) == NoPath(r) \/ Invalid(r) \/ Valid(r)
Swap(r)     == \/ BreakOff(r) \/ StopOld(r) \/ OldStopped(r) \/ StopTimedOut(r)
               \/ StartNew(r) \/ StartNewFails(r) \/ Install(r)
Refresh(r)  == CopyPipelines(r) \/ SetPipelines(r) \/ ClearFlag(r)
Main        == \/ EngineStart \/ StartFails \/ Started \/ EngineStop \/ Exit
               \/ \E p \in Pipelines : StartOne(p) \/ StopOne(p)

Next == \/ Main \/ Signal
        \/ \E p \in Pipelines : GoroutinesReturn(p)
        \/ \E r \in Requests : \/ BeginReload(r) \/ BeginReloadAll(r)
                              \/ Validate(r) \/ Swap(r) \/ Refresh(r)
        \/ Terminated

(* Every goroutine runs; a Stop ends because its context has a deadline.   *)
(* Nobody need signal or ask for a reload, and a pipeline may hang.        *)
Fairness == /\ WF_vars(Main)
            /\ \A r \in Requests : WF_vars(Validate(r) \/ Swap(r) \/ Refresh(r))

Spec     == Init /\ [][Next]_vars
FairSpec == Spec /\ Fairness

-----------------------------------------------------------------------------

(* The shape of the state; e.pipelines holds built pipelines only.         *)
TypeOK ==
    /\ main \in {"boot", "starting", "up", "stopping", "exited", "fatal"}
    /\ plan \subseteq Pipelines
    /\ signalled \in BOOLEAN /\ overlapped \in BOOLEAN
    /\ current \in [Names -> Makers]
    /\ life \in [Pipelines -> {"none", "new", "running", "draining", "down"}]
    /\ reloading \subseteq Names /\ paths \subseteq Names
    /\ step \in [Requests -> {"none", "check", "next", "stop", "start", "install",
                              "copy", "set", "clear"} \cup Ended]
    /\ kind \in [Requests -> {"one", "all"}]
    /\ scope \in [Requests -> SUBSET Names] /\ todo \in [Requests -> SUBSET Names]
    /\ old \in [Requests -> Pipelines \cup {Nothing}]
    /\ failed \in [Requests -> BOOLEAN]
    /\ status \in [Requests -> {"none", "running", "succeeded", "failed"}]
    /\ health \subseteq Pipelines /\ seen \in [Requests -> SUBSET Pipelines]
    /\ closedNew \subseteq Pipelines
    /\ \A p \in Installed : life[p] # "none"

(* The names a reload in progress still has to do or to give back.         *)
Holds(r) ==
    IF r \notin InProgress THEN {} ELSE IF kind[r] = "all" THEN todo[r] ELSE scope[r]

(* A reload of all that ended before it came to these names, whose flags   *)
(* it may leave set: BeginReloadAll returns at reload.go:171, runReloadAll *)
(* at :212-215, and the names are refused with 409 from then on, although  *)
(* eventr-design.md:686 explains a 409 by a reload in progress.            *)
Abandoned(r) ==
    IF step[r] = "noPath" \/ (step[r] = "done" /\ failed[r] /\ kind[r] = "all")
    THEN todo[r] ELSE {}

(* The reloading flags are locks: a name is held by one reload at a time,  *)
(* its flag is set all the while, and every other path of a reload clears  *)
(* what it set (reload.go:116-127, :154-166 and each clearReloading), but  *)
(* for the two at which a name may be abandoned.                           *)
FlagsAreLocks ==
    /\ \A r, q \in Requests : r # q => Holds(r) \cap Holds(q) = {}
    /\ \A r \in Requests : Holds(r) \subseteq reloading
    /\ \A n \in reloading : \E r \in Requests : n \in Holds(r) \cup Abandoned(r)

(* At any time at most one pipeline of a name runs or drains, two would    *)
(* read the same source and write the same sink.  The exception is a       *)
(* pipeline a reload has stopped before Engine.Start comes to start it     *)
(* (engine.go:82-95 works on a copy of the list).                          *)
AtMostOne ==
    \A p, q \in Pipelines :
        p[1] = q[1] /\ Active(p) /\ Active(q) => p = q \/ {p, q} \cap closedNew # {}

(* What runs is under its name in e.pipelines, where Engine.Stop will find *)
(* it, or is about to be put there (reload.go:262-273).                    *)
NoOrphans ==
    \A p \in Pipelines : Active(p) =>
        \/ p \in Installed
        \/ \E r \in Requests : step[r] = "install" /\ p = New(r)
        \/ p \in closedNew

(* A task reports success only if every name it was asked for has its new  *)
(* pipeline, or that of a later request (reload.go:208-225).               *)
SuccessIsComplete ==
    \A r \in Requests : status[r] = "succeeded" => \A n \in scope[r] : current[n] >= r

(* While the engine is up a pipeline is out of service only during its     *)
(* reload and after one that failed (eventr-design.md:663-677).            *)
InService ==
    main = "up" /\ ~signalled =>
        \A n \in Names :
            \/ life[<<n, current[n]>>] = "running"
            \/ n \in reloading
            \/ \E r \in Requests : n \in scope[r] /\ failed[r]

(* Between reloads the readiness checker asks the installed pipelines,     *)
(* unless two reloads were in progress at once (the copies may be handed   *)
(* over in the other order) or a reload of several failed half-way.        *)
HealthCurrent ==
    (/\ InProgress = {} /\ ~overlapped
     /\ \A r \in Requests : kind[r] = "all" => ~failed[r])
    => health = Installed

(* Every reload comes to an end while the process lives, whatever fails;   *)
(* with FlagsAreLocks its names can then be reloaded again, but for those  *)
(* a reload of all has Abandoned.                                          *)
ReloadEnds == \A r \in Requests : step[r] = "check" ~> step[r] \in Ended \/ ~Alive
=============================================================================
