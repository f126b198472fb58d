---------------------------- MODULE ReloadProofs ----------------------------
(***************************************************************************)
(* Theorems about Reload.tla, for any pipelines and any number of reloads. *)
(*                                                                         *)
(* IInv is the inductive invariant.  A request that is inside swapPipeline *)
(* holds the flag of the name, so the pipeline it looked up stays the      *)
(* installed one until it installs its own; by then that one has stopped,  *)
(* or had never been started and is in closedNew.                          *)
(***************************************************************************)
EXTENDS Reload, TLAPS

Swapping == {"stop", "start", "install"}

RequestsSane ==
    \A r \in Requests :
        /\ todo[r] \subseteq scope[r]
        /\ step[r] = "check" => todo[r] = scope[r]
        /\ step[r] = "none" => scope[r] = {}
        /\ step[r] = "clear" => kind[r] = "one"
        /\ step[r] \in {"copy", "set"} => todo[r] = {}
        /\ step[r] \in Swapping => old[r] \in Installed /\ Name(r) \in todo[r]
        /\ \A n \in Names : current[n] = r => step[r] # "none" /\ n \notin todo[r]

(* The names whose flag a request has set and not cleared, for ever in the *)
(* case of a reload of all that met a missing path or broke off.           *)
Claims(r) ==
    IF kind[r] = "all" THEN todo[r] ELSE IF step[r] \in Ended THEN {} ELSE scope[r]

FlagsInv ==
    /\ \A r, q \in Requests : r # q => Claims(r) \cap Claims(q) = {}
    /\ reloading = UNION {Claims(r) : r \in Requests}

(* The old pipeline has stopped before the new one is built.               *)
OldDown ==
    \A r \in Requests :
        /\ step[r] \in {"start", "install"} => life[old[r]] = "down" \/ old[r] \in closedNew
        /\ step[r] = "install" => life[New(r)] # "none"

(* Engine.Start's copy of the list: what it has not started and a reload   *)
(* has replaced, that reload has stopped.                                  *)
PlanKnown ==
    main = "starting" => \A p \in plan : life[p] = "new" => p \in Installed \cup closedNew

IInv == /\ TypeOK
        /\ RequestsSane
        /\ FlagsInv
        /\ OldDown
        /\ PlanKnown
        /\ NoOrphans
        /\ AtMostOne

-----------------------------------------------------------------------------
(* A request inside swapPipeline has the flag of the name and knows the    *)
(* installed pipeline.                                                     *)
LEMMA SwappingFacts ==
    ASSUME IInv, NEW r \in Requests, step[r] \in Swapping
    PROVE  /\ Name(r) \in Names
           /\ Name(r) \in Claims(r)
           /\ old[r] = <<Name(r), current[Name(r)]>>
           /\ old[r] \in Pipelines
           /\ New(r) \in Pipelines
<1>1. old[r] \in Installed /\ Name(r) \in todo[r]
  BY DEF IInv, RequestsSane
<1>2. /\ Name(r) \in Names
      /\ old[r] = <<Name(r), current[Name(r)]>>
      /\ current[Name(r)] \in Makers
  BY <1>1 DEF IInv, TypeOK, Installed, Name
<1>3. Name(r) \in Claims(r)
  BY <1>1 DEF IInv, RequestsSane, Claims, Swapping, Ended
<1>4. r \in Makers
  BY DEF Requests, Makers
<1> QED
  BY <1>2, <1>3, <1>4 DEF Pipelines, New

(* Two requests inside swapPipeline work on different names.               *)
LEMMA DifferentNames ==
    ASSUME IInv, NEW r \in Requests, NEW q \in Requests, r # q,
           step[r] \in Swapping, step[q] \in Swapping
    PROVE  Name(r) # Name(q)
<1>1. Name(r) \in Claims(r) /\ Name(q) \in Claims(q)
  BY SwappingFacts
<1> QED
  BY <1>1 DEF IInv, FlagsInv

-----------------------------------------------------------------------------
(* Initial states.                                                         *)
LEMMA InitInv == Init => IInv
<1> SUFFICES ASSUME Init PROVE IInv
  OBVIOUS
<1>1. TypeOK
  <2>1. life \in [Pipelines -> {"none", "new", "running", "draining", "down"}]
    BY DEF Init
  <2>2. Installed \subseteq Pipelines /\ \A p \in Installed : life[p] # "none"
    BY ReloadAssumption DEF Init, Installed, Pipelines, Makers
  <2>3. /\ current \in [Names -> Makers]
        /\ health \subseteq Pipelines
        /\ paths \subseteq Names
    BY <2>2, ReloadAssumption DEF Init, Makers
  <2>4. /\ step \in [Requests -> {"none"}] /\ kind \in [Requests -> {"one"}]
        /\ scope \in [Requests -> SUBSET Names] /\ todo \in [Requests -> SUBSET Names]
        /\ failed \in [Requests -> BOOLEAN] /\ status \in [Requests -> {"none"}]
        /\ seen \in [Requests -> SUBSET Pipelines]
    BY DEF Init
  <2>5. old \in [Requests -> Pipelines \cup {Nothing}]
    BY DEF Init
  <2> QED
    BY <2>1, <2>2, <2>3, <2>4, <2>5 DEF Init, TypeOK
<1>2. RequestsSane
  <2>1. 0 \notin Requests
    BY ReloadAssumption DEF Requests
  <2> QED
    BY <2>1 DEF Init, RequestsSane, Swapping
<1>3. FlagsInv
  BY DEF Init, FlagsInv, Claims
<1>4. OldDown /\ PlanKnown
  BY DEF Init, OldDown, PlanKnown
<1>5. NoOrphans /\ AtMostOne
  BY DEF Init, NoOrphans, AtMostOne, Active
<1> QED
  BY <1>1, <1>2, <1>3, <1>4, <1>5 DEF IInv

-----------------------------------------------------------------------------
(* What a step leaves alone stays true.                                    *)
LEMMA PipelinesUntouched ==
    ASSUME IInv, UNCHANGED <<main, plan, pipes, closedNew, old>>,
           \A q \in Requests : step'[q] = step[q]
                             \/ {step[q], step'[q]} \cap {"start", "install"} = {}
    PROVE  OldDown' /\ PlanKnown' /\ NoOrphans' /\ AtMostOne'
<1>1. OldDown'
  BY DEF IInv, OldDown, pipes, New, Name
<1>2. PlanKnown'
  BY DEF IInv, PlanKnown, Installed, pipes
<1>3. NoOrphans'
  BY DEF IInv, NoOrphans, Active, Installed, pipes, New, Name
<1>4. AtMostOne'
  BY DEF IInv, AtMostOne, Active, pipes
<1> QED
  BY <1>1, <1>2, <1>3, <1>4

LEMMA RequestsUntouched ==
    ASSUME IInv, UNCHANGED <<current, reloading, asked, step, todo, old>>
    PROVE  RequestsSane' /\ FlagsInv'
<1>1. RequestsSane'
  BY DEF IInv, RequestsSane, Installed, Name, asked
<1>2. FlagsInv'
  BY DEF IInv, FlagsInv, Claims, asked
<1> QED
  BY <1>1, <1>2

(* A step that changes what one request claims, to names nobody else has   *)
(* claimed, and the flags with it.                                         *)
LEMMA LocksKept ==
    ASSUME FlagsInv, NEW r \in Requests,
           \A q \in Requests \ {r} : Claims(q)' = Claims(q) /\ Claims(q) \cap Claims(r)' = {},
           reloading' = (reloading \ Claims(r)) \cup Claims(r)'
    PROVE  FlagsInv'
<1>1. \A p, q \in Requests : p # q => Claims(p)' \cap Claims(q)' = {}
  BY DEF FlagsInv
<1>2. \A n : n \in reloading' <=> \E q \in Requests : n \in Claims(q)'
  BY DEF FlagsInv
<1> QED
  BY <1>1, <1>2 DEF FlagsInv

-----------------------------------------------------------------------------
(* Beginning, refusing, validating.                                        *)
LEMMA BeginInv ==
    ASSUME IInv, NEW r \in Requests, NEW what \in {"one", "all"}, NEW names \in SUBSET Names,
           Begin(r, what, names)
    PROVE  IInv'
<1>1. TypeOK'
  BY DEF IInv, TypeOK, Begin, Installed, process, pipes, result, checker, Ended
<1>2. RequestsSane'
  BY DEF IInv, TypeOK, RequestsSane, Begin, Idle, At, Installed, Name, pipes, Swapping
<1>3. FlagsInv'
  <2>0. /\ step[r] = "none" /\ step'[r] = "check"
        /\ scope'[r] = names /\ todo'[r] = names
    BY DEF IInv, TypeOK, Begin, Idle, At
  <2>1. Claims(r) = {} /\ Claims(r)' = names
    BY <2>0 DEF Claims, IInv, RequestsSane, Ended
  <2>2. \A q \in Requests \ {r} : Claims(q)' = Claims(q)
    BY DEF IInv, TypeOK, Begin, Claims
  <2>3. \A q \in Requests : Claims(q) \cap names = {}
    BY DEF IInv, FlagsInv, Begin, Free
  <2> QED
    BY <2>1, <2>2, <2>3, LocksKept DEF IInv, Begin
<1>4. OldDown' /\ PlanKnown' /\ NoOrphans' /\ AtMostOne'
  BY PipelinesUntouched DEF IInv, TypeOK, Begin, Idle, At, process
<1> QED
  BY <1>1, <1>2, <1>3, <1>4 DEF IInv

LEMMA ValidateInv ==
    ASSUME IInv, NEW r \in Requests, Validate(r)
    PROVE  IInv'
<1>1. TypeOK'
  BY DEF IInv, TypeOK, Validate, NoPath, Invalid, Valid, At, Installed, process, pipes, asked, result,
         checker, history, Ended
<1>2. RequestsSane'
  BY DEF IInv, TypeOK, RequestsSane, Validate, NoPath, Invalid, Valid, At, Installed, Name, pipes,
         asked, Swapping
<1>3. FlagsInv'
  <2>1. \A q \in Requests \ {r} : Claims(q)' = Claims(q)
    BY DEF IInv, TypeOK, Validate, NoPath, Invalid, Valid, Claims, asked
  <2>2. Claims(r) = scope[r] /\ step[r] = "check"
    BY DEF IInv, RequestsSane, Validate, NoPath, Invalid, Valid, At, Claims, Ended
  <2>3. /\ Claims(r) \subseteq reloading
        /\ \A q \in Requests \ {r} : Claims(q) \cap Claims(r) = {}
    BY DEF IInv, FlagsInv
  <2>4. /\ Claims(r)' \subseteq Claims(r)
        /\ reloading' = (reloading \ Claims(r)) \cup Claims(r)'
    <3>1. CASE NoPath(r)
      <4>1. PICK n \in scope[r] : todo'[r] = scope[r] \ {n} /\ reloading' = reloading \ {n}
        BY <3>1 DEF IInv, TypeOK, NoPath
      <4>2. kind'[r] = "all"
        BY <3>1 DEF IInv, TypeOK, NoPath, asked
      <4>3. Claims(r)' = scope[r] \ {n}
        BY <4>1, <4>2 DEF Claims
      <4> QED
        BY <4>1, <4>3, <2>2, <2>3
    <3>2. CASE Invalid(r)
      <4>1. step'[r] = "invalid" /\ todo'[r] = {} /\ reloading' = reloading \ scope[r]
        BY <3>2 DEF IInv, TypeOK, Invalid
      <4>2. Claims(r)' = {}
        BY <4>1 DEF Claims, Ended
      <4> QED
        BY <4>1, <4>2, <2>2
    <3>3. CASE Valid(r)
      <4>1. /\ step'[r] = "next" /\ reloading' = reloading
            /\ todo'[r] = scope[r] /\ scope'[r] = scope[r]
        BY <3>3, <2>2 DEF IInv, TypeOK, RequestsSane, Valid, asked
      <4>2. Claims(r)' = scope[r]
        BY <4>1 DEF Claims, Ended
      <4> QED
        BY <4>1, <4>2, <2>2, <2>3
    <3> QED
      BY <3>1, <3>2, <3>3 DEF Validate
  <2> QED
    BY <2>1, <2>3, <2>4, LocksKept DEF IInv
<1>4. OldDown' /\ PlanKnown' /\ NoOrphans' /\ AtMostOne'
  BY PipelinesUntouched DEF IInv, TypeOK, Validate, NoPath, Invalid, Valid, At, process, history
<1> QED
  BY <1>1, <1>2, <1>3, <1>4 DEF IInv

-----------------------------------------------------------------------------
(* Refreshing the health checker and clearing the last flag.               *)
LEMMA RefreshInv ==
    ASSUME IInv, NEW r \in Requests, Refresh(r)
    PROVE  IInv'
<1>1. TypeOK'
  <2>1. Installed \subseteq Pipelines
    BY DEF IInv, TypeOK, Installed, Pipelines
  <2> QED
    BY <2>1 DEF IInv, TypeOK, Refresh, CopyPipelines, SetPipelines, ClearFlag, Last, At, Installed,
           process, pipes, asked, result, history, checker, Ended
<1>2. RequestsSane'
  BY DEF IInv, TypeOK, RequestsSane, Refresh, CopyPipelines, SetPipelines, ClearFlag, Last, At,
         Installed, Name, pipes, asked, Swapping
<1>3. FlagsInv'
  <2>1. \A q \in Requests \ {r} : Claims(q)' = Claims(q)
    BY DEF IInv, TypeOK, Refresh, CopyPipelines, SetPipelines, ClearFlag, Claims, asked
  <2>2. /\ Claims(r) \subseteq reloading
        /\ \A q \in Requests \ {r} : Claims(q) \cap Claims(r) = {}
    BY DEF IInv, FlagsInv
  <2>3. /\ Claims(r)' \subseteq Claims(r)
        /\ reloading' = (reloading \ Claims(r)) \cup Claims(r)'
    <3>1. CASE CopyPipelines(r)
      BY <2>2, <3>1 DEF IInv, TypeOK, CopyPipelines, At, Claims, asked, Ended
    <3>2. CASE SetPipelines(r)
      BY <2>2, <3>2 DEF IInv, TypeOK, SetPipelines, At, Last, Claims, asked, Ended
    <3>3. CASE ClearFlag(r)
      BY <2>2, <3>3 DEF IInv, TypeOK, RequestsSane, ClearFlag, At, Claims, asked, Ended
    <3> QED
      BY <3>1, <3>2, <3>3 DEF Refresh
  <2> QED
    BY <2>1, <2>2, <2>3, LocksKept DEF IInv
<1>4. OldDown' /\ PlanKnown' /\ NoOrphans' /\ AtMostOne'
  BY PipelinesUntouched
     DEF IInv, TypeOK, Refresh, CopyPipelines, SetPipelines, ClearFlag, Last, At, process, history
<1> QED
  BY <1>1, <1>2, <1>3, <1>4 DEF IInv

LEMMA BreakOffInv ==
    ASSUME IInv, NEW r \in Requests, BreakOff(r)
    PROVE  IInv'
<1>0. /\ step[r] = "next" /\ kind[r] = "all" /\ failed'[r] = TRUE
      /\ step' = [step EXCEPT ![r] = "done"]
      /\ status' = [status EXCEPT ![r] = "failed"]
  BY DEF IInv, TypeOK, BreakOff, Conclude, Last, Outcome, At
<1>1. TypeOK'
  BY <1>0 DEF IInv, TypeOK, BreakOff, Installed, process, pipes, asked, checker, history, Ended
<1>2. RequestsSane' /\ FlagsInv'
  BY <1>0 DEF IInv, TypeOK, RequestsSane, FlagsInv, BreakOff, Claims, Installed, Name, pipes,
         asked, Swapping
<1>3. OldDown' /\ PlanKnown' /\ NoOrphans' /\ AtMostOne'
  BY <1>0, PipelinesUntouched DEF IInv, TypeOK, BreakOff, process, history
<1> QED
  BY <1>1, <1>2, <1>3 DEF IInv

-----------------------------------------------------------------------------
(* swapPipeline up to the point where the new pipeline is installed.       *)
LEMMA StopOldInv ==
    ASSUME IInv, NEW r \in Requests, StopOld(r)
    PROVE  IInv'
<1>0. PICK n \in todo[r] : /\ old' = [old EXCEPT ![r] = <<n, current[n]>>]
                           /\ life' = Cancelled(<<n, current[n]>>)
  BY DEF StopOld, OldOf
<1>1. n \in Names /\ <<n, current[n]>> \in Installed /\ Installed \subseteq Pipelines
  BY <1>0 DEF IInv, TypeOK, Installed, Pipelines
<1>2. step[r] = "next" /\ step' = [step EXCEPT ![r] = "stop"] /\ Installed' = Installed
  BY DEF StopOld, At, Installed
<1>3. life' \in [Pipelines -> {"none", "new", "running", "draining", "down"}]
  BY <1>0, <1>1 DEF IInv, TypeOK, Cancelled
<1>4. \A p \in Pipelines : /\ Active(p)' <=> Active(p)
                           /\ life'[p] = "none" <=> life[p] = "none"
                           /\ life'[p] = "new" <=> life[p] = "new"
                           /\ life'[p] = "down" <=> life[p] = "down"
  BY <1>0, <1>1 DEF IInv, TypeOK, Cancelled, Active
<1>5. TypeOK'
  BY <1>0, <1>1, <1>2, <1>3, <1>4 DEF IInv, TypeOK, StopOld, process, asked, result, checker, history
<1>6. RequestsSane'
  BY <1>0, <1>1, <1>2 DEF IInv, TypeOK, RequestsSane, StopOld, Name, asked, Swapping
<1>7. FlagsInv'
  BY <1>2 DEF IInv, TypeOK, FlagsInv, StopOld, Claims, asked, Ended
<1>8. OldDown'
  <2> SUFFICES ASSUME NEW q \in Requests, step'[q] \in {"start", "install"}
               PROVE  /\ life'[old'[q]] = "down" \/ old'[q] \in closedNew'
                      /\ step'[q] = "install" => life'[New(q)'] # "none"
    BY DEF OldDown
  <2>1. q # r /\ step'[q] = step[q] /\ old'[q] = old[q] /\ New(q)' = New(q)
    BY <1>0, <1>2 DEF IInv, TypeOK, New, Name
  <2>2. old[q] \in Pipelines /\ New(q) \in Pipelines
    BY <2>1, SwappingFacts DEF Swapping
  <2> QED
    BY <2>1, <2>2, <1>4 DEF IInv, OldDown, StopOld, history
<1>9. PlanKnown'
  BY <1>2, <1>4 DEF IInv, TypeOK, PlanKnown, StopOld, process, history
<1>10. NoOrphans'
  BY <1>0, <1>2, <1>4 DEF IInv, TypeOK, NoOrphans, StopOld, New, Name, history
<1>11. AtMostOne'
  BY <1>4 DEF IInv, AtMostOne, StopOld, history
<1> QED
  BY <1>5, <1>6, <1>7, <1>8, <1>9, <1>10, <1>11 DEF IInv

LEMMA OldStoppedInv ==
    ASSUME IInv, NEW r \in Requests, OldStopped(r)
    PROVE  IInv'
<1>1. /\ step[r] = "stop" /\ step' = [step EXCEPT ![r] = "start"] /\ Installed' = Installed
      /\ life[old[r]] \in {"new", "down"}
      /\ closedNew' = Closed(old[r])
      /\ UNCHANGED <<life, current, old, todo, kind, scope, main, plan, reloading>>
  BY DEF OldStopped, At, StopDone, Installed, pipes, asked, process
<1>2. old[r] \in Pipelines
  BY <1>1, SwappingFacts DEF Swapping
<1>3. /\ closedNew \subseteq closedNew' /\ closedNew' \subseteq Pipelines
      /\ life[old[r]] = "down" \/ old[r] \in closedNew'
  BY <1>1, <1>2 DEF IInv, TypeOK, Closed
<1>4. TypeOK'
  BY <1>1, <1>3 DEF IInv, TypeOK, OldStopped, process, asked, result, checker
<1>5. RequestsSane' /\ FlagsInv'
  BY <1>1 DEF IInv, TypeOK, RequestsSane, FlagsInv, Claims, Name, Swapping, Ended
<1>6. OldDown'
  BY <1>1, <1>3 DEF IInv, TypeOK, OldDown, New, Name
<1>7. PlanKnown' /\ AtMostOne'
  BY <1>1, <1>3 DEF IInv, PlanKnown, AtMostOne, Active
<1>8. NoOrphans'
  BY <1>1, <1>3 DEF IInv, TypeOK, NoOrphans, Active, New, Name
<1> QED
  BY <1>4, <1>5, <1>6, <1>7, <1>8 DEF IInv

LEMMA StartNewInv ==
    ASSUME IInv, NEW r \in Requests, StartNew(r)
    PROVE  IInv'
<1>1. /\ step[r] = "start" /\ step' = [step EXCEPT ![r] = "install"] /\ Installed' = Installed
      /\ life' = [life EXCEPT ![New(r)] = "running"]
      /\ UNCHANGED <<closedNew, current, old, todo, kind, scope, main, plan, reloading>>
  BY DEF StartNew, At, Installed, history, asked, process
<1>2. /\ New(r) \in Pipelines /\ Name(r) \in Names
      /\ old[r] = <<Name(r), current[Name(r)]>> /\ old[r] \in Pipelines
      /\ life[old[r]] = "down" \/ old[r] \in closedNew
  BY <1>1, SwappingFacts DEF Swapping, IInv, OldDown
<1>3. TypeOK'
  BY <1>1, <1>2 DEF IInv, TypeOK, StartNew, process, asked, result, checker, history
<1>4. RequestsSane' /\ FlagsInv'
  BY <1>1 DEF IInv, TypeOK, RequestsSane, FlagsInv, Claims, Name, Swapping, Ended
<1>5. \A p \in Pipelines : p # New(r) => life'[p] = life[p]
  BY <1>1 DEF IInv, TypeOK
<1>6. life'[New(r)] = "running"
  BY <1>1, <1>2 DEF IInv, TypeOK
<1>7. OldDown'
  <2> SUFFICES ASSUME NEW q \in Requests, step'[q] \in {"start", "install"}
               PROVE  /\ life'[old'[q]] = "down" \/ old'[q] \in closedNew'
                      /\ step'[q] = "install" => life'[New(q)'] # "none"
    BY DEF OldDown
  <2>1. CASE q = r
    <3>1. old[r] # New(r)
      BY <1>1, <1>2 DEF IInv, RequestsSane, New, Swapping
    <3> QED
      BY <2>1, <3>1, <1>1, <1>2, <1>5, <1>6 DEF New, Name
  <2>2. CASE q # r
    <3>1. step[q] = step'[q] /\ old'[q] = old[q] /\ New(q)' = New(q)
      BY <2>2, <1>1 DEF IInv, TypeOK, New, Name
    <3>2. /\ old[q] \in Pipelines /\ old[q][1] = Name(q) /\ Name(q) # Name(r)
          /\ New(q) \in Pipelines /\ New(q) # New(r)
      BY <2>2, <3>1, <1>1, SwappingFacts, DifferentNames DEF Swapping, New, Name
    <3> QED
      BY <3>1, <3>2, <1>1, <1>5 DEF IInv, OldDown, New
  <2> QED
    BY <2>1, <2>2
<1>8. PlanKnown'
  BY <1>1, <1>5, <1>6 DEF IInv, TypeOK, PlanKnown
<1>9. NoOrphans'
  BY <1>1, <1>5 DEF IInv, TypeOK, NoOrphans, Active, New, Name
<1>10. AtMostOne'
  <2>1. ASSUME NEW q \in Pipelines, q[1] = Name(r), Active(q), q # New(r), q \notin closedNew
        PROVE  FALSE
    <3>1. CASE q \in Installed
      BY <3>1, <2>1, <1>2 DEF Installed, Active
    <3>2. CASE \E s \in Requests : step[s] = "install" /\ q = New(s)
      <4>1. PICK s \in Requests : step[s] = "install" /\ q = New(s)
        BY <3>2
      <4>2. s # r /\ Name(s) = Name(r)
        BY <4>1, <2>1, <1>1 DEF New
      <4> QED
        BY <4>1, <4>2, <1>1, DifferentNames DEF Swapping
    <3> QED
      BY <3>1, <3>2, <2>1 DEF IInv, NoOrphans
  <2> QED
    BY <2>1, <1>1, <1>5 DEF IInv, AtMostOne, Active, New
<1> QED
  BY <1>3, <1>4, <1>7, <1>8, <1>9, <1>10 DEF IInv

(* swapPipeline has returned: the request goes on to the next name or to   *)
(* its end.                                                                *)
LEMMA AfterSwapInv ==
    ASSUME IInv, NEW r \in Requests, NEW err \in BOOLEAN, step[r] \in Swapping, AfterSwap(r, err),
           \/ current' = current
           \/ current' = [current EXCEPT ![Name(r)] = r] /\ life[New(r)] # "none",
           life' = life
    PROVE  /\ TypeOK' /\ RequestsSane' /\ FlagsInv' /\ OldDown'
           /\ \A q \in Requests \ {r} : step'[q] = step[q] /\ New(q)' = New(q)
<1>1. /\ todo' = [todo EXCEPT ![r] = @ \ {Name(r)}]
      /\ reloading' = IF kind[r] = "all" THEN reloading \ {Name(r)} ELSE reloading
      /\ old' = [old EXCEPT ![r] = Nothing]
      /\ UNCHANGED <<scope, kind, paths, closedNew, main, plan, signalled>>
  BY DEF AfterSwap, process, asked, history
<1>2. PICK s \in {"next", "copy", "clear", "done"} :
          /\ step' = [step EXCEPT ![r] = s]
          /\ s = "next" => todo'[r] # {}
          /\ s # "next" => todo'[r] = {}
          /\ s \in {"clear", "done"} => (s = "clear" <=> kind[r] = "one")
  BY DEF AfterSwap, Conclude, Last, IInv, TypeOK
<1>3. /\ Name(r) \in Names /\ old[r] = <<Name(r), current[Name(r)]>> /\ Name(r) \in todo[r]
      /\ New(r) \in Pipelines /\ r \in Makers
  BY SwappingFacts DEF IInv, RequestsSane, Requests, Makers
<1>4. /\ current' \in [Names -> Makers]
      /\ \A n \in Names \ {Name(r)} : current'[n] = current[n]
      /\ current'[Name(r)] \in {current[Name(r)], r}
      /\ \A p \in Installed' : life'[p] # "none"
  <2>1. current \in [Names -> Makers]
    BY DEF IInv, TypeOK
  <2>2. CASE current' = current
    BY <2>1, <2>2 DEF IInv, TypeOK, Installed
  <2>3. CASE current' = [current EXCEPT ![Name(r)] = r] /\ life[New(r)] # "none"
    BY <2>1, <2>3, <1>3 DEF IInv, TypeOK, Installed, New
  <2> QED
    BY <2>2, <2>3
<1>5. \A q \in Requests \ {r} : step'[q] = step[q] /\ old'[q] = old[q] /\ New(q)' = New(q)
  BY <1>1, <1>2 DEF IInv, TypeOK, New, Name
<1>6. TypeOK'
  <2>1. /\ failed' \in [Requests -> BOOLEAN]
        /\ status' \in [Requests -> {"none", "running", "succeeded", "failed"}]
    BY DEF IInv, TypeOK, AfterSwap, Conclude, Outcome, FirstErr
  <2>2. step' \in [Requests -> {"none", "check", "next", "stop", "start", "install",
                               "copy", "set", "clear"} \cup Ended]
    BY <1>2 DEF IInv, TypeOK, Ended
  <2> QED
    BY <2>1, <2>2, <1>1, <1>4 DEF IInv, TypeOK, AfterSwap, process, asked, checker, history
<1>7. RequestsSane'
  <2> SUFFICES ASSUME NEW q \in Requests
               PROVE  /\ todo'[q] \subseteq scope'[q]
                      /\ step'[q] = "check" => todo'[q] = scope'[q]
                      /\ step'[q] = "none" => scope'[q] = {}
                      /\ step'[q] = "clear" => kind'[q] = "one"
                      /\ step'[q] \in {"copy", "set"} => todo'[q] = {}
                      /\ step'[q] \in Swapping => old'[q] \in Installed' /\ Name(q)' \in todo'[q]
                      /\ \A n \in Names : current'[n] = q => step'[q] # "none" /\ n \notin todo'[q]
    BY DEF RequestsSane
  <2>1. CASE q = r
    BY <2>1, <1>1, <1>2, <1>3, <1>4 DEF IInv, TypeOK, RequestsSane, Swapping
  <2>2. CASE q # r
    <3>1. step'[q] \in Swapping => old'[q] \in Installed' /\ Name(q)' \in todo'[q]
      <4> SUFFICES ASSUME step'[q] \in Swapping PROVE old'[q] \in Installed' /\ Name(q)' \in todo'[q]
        OBVIOUS
      <4>1. Name(q) # Name(r) /\ Name(q) \in Names /\ old[q] = <<Name(q), current[Name(q)]>>
        BY <2>2, <1>5, SwappingFacts, DifferentNames
      <4>2. Name(q) \in todo[q]
        BY <2>2, <1>5 DEF IInv, RequestsSane
      <4>3. old'[q] = old[q] /\ todo'[q] = todo[q] /\ Name(q)' = Name(q)
        BY <2>2, <1>1, <1>5 DEF IInv, TypeOK, Name
      <4>4. current'[Name(q)] = current[Name(q)]
        BY <4>1, <1>4
      <4> QED
        BY <4>1, <4>2, <4>3, <4>4 DEF Installed
    <3>2. \A n \in Names : current'[n] = q => step'[q] # "none" /\ n \notin todo'[q]
      BY <2>2, <1>1, <1>4, <1>5 DEF IInv, TypeOK, RequestsSane
    <3> QED
      BY <2>2, <3>1, <3>2, <1>1, <1>5 DEF IInv, TypeOK, RequestsSane
  <2> QED
    BY <2>1, <2>2
<1>8. FlagsInv'
  <2>1. \A q \in Requests \ {r} : Claims(q)' = Claims(q)
    BY <1>1, <1>5 DEF IInv, TypeOK, Claims
  <2>2. /\ Claims(r) \subseteq reloading
        /\ \A q \in Requests \ {r} : Claims(q) \cap Claims(r) = {}
    BY DEF IInv, FlagsInv
  <2>3. CASE kind[r] = "all"
    <3>1. Claims(r) = todo[r] /\ Claims(r)' = todo[r] \ {Name(r)}
      BY <2>3, <1>1 DEF IInv, TypeOK, Claims
    <3> QED
      BY <2>1, <2>2, <2>3, <3>1, <1>1, <1>3, LocksKept DEF IInv
  <2>4. CASE kind[r] = "one"
    <3>1. Claims(r) = scope[r] /\ Claims(r)' = scope[r]
      BY <2>4, <1>1, <1>2 DEF IInv, TypeOK, Claims, Swapping, Ended
    <3> QED
      BY <2>1, <2>2, <2>4, <3>1, <1>1, LocksKept DEF IInv
  <2> QED
    BY <2>3, <2>4 DEF IInv, TypeOK
<1>9. OldDown'
  <2> SUFFICES ASSUME NEW q \in Requests, step'[q] \in {"start", "install"}
               PROVE  /\ life'[old'[q]] = "down" \/ old'[q] \in closedNew'
                      /\ step'[q] = "install" => life'[New(q)'] # "none"
    BY DEF OldDown
  <2>1. q # r
    BY <1>2 DEF IInv, TypeOK
  <2> QED
    BY <2>1, <1>1, <1>5 DEF IInv, OldDown
<1> QED
  BY <1>5, <1>6, <1>7, <1>8, <1>9

LEMMA SwapFailsInv ==
    ASSUME IInv, NEW r \in Requests, StopTimedOut(r) \/ StartNewFails(r)
    PROVE  IInv'
<1>1. /\ step[r] \in {"stop", "start"} /\ AfterSwap(r, TRUE) /\ UNCHANGED <<current, life>>
  BY DEF StopTimedOut, StartNewFails, At, pipes
<1>2. /\ TypeOK' /\ RequestsSane' /\ FlagsInv' /\ OldDown'
      /\ \A q \in Requests \ {r} : step'[q] = step[q] /\ New(q)' = New(q)
  BY <1>1, AfterSwapInv DEF Swapping
<1>3. UNCHANGED <<main, plan, closedNew>> /\ Installed' = Installed
  BY <1>1 DEF AfterSwap, process, history, Installed
<1>4. PlanKnown' /\ AtMostOne'
  BY <1>1, <1>3 DEF IInv, PlanKnown, AtMostOne, Active
<1>5. NoOrphans'
  BY <1>1, <1>2, <1>3 DEF IInv, NoOrphans, Active
<1> QED
  BY <1>2, <1>4, <1>5 DEF IInv

LEMMA InstallInv ==
    ASSUME IInv, NEW r \in Requests, Install(r)
    PROVE  IInv'
<1>1. /\ step[r] = "install" /\ AfterSwap(r, FALSE) /\ life' = life
      /\ current' = [current EXCEPT ![Name(r)] = r] /\ life[New(r)] # "none"
  BY DEF Install, At, IInv, OldDown
<1>2. /\ TypeOK' /\ RequestsSane' /\ FlagsInv' /\ OldDown'
      /\ \A q \in Requests \ {r} : step'[q] = step[q] /\ New(q)' = New(q)
  BY <1>1, AfterSwapInv DEF Swapping
<1>3. /\ Name(r) \in Names /\ old[r] = <<Name(r), current[Name(r)]>>
      /\ life[old[r]] = "down" \/ old[r] \in closedNew
  BY <1>1, SwappingFacts DEF Swapping, IInv, OldDown
<1>4. UNCHANGED <<main, plan, closedNew>>
  BY <1>1 DEF AfterSwap, process, history
<1>5. New(r) \in Installed' /\ \A p \in Installed : p = old[r] \/ p \in Installed'
  BY <1>1, <1>3 DEF IInv, TypeOK, Installed, New
<1>6. PlanKnown'
  BY <1>1, <1>3, <1>4, <1>5 DEF IInv, PlanKnown
<1>7. NoOrphans'
  BY <1>1, <1>2, <1>3, <1>4, <1>5 DEF IInv, NoOrphans, Active
<1>8. AtMostOne'
  BY <1>1, <1>4 DEF IInv, AtMostOne, Active
<1> QED
  BY <1>2, <1>6, <1>7, <1>8 DEF IInv

-----------------------------------------------------------------------------
(* main, the signal, and the pipelines' own goroutines.                    *)
LEMMA MainInv ==
    ASSUME IInv, Main
    PROVE  IInv'
<1>0. /\ UNCHANGED <<current, reloading, asked, step, todo, old, result, checker, overlapped>>
      /\ Installed' = Installed /\ Installed \subseteq Pipelines
  BY DEF Main, EngineStart, StartFails, Started, EngineStop, Exit, StartOne, StopOne, UnchangedByMain,
         Installed, IInv, TypeOK, Pipelines
<1>1. RequestsSane' /\ FlagsInv'
  BY <1>0, RequestsUntouched
<1>2. \A q \in Requests : New(q)' = New(q) /\ step'[q] = step[q] /\ old'[q] = old[q]
  BY <1>0 DEF New, Name
<1>3. \A q \in Requests : step[q] \in Swapping => old[q] \in Pipelines /\ New(q) \in Pipelines
  BY SwappingFacts
<1>4. CASE EngineStart \/ StartFails \/ Started \/ EngineStop \/ Exit
  <2>1. /\ life' = life /\ closedNew' = closedNew /\ signalled' = signalled
        /\ plan' = plan \/ plan' = Installed
        /\ main' \in {"starting", "fatal", "up", "stopping", "exited"}
        /\ main' = "starting" => plan' = Installed
    BY <1>4 DEF EngineStart, StartFails, Started, EngineStop, Exit
  <2>2. plan' \subseteq Pipelines
    BY <2>1, <1>0 DEF IInv, TypeOK
  <2>3. TypeOK'
    BY <2>1, <2>2, <1>0 DEF IInv, TypeOK, asked, result, checker
  <2>4. \A q \in Pipelines : Active(q)' <=> Active(q)
    BY <2>1 DEF Active
  <2>5. OldDown'
    BY <2>1, <1>2 DEF IInv, OldDown
  <2>6. PlanKnown'
    BY <2>1, <1>0 DEF PlanKnown
  <2>7. AtMostOne'
    BY <2>1, <2>4 DEF IInv, AtMostOne
  <2>8. NoOrphans'
    BY <2>1, <2>4, <1>0, <1>2 DEF IInv, NoOrphans
  <2> QED
    BY <1>1, <2>3, <2>5, <2>6, <2>7, <2>8 DEF IInv
<1>5. ASSUME NEW p \in Pipelines, StartOne(p)
      PROVE  IInv'
  <2>1. /\ main = "starting" /\ p \in plan /\ life[p] = "new" /\ plan' = plan \ {p}
        /\ life' \in [Pipelines -> {"none", "new", "running", "draining", "down"}]
        /\ \A q \in Pipelines \ {p} : life'[q] = life[q]
        /\ life'[p] \in {"running", "draining"}
        /\ UNCHANGED <<main, signalled, closedNew>>
    BY <1>5 DEF StartOne, IInv, TypeOK
  <2>2. TypeOK'
    BY <2>1, <1>0 DEF IInv, TypeOK, asked, result, checker
  <2>3. OldDown'
    BY <2>1, <1>2, <1>3 DEF IInv, OldDown, Swapping
  <2>4. PlanKnown'
    BY <2>1, <1>0 DEF IInv, TypeOK, PlanKnown
  <2>5. NoOrphans'
    BY <2>1, <1>0, <1>2 DEF IInv, PlanKnown, NoOrphans, Active
  <2>6. AtMostOne'
    <3> SUFFICES ASSUME NEW q \in Pipelines, q # p, q[1] = p[1], Active(q),
                        q \notin closedNew, p \notin closedNew
                 PROVE  FALSE
      BY <2>1 DEF IInv, AtMostOne, Active
    <3>1. p \in Installed
      BY <2>1 DEF IInv, PlanKnown
    <3>2. CASE q \in Installed
      BY <3>1, <3>2 DEF Installed
    <3>3. CASE \E s \in Requests : step[s] = "install" /\ q = New(s)
      <4>1. PICK s \in Requests : step[s] = "install" /\ q = New(s)
        BY <3>3
      <4>2. /\ old[s] = <<Name(s), current[Name(s)]>>
            /\ life[old[s]] = "down" \/ old[s] \in closedNew
        BY <4>1, SwappingFacts DEF Swapping, IInv, OldDown
      <4>3. p = old[s]
        BY <4>1, <4>2, <3>1 DEF Installed, New
      <4> QED
        BY <4>2, <4>3, <2>1
    <3> QED
      BY <3>2, <3>3 DEF IInv, NoOrphans
  <2> QED
    BY <1>1, <2>2, <2>3, <2>4, <2>5, <2>6 DEF IInv
<1>6. ASSUME NEW p \in Pipelines, StopOne(p)
      PROVE  IInv'
  <2>1. /\ main = "stopping" /\ plan' = plan \ {p}
        /\ life' \in [Pipelines -> {"none", "new", "running", "draining", "down"}]
        /\ \A q \in Pipelines : /\ life'[q] = "none" <=> life[q] = "none"
                                /\ life'[q] = "down" <=> life[q] = "down"
                                /\ Active(q)' <=> Active(q)
        /\ UNCHANGED <<main, signalled>>
        /\ closedNew \subseteq closedNew' /\ closedNew' \subseteq Pipelines
    BY <1>6 DEF StopOne, Cancelled, Closed, Active, IInv, TypeOK
  <2>2. TypeOK'
    BY <2>1, <1>0 DEF IInv, TypeOK, asked, result, checker
  <2>3. OldDown'
    BY <2>1, <1>2, <1>3 DEF IInv, OldDown, Swapping
  <2>4. PlanKnown' /\ AtMostOne'
    BY <2>1 DEF IInv, PlanKnown, AtMostOne
  <2>5. NoOrphans'
    BY <2>1, <1>0, <1>2 DEF IInv, NoOrphans
  <2> QED
    BY <1>1, <2>2, <2>3, <2>4, <2>5 DEF IInv
<1> QED
  BY <1>4, <1>5, <1>6 DEF Main

(* A signal and the return of a pipeline's goroutines start nothing.       *)
LEMMA FewerRunningInv ==
    ASSUME IInv, Signal \/ \E p \in Pipelines : GoroutinesReturn(p)
    PROVE  IInv'
<1>1. /\ UNCHANGED <<main, plan, current, reloading, asked, step, todo, old, result, checker, history>>
      /\ Installed' = Installed /\ signalled' \in BOOLEAN
  <2>1. CASE Signal
    BY <2>1 DEF Signal, UnchangedByMain, history, Installed
  <2>2. CASE \E p \in Pipelines : GoroutinesReturn(p)
    BY <2>2 DEF GoroutinesReturn, process, Installed, IInv, TypeOK
  <2> QED
    BY <2>1, <2>2
<1>2. /\ life' \in [Pipelines -> {"none", "new", "running", "draining", "down"}]
      /\ \A q \in Pipelines : /\ life'[q] = "none" <=> life[q] = "none"
                              /\ life'[q] = "new" <=> life[q] = "new"
                              /\ life[q] = "down" => life'[q] = "down"
                              /\ Active(q)' => Active(q)
  BY DEF Signal, GoroutinesReturn, Active, IInv, TypeOK
<1>3. TypeOK'
  <2>1. Installed \subseteq Pipelines
    BY DEF IInv, TypeOK, Installed, Pipelines
  <2> QED
    BY <2>1, <1>1, <1>2 DEF IInv, TypeOK, asked, result, checker, history
<1>4. RequestsSane' /\ FlagsInv'
  BY <1>1, RequestsUntouched
<1>5. \A q \in Requests : New(q)' = New(q) /\ step'[q] = step[q] /\ old'[q] = old[q]
  BY <1>1 DEF New, Name
<1>6. OldDown'
  <2>1. \A q \in Requests : step[q] \in Swapping => old[q] \in Pipelines /\ New(q) \in Pipelines
    BY SwappingFacts
  <2> QED
    BY <2>1, <1>1, <1>2, <1>5 DEF IInv, OldDown, Swapping, history
<1>7. PlanKnown'
  BY <1>1, <1>2 DEF IInv, TypeOK, PlanKnown, history
<1>8. NoOrphans' /\ AtMostOne'
  BY <1>1, <1>2, <1>5 DEF IInv, NoOrphans, AtMostOne, history
<1> QED
  BY <1>3, <1>4, <1>6, <1>7, <1>8 DEF IInv

-----------------------------------------------------------------------------
(* Every step.                                                             *)
LEMMA NextInv ==
    ASSUME IInv, [Next]_vars
    PROVE  IInv'
<1>1. CASE UNCHANGED vars
  BY <1>1 DEF vars, process, pipes, asked, result, checker, history, IInv, TypeOK, RequestsSane,
              FlagsInv, OldDown, PlanKnown, NoOrphans, AtMostOne, Installed, Claims, Active,
              Name, New
<1>2. CASE Main
  BY <1>2, MainInv
<1>3. CASE Signal \/ \E p \in Pipelines : GoroutinesReturn(p)
  BY <1>3, FewerRunningInv
<1>4. ASSUME NEW r \in Requests, BeginReload(r) \/ BeginReloadAll(r)
      PROVE  IInv'
  <2>1. paths \subseteq Names
    BY DEF IInv, TypeOK
  <2>2. \/ \E n \in Names : Begin(r, "one", {n})
        \/ Begin(r, "all", Names)
    BY <1>4, <2>1 DEF BeginReload, BeginReloadAll
  <2> QED
    BY <2>2, BeginInv
<1>5. ASSUME NEW r \in Requests, Validate(r)
      PROVE  IInv'
  BY <1>5, ValidateInv
<1>6. ASSUME NEW r \in Requests, Swap(r)
      PROVE  IInv'
  BY <1>6, BreakOffInv, StopOldInv, OldStoppedInv, StartNewInv, SwapFailsInv, InstallInv DEF Swap
<1>7. ASSUME NEW r \in Requests, Refresh(r)
      PROVE  IInv'
  BY <1>7, RefreshInv
<1> QED
  BY <1>1, <1>2, <1>3, <1>4, <1>5, <1>6, <1>7 DEF Next, Terminated

LEMMA Invariance == Spec => []IInv
<1>1. Init => IInv
  BY InitInv
<1>2. IInv /\ [Next]_vars => IInv'
  BY NextInv
<1> QED
  BY <1>1, <1>2, PTL DEF Spec

(* The state keeps its shape, and e.pipelines never holds a pipeline that  *)
(* has not been built.                                                     *)
THEOREM TypeCorrect == Spec => []TypeOK
<1>1. IInv => TypeOK
  BY DEF IInv
<1> QED
  BY <1>1, Invariance, PTL

(* swapPipeline stops before it starts: two pipelines of one name never    *)
(* run together, but for one that was stopped before Engine.Start started  *)
(* it.                                                                     *)
THEOREM OnePipeline == Spec => []AtMostOne
<1>1. IInv => AtMostOne
  BY DEF IInv
<1> QED
  BY <1>1, Invariance, PTL

(* What runs is in e.pipelines, where Engine.Stop finds it, or about to be *)
(* put there, with the same exception.                                     *)
THEOREM NothingRunsUnseen == Spec => []NoOrphans
<1>1. IInv => NoOrphans
  BY DEF IInv
<1> QED
  BY <1>1, Invariance, PTL

-----------------------------------------------------------------------------
(* What becomes of the names of a request: success, service, health.       *)

(* Requests begin in the order of their numbers, without a result; a       *)
(* reload of one pipeline has one name, no longer when it has ended.       *)
Numbered ==
    /\ \A q, r \in Requests : q < r /\ step[q] = "none" => step[r] = "none"
    /\ \A r \in Requests :
          /\ step[r] \in {"none", "check"} => status[r] = "none" /\ ~failed[r]
          /\ step[r] \in {"next"} \cup Swapping => status[r] = "running"
          /\ step[r] = "invalid" => todo[r] = {}
          /\ step[r] = "done" => failed[r] \/ todo[r] = {}
    /\ \A r \in Requests : kind[r] = "one" =>
          /\ \A n, m \in todo[r] : n = m
          /\ step[r] \in Ended \cup {"clear"} => todo[r] = {}
          /\ step[r] \in {"next"} \cup Swapping => ~failed[r]

(* A name that a request is through with goes to later requests only.      *)
Succession ==
    \A q, r \in Requests : \A n \in Names :
        n \in todo[q] /\ n \in scope[r] /\ n \notin todo[r] => r <= q

(* No name of a reload without error is skipped. *)
NoneSkipped ==
    \A r \in Requests :
        /\ status[r] # "none" /\ ~failed[r] =>
              \A n \in scope[r] : n \in todo[r] \/ current[n] >= r
        /\ status[r] = "succeeded" => ~failed[r] /\ todo[r] = {}

(* The new pipeline runs while it waits to be installed.                   *)
NewRuns ==
    \A r \in Requests : step[r] = "install" /\ main \notin {"stopping", "exited"} =>
        life[New(r)] = "running"

(* Out of service: not yet started, being swapped, or in a failed reload.  *)
Serving ==
    main \in {"starting", "up"} /\ ~signalled =>
        \A n \in Names :
            \/ life[<<n, current[n]>>] = "running"
            \/ main = "starting" /\ <<n, current[n]>> \in plan
            \/ \E r \in Requests : step[r] \in Swapping /\ n = Name(r)
            \/ \E r \in Requests : n \in scope[r] /\ failed[r]

(* One request at a time, and it refreshes the checker when it installs.   *)
Orderly == ~overlapped /\ \A r \in Requests : kind[r] = "all" => ~failed[r]
Healthy ==
    Orderly =>
        /\ \A q, r \in InProgress : q = r
        /\ InProgress = {} => health = Installed
        /\ \A r \in InProgress :
              /\ step[r] \in {"check", "clear"} => health = Installed
              /\ step[r] \in {"next"} \cup Swapping /\ kind[r] = "one" => health = Installed
              /\ step[r] = "set" => seen[r] = Installed

OutcomeInv == Numbered /\ Succession /\ NoneSkipped /\ NewRuns /\ Serving /\ Healthy

LEMMA TodoApart ==
    ASSUME IInv, Numbered, NEW q \in Requests, NEW r \in Requests, q # r
    PROVE  todo[q] \cap todo[r] = {}
<1>1. \A p \in Requests : todo[p] \subseteq Claims(p)
  <2> SUFFICES ASSUME NEW p \in Requests
               PROVE  todo[p] \subseteq Claims(p)
    OBVIOUS
  <2>1. CASE kind[p] = "all"
    BY <2>1 DEF Claims
  <2>2. CASE kind[p] = "one"
    BY <2>2 DEF Claims, Numbered, IInv, RequestsSane
  <2> QED
    BY <2>1, <2>2 DEF IInv, TypeOK
<1> QED
  BY <1>1 DEF IInv, FlagsInv

LEMMA RequestsInt == Requests \subseteq Int
BY DEF Requests

(* No request moves. *)
LEMMA NoRequestMoves ==
    ASSUME IInv, OutcomeInv, UNCHANGED <<current, asked, step, todo, result, checker, overlapped>>
    PROVE  Numbered' /\ Succession' /\ NoneSkipped' /\ Healthy'
<1>1. Numbered' /\ Succession' /\ NoneSkipped'
  BY DEF OutcomeInv, Numbered, Succession, NoneSkipped, asked, result
<1>2. InProgress' = InProgress /\ Installed' = Installed
  BY DEF InProgress, Installed
<1>3. Healthy'
  BY <1>2 DEF OutcomeInv, Healthy, Orderly, asked, result, checker
<1> QED
  BY <1>1, <1>3

LEMMA BeginOutcome ==
    ASSUME IInv, OutcomeInv, NEW r \in Requests, NEW what \in {"one", "all"},
           NEW names \in SUBSET Names, what = "one" => \A n, m \in names : n = m,
           Begin(r, what, names)
    PROVE  OutcomeInv'
<1>1. /\ step[r] = "none" /\ \A q \in Requests : q < r => step[q] # "none"
      /\ step' = [step EXCEPT ![r] = "check"] /\ kind' = [kind EXCEPT ![r] = what]
      /\ scope' = [scope EXCEPT ![r] = names] /\ todo' = [todo EXCEPT ![r] = names]
      /\ overlapped' = (overlapped \/ InProgress # {})
      /\ UNCHANGED <<main, plan, signalled, current, life, old, failed, status, health, seen>>
  BY DEF Begin, Idle, At, process, pipes, result, checker
<1>2. /\ step'[r] = "check" /\ kind'[r] = what /\ scope'[r] = names /\ todo'[r] = names
      /\ \A q \in Requests \ {r} : /\ step'[q] = step[q] /\ kind'[q] = kind[q]
                                   /\ scope'[q] = scope[q] /\ todo'[q] = todo[q]
  BY <1>1 DEF IInv, TypeOK
<1>3. scope[r] = {} /\ todo[r] = {}
  BY <1>1 DEF IInv, RequestsSane
<1>4. \A q \in Requests : r < q => scope[q] = {}
  BY <1>1 DEF OutcomeInv, Numbered, IInv, RequestsSane
<1>5. Numbered'
  BY <1>1, <1>2 DEF OutcomeInv, Numbered, Ended, Swapping
<1>6. Succession'
  BY <1>2, <1>4, RequestsInt DEF OutcomeInv, Succession
<1>7. NoneSkipped'
  BY <1>1, <1>2 DEF OutcomeInv, Numbered, NoneSkipped
<1>8. NewRuns'
  BY <1>1, <1>2 DEF OutcomeInv, NewRuns, New, Name
<1>9. Serving'
  BY <1>1, <1>2, <1>3 DEF OutcomeInv, Serving, Swapping, Name
<1>10. Healthy'
  <2> SUFFICES ASSUME Orderly'
               PROVE  InProgress' = {r} /\ health' = Installed'
    BY <1>1, <1>2 DEF Healthy, Swapping
  <2>1. Orderly /\ InProgress = {}
    BY <1>1, <1>2 DEF Orderly, OutcomeInv, Numbered
  <2>2. InProgress' = {r}
    BY <1>2, <2>1 DEF InProgress, Ended
  <2>3. health' = Installed'
    BY <1>1, <2>1 DEF OutcomeInv, Healthy, Installed
  <2> QED
    BY <2>2, <2>3
<1> QED
  BY <1>5, <1>6, <1>7, <1>8, <1>9, <1>10 DEF OutcomeInv

(* A request that changes nothing but its own step, its todo and the flags *)
(* does what its new step asks for.                                        *)
LEMMA ValidateOutcome ==
    ASSUME IInv, OutcomeInv, NEW r \in Requests, Validate(r)
    PROVE  OutcomeInv'
<1>1. PICK s \in {"noPath", "invalid", "next"} :
        /\ step[r] = "check" /\ step' = [step EXCEPT ![r] = s]
        /\ UNCHANGED <<main, plan, signalled, current, life, old, failed, health, seen,
                       kind, scope, overlapped>>
        /\ todo'[r] \subseteq todo[r] /\ \A q \in Requests \ {r} : todo'[q] = todo[q]
        /\ \/ s = "noPath" /\ kind[r] = "all" /\ status' = status
           \/ s = "invalid" /\ todo'[r] = {} /\ status' = status
           \/ s = "next" /\ status' = [status EXCEPT ![r] = "running"] /\ todo' = todo
  <2>1. todo[r] = scope[r]
    BY DEF Validate, NoPath, Invalid, Valid, At, IInv, RequestsSane
  <2> QED
    BY <2>1 DEF Validate, NoPath, Invalid, Valid, At, process, pipes, asked, result, checker, history,
                IInv, TypeOK
<1>2. /\ step'[r] = s /\ \A q \in Requests \ {r} : step'[q] = step[q] /\ status'[q] = status[q]
      /\ status[r] = "none" /\ ~failed[r] /\ todo[r] = scope[r]
      /\ status'[r] = IF s = "next" THEN "running" ELSE "none"
  BY <1>1 DEF IInv, TypeOK, RequestsSane, OutcomeInv, Numbered
<1>3. Numbered'
  <2>1. \A q \in Requests : step'[q] = "none" <=> step[q] = "none"
    BY <1>1, <1>2
  <2>2. \A q \in Requests : kind[q] = "one" =>
          /\ \A n, m \in todo'[q] : n = m
          /\ step'[q] \in Ended \cup {"clear"} => todo'[q] = {}
    BY <1>1, <1>2 DEF OutcomeInv, Numbered, Ended
  <2>3. \A q \in Requests : step'[q] \in {"none", "check"} => status'[q] = "none" /\ ~failed'[q]
    BY <1>1, <1>2 DEF OutcomeInv, Numbered
  <2>4. \A q \in Requests : step'[q] \in {"next"} \cup Swapping => status'[q] = "running"
                                                               /\ (kind[q] = "one" => ~failed'[q])
    BY <1>1, <1>2 DEF OutcomeInv, Numbered, Swapping
  <2> QED
    BY <1>1, <2>1, <2>2, <2>3, <2>4 DEF OutcomeInv, Numbered
<1>4. Succession'
  <2> SUFFICES ASSUME NEW q \in Requests, NEW p \in Requests, NEW n \in Names,
                      n \in todo'[q], n \in scope[p], n \notin todo'[p]
               PROVE  p <= q
    BY <1>1 DEF Succession
  <2>1. n \in todo[q]
    BY <1>1
  <2>2. CASE n \in todo[p]
    <3>1. p = q
      BY <2>1, <2>2, TodoApart DEF OutcomeInv
    <3> QED
      BY <3>1, RequestsInt
  <2>3. CASE n \notin todo[p]
    BY <2>1, <2>3 DEF OutcomeInv, Succession
  <2> QED
    BY <2>2, <2>3
<1>5. NoneSkipped'
  BY <1>1, <1>2 DEF OutcomeInv, NoneSkipped
<1>6. NewRuns'
  BY <1>1, <1>2 DEF OutcomeInv, NewRuns, New, Name
<1>7. Serving'
  BY <1>1, <1>2 DEF OutcomeInv, Serving, Swapping, Name
<1>8. Healthy'
  <2> SUFFICES ASSUME Orderly
               PROVE  /\ \A p, q \in InProgress' : p = q
                      /\ InProgress' = {} => health = Installed
                      /\ \A q \in InProgress' :
                            /\ step'[q] \in {"check", "clear"} => health = Installed
                            /\ step'[q] \in {"next"} \cup Swapping /\ kind[q] = "one" => health = Installed
                            /\ step'[q] = "set" => seen[q] = Installed
    BY <1>1 DEF Healthy, Orderly, Installed
  <2>1. r \in InProgress /\ InProgress' \subseteq InProgress
    BY <1>1, <1>2 DEF InProgress, Ended
  <2>2. health = Installed /\ InProgress = {r}
    BY <1>1, <2>1 DEF OutcomeInv, Healthy
  <2> QED
    BY <1>1, <1>2, <2>1, <2>2
<1> QED
  BY <1>3, <1>4, <1>5, <1>6, <1>7, <1>8 DEF OutcomeInv

LEMMA RefreshOutcome ==
    ASSUME IInv, OutcomeInv, NEW r \in Requests, Refresh(r)
    PROVE  OutcomeInv'
<1>1. PICK s \in {"set", "clear", "done"} :
        /\ step' = [step EXCEPT ![r] = s]
        /\ UNCHANGED <<main, plan, signalled, current, life, old, failed, status, todo,
                       kind, scope, overlapped>>
        /\ \/ step[r] = "copy" /\ s = "set" /\ seen'[r] = Installed /\ health' = health
           \/ step[r] = "set" /\ s \in {"clear", "done"} /\ health' = seen[r]
           \/ step[r] = "clear" /\ s = "done" /\ health' = health
  BY DEF Refresh, CopyPipelines, SetPipelines, ClearFlag, Last, At, process, pipes, asked, result,
         checker, history, IInv, TypeOK
<1>2. /\ step'[r] = s /\ \A q \in Requests \ {r} : step'[q] = step[q]
      /\ step[r] \in {"copy", "set", "clear"} /\ Installed' = Installed
  BY <1>1 DEF IInv, TypeOK, Installed
<1>3. Numbered'
  <2>1. todo[r] = {}
    BY <1>2 DEF IInv, TypeOK, RequestsSane, OutcomeInv, Numbered
  <2> QED
    BY <1>1, <1>2, <2>1 DEF OutcomeInv, Numbered, Ended, Swapping
<1>4. Succession' /\ NoneSkipped'
  BY <1>1 DEF OutcomeInv, Succession, NoneSkipped
<1>5. NewRuns'
  BY <1>1, <1>2 DEF OutcomeInv, NewRuns, New, Name
<1>6. Serving'
  BY <1>1, <1>2 DEF OutcomeInv, Serving, Swapping, Name
<1>7. Healthy'
  <2> SUFFICES ASSUME Orderly
               PROVE  /\ \A p, q \in InProgress' : p = q
                      /\ InProgress' = {} => health' = Installed
                      /\ \A q \in InProgress' :
                            /\ step'[q] \in {"check", "clear"} => health' = Installed
                            /\ step'[q] \in {"next"} \cup Swapping /\ kind[q] = "one" => health' = Installed
                            /\ step'[q] = "set" => seen'[q] = Installed
    BY <1>1, <1>2 DEF Healthy, Orderly
  <2>1. r \in InProgress /\ InProgress' \subseteq InProgress
    BY <1>1, <1>2 DEF InProgress, Ended
  <2>2. InProgress = {r} /\ (step[r] = "clear" => health = Installed)
        /\ (step[r] = "set" => seen[r] = Installed)
    BY <2>1 DEF OutcomeInv, Healthy
  <2>3. InProgress' = IF s = "done" THEN {} ELSE {r}
    BY <1>1, <1>2, <2>1, <2>2 DEF InProgress, Ended
  <2> QED
    BY <1>1, <1>2, <2>1, <2>2, <2>3 DEF Swapping
<1> QED
  BY <1>3, <1>4, <1>5, <1>6, <1>7 DEF OutcomeInv

(* swapPipeline up to the point where the new pipeline is installed: the   *)
(* request stays with one name, which is out of service.                   *)
LEMMA SwapBegun ==
    ASSUME IInv, OutcomeInv, NEW r \in Requests, NEW s \in Swapping,
           step[r] \in {"next"} \cup Swapping, step' = [step EXCEPT ![r] = s],
           UNCHANGED <<main, plan, signalled, current, asked, todo, result, checker, overlapped>>,
           \A q \in Requests \ {r} : old'[q] = old[q],
           step[r] \in Swapping => old'[r] = old[r]
    PROVE  /\ Numbered' /\ Succession' /\ NoneSkipped' /\ Healthy'
           /\ \A q \in Requests : step[q] \in Swapping => step'[q] \in Swapping /\ Name(q)' = Name(q)
           /\ step'[r] \in Swapping
<1>1. step'[r] = s /\ \A q \in Requests \ {r} : step'[q] = step[q]
  BY DEF IInv, TypeOK
<1>2. Numbered'
  BY <1>1 DEF OutcomeInv, Numbered, Swapping, Ended, asked, result
<1>3. Succession' /\ NoneSkipped'
  BY DEF OutcomeInv, Succession, NoneSkipped, asked, result
<1>4. Healthy'
  <2>1. InProgress' = InProgress /\ Installed' = Installed
    BY <1>1 DEF InProgress, Swapping, Ended, Installed
  <2>2. Orderly' => Orderly
    BY DEF Orderly, asked, result
  <2> QED
    BY <1>1, <2>1, <2>2 DEF OutcomeInv, Healthy, Swapping, asked, result, checker
<1>5. \A q \in Requests : step[q] \in Swapping => step'[q] \in Swapping /\ Name(q)' = Name(q)
  BY <1>1 DEF Name
<1> QED
  BY <1>1, <1>2, <1>3, <1>4, <1>5

LEMMA StopOldOutcome ==
    ASSUME IInv, OutcomeInv, NEW r \in Requests, StopOld(r)
    PROVE  OutcomeInv'
<1>1. PICK n \in todo[r] : /\ old' = [old EXCEPT ![r] = <<n, current[n]>>]
                           /\ life' = Cancelled(<<n, current[n]>>)
  BY DEF StopOld, OldOf
<1>2. /\ step[r] = "next" /\ step' = [step EXCEPT ![r] = "stop"]
      /\ UNCHANGED <<main, plan, signalled, current, asked, todo, result, checker, overlapped>>
  BY DEF StopOld, At, process, history
<1>3. n \in Names /\ old'[r] = <<n, current[n]>> /\ \A q \in Requests \ {r} : old'[q] = old[q]
  BY <1>1 DEF IInv, TypeOK
<1>4. /\ Numbered' /\ Succession' /\ NoneSkipped' /\ Healthy'
      /\ \A q \in Requests : step[q] \in Swapping => step'[q] \in Swapping /\ Name(q)' = Name(q)
      /\ step'[r] \in Swapping
  BY <1>2, <1>3, SwapBegun DEF Swapping
<1>5. /\ <<n, current[n]>> \in Pipelines
      /\ \A p \in Pipelines : p # <<n, current[n]>> => life'[p] = life[p]
  BY <1>1, <1>3 DEF IInv, TypeOK, Cancelled, Pipelines
<1>6. NewRuns'
  <2> SUFFICES ASSUME NEW q \in Requests, step'[q] = "install", main \notin {"stopping", "exited"}
               PROVE  life'[New(q)'] = "running"
    BY <1>2 DEF NewRuns
  <2>1. q # r /\ step[q] = "install" /\ New(q)' = New(q)
    BY <1>2, <1>3 DEF IInv, TypeOK, New, Name
  <2>2. New(q) \in Pipelines /\ life[New(q)] = "running" /\ Name(q) \in todo[q]
    BY <2>1, SwappingFacts DEF Swapping, OutcomeInv, NewRuns, IInv, RequestsSane
  <2>3. Name(q) # n
    BY <1>1, <2>1, <2>2, TodoApart DEF OutcomeInv
  <2> QED
    BY <1>5, <2>1, <2>2, <2>3 DEF New
<1>7. Serving'
  <2> SUFFICES ASSUME main \in {"starting", "up"}, ~signalled, NEW m \in Names
               PROVE  \/ life'[<<m, current[m]>>] = "running"
                      \/ main = "starting" /\ <<m, current[m]>> \in plan
                      \/ \E q \in Requests : step'[q] \in Swapping /\ m = Name(q)'
                      \/ \E q \in Requests : m \in scope[q] /\ failed[q]
    BY <1>2 DEF Serving, asked, result
  <2>1. CASE m = n
    BY <1>3, <1>4, <2>1 DEF Name
  <2>2. CASE m # n
    <3>1. <<m, current[m]>> \in Pipelines
      BY DEF IInv, TypeOK, Pipelines
    <3>2. life'[<<m, current[m]>>] = life[<<m, current[m]>>]
      BY <1>5, <2>2, <3>1
    <3> QED
      BY <1>4, <3>2 DEF OutcomeInv, Serving
  <2> QED
    BY <2>1, <2>2
<1> QED
  BY <1>4, <1>6, <1>7 DEF OutcomeInv

LEMMA OldStoppedOutcome ==
    ASSUME IInv, OutcomeInv, NEW r \in Requests, OldStopped(r)
    PROVE  OutcomeInv'
<1>1. /\ step[r] = "stop" /\ step' = [step EXCEPT ![r] = "start"] /\ old' = old /\ life' = life
      /\ UNCHANGED <<main, plan, signalled, current, asked, todo, result, checker, overlapped>>
  BY DEF OldStopped, At, process, pipes
<1>2. /\ Numbered' /\ Succession' /\ NoneSkipped' /\ Healthy'
      /\ \A q \in Requests : step[q] \in Swapping => step'[q] \in Swapping /\ Name(q)' = Name(q)
  BY <1>1, SwapBegun DEF Swapping
<1>3. NewRuns'
  BY <1>1 DEF IInv, TypeOK, OutcomeInv, NewRuns, New, Name
<1>4. Serving'
  BY <1>1, <1>2 DEF OutcomeInv, Serving, asked, result
<1> QED
  BY <1>2, <1>3, <1>4 DEF OutcomeInv

LEMMA StartNewOutcome ==
    ASSUME IInv, OutcomeInv, NEW r \in Requests, StartNew(r)
    PROVE  OutcomeInv'
<1>1. /\ step[r] = "start" /\ step' = [step EXCEPT ![r] = "install"] /\ old' = old
      /\ life' = [life EXCEPT ![New(r)] = "running"]
      /\ UNCHANGED <<main, plan, signalled, current, asked, todo, result, checker, overlapped>>
  BY DEF StartNew, At, process, history
<1>2. /\ Numbered' /\ Succession' /\ NoneSkipped' /\ Healthy'
      /\ \A q \in Requests : step[q] \in Swapping => step'[q] \in Swapping /\ Name(q)' = Name(q)
  BY <1>1, SwapBegun DEF Swapping
<1>3. New(r) \in Pipelines /\ life'[New(r)] = "running"
      /\ \A p \in Pipelines : life[p] = "running" => life'[p] = "running"
  BY <1>1, SwappingFacts DEF Swapping, IInv, TypeOK
<1>4. NewRuns'
  <2> SUFFICES ASSUME NEW q \in Requests, step'[q] = "install", main \notin {"stopping", "exited"}
               PROVE  life'[New(q)] = "running"
    BY <1>1 DEF NewRuns, New, Name
  <2>1. CASE q = r
    BY <1>3, <2>1
  <2>2. CASE q # r
    BY <1>1, <1>3, <2>2, SwappingFacts DEF Swapping, IInv, TypeOK, OutcomeInv, NewRuns
  <2> QED
    BY <2>1, <2>2
<1>5. Serving'
  <2>1. \A n \in Names : <<n, current[n]>> \in Pipelines
    BY DEF IInv, TypeOK, Pipelines
  <2> QED
    BY <1>1, <1>2, <1>3, <2>1 DEF OutcomeInv, Serving, asked, result
<1> QED
  BY <1>2, <1>4, <1>5 DEF OutcomeInv

LEMMA BreakOffOutcome ==
    ASSUME IInv, OutcomeInv, NEW r \in Requests, BreakOff(r)
    PROVE  OutcomeInv'
<1>1. /\ step[r] = "next" /\ kind[r] = "all" /\ failed' = [failed EXCEPT ![r] = TRUE]
      /\ step' = [step EXCEPT ![r] = "done"] /\ status' = [status EXCEPT ![r] = "failed"]
      /\ UNCHANGED <<main, plan, signalled, current, life, asked, todo, old, checker, overlapped>>
  BY DEF IInv, TypeOK, BreakOff, Conclude, Last, Outcome, At, process, pipes, history
<1>2. /\ step'[r] = "done" /\ failed'[r] = TRUE /\ status'[r] = "failed"
      /\ \A q \in Requests \ {r} : /\ step'[q] = step[q] /\ failed'[q] = failed[q]
                                   /\ status'[q] = status[q]
  BY <1>1 DEF IInv, TypeOK
<1>3. Numbered'
  BY <1>1, <1>2 DEF OutcomeInv, Numbered, Ended, Swapping, asked
<1>4. Succession' /\ NoneSkipped'
  BY <1>1, <1>2 DEF OutcomeInv, Succession, NoneSkipped, asked
<1>5. NewRuns'
  BY <1>1, <1>2 DEF OutcomeInv, NewRuns, New, Name
<1>6. Serving'
  BY <1>1, <1>2 DEF OutcomeInv, Serving, Swapping, Name, asked
<1>7. Healthy'
  BY <1>1, <1>2 DEF Healthy, Orderly, asked
<1> QED
  BY <1>3, <1>4, <1>5, <1>6, <1>7 DEF OutcomeInv

(* swapPipeline returns: with an error the reload has failed, without one  *)
(* the new pipeline is the installed one.                                  *)
LEMMA AfterSwapOutcome ==
    ASSUME IInv, OutcomeInv, NEW r \in Requests, step[r] \in Swapping, life' = life,
           \/ AfterSwap(r, TRUE) /\ current' = current
           \/ /\ AfterSwap(r, FALSE) /\ step[r] = "install"
              /\ current' = [current EXCEPT ![Name(r)] = r]
    PROVE  OutcomeInv'
<1>1. PICK err \in BOOLEAN :
        /\ AfterSwap(r, err)
        /\ \/ err /\ current' = current
           \/ ~err /\ step[r] = "install" /\ current' = [current EXCEPT ![Name(r)] = r]
  OBVIOUS
<1>2. PICK s \in {"next", "copy", "clear", "done"}, o \in {"running", "succeeded", "failed"} :
        /\ step' = [step EXCEPT ![r] = s] /\ status'[r] \in {status[r], o}
        /\ \A q \in Requests \ {r} : status'[q] = status[q]
        /\ failed' = [failed EXCEPT ![r] = failed[r] \/ err]
        /\ todo' = [todo EXCEPT ![r] = @ \ {Name(r)}]
        /\ UNCHANGED <<main, plan, signalled, asked, checker, overlapped>>
        /\ s = "next" <=> todo'[r] # {}
        /\ s = "next" => status' = status
        /\ s # "next" => status'[r] = IF failed'[r] THEN "failed" ELSE "succeeded"
        /\ s = "clear" => kind[r] = "one"
        /\ s \in {"clear", "done"} => failed'[r]
        /\ s = "copy" => ~failed'[r]
        /\ \A q \in Requests \ {r} : old'[q] = old[q]
  BY <1>1 DEF AfterSwap, Conclude, Last, Outcome, FirstErr, process, history, IInv, TypeOK
<1>3. /\ Name(r) \in Names /\ Name(r) \in todo[r] /\ Name(r) \in scope[r]
      /\ New(r) \in Pipelines /\ current \in [Names -> Makers]
  BY SwappingFacts DEF IInv, TypeOK, RequestsSane
<1>4. /\ step'[r] = s /\ failed'[r] = (failed[r] \/ err) /\ todo'[r] = todo[r] \ {Name(r)}
      /\ \A q \in Requests \ {r} : /\ step'[q] = step[q] /\ failed'[q] = failed[q]
                                   /\ todo'[q] = todo[q] /\ Name(q)' = Name(q)
  BY <1>2 DEF IInv, TypeOK, Name
<1>5. /\ \A n \in Names \ {Name(r)} : current'[n] = current[n]
      /\ err => current' = current
      /\ ~err => current'[Name(r)] = r /\ life[New(r)] # "none"
  BY <1>1, <1>3 DEF IInv, OldDown
<1>6. Numbered'
  <2>1. \A q \in Requests : step'[q] = "none" <=> step[q] = "none"
    BY <1>2, <1>4 DEF Swapping
  <2>2. \A q \in Requests : step'[q] \in {"none", "check"} => status'[q] = "none" /\ ~failed'[q]
    BY <1>2, <1>4 DEF OutcomeInv, Numbered
  <2>3. \A q \in Requests : kind[q] = "one" =>
          /\ \A n, m \in todo'[q] : n = m
          /\ step'[q] \in Ended \cup {"clear"} => todo'[q] = {}
    BY <1>2, <1>4 DEF OutcomeInv, Numbered, Ended
  <2>4. \A q \in Requests : step'[q] \in {"next"} \cup Swapping =>
                             status'[q] = "running" /\ (kind[q] = "one" => ~failed'[q])
    <3>1. kind[r] = "one" => todo'[r] = {}
      BY <1>3, <1>4 DEF OutcomeInv, Numbered
    <3>2. s = "next" => status'[r] = "running" /\ kind[r] # "one"
      BY <1>2, <3>1 DEF OutcomeInv, Numbered
    <3>3. s \notin Swapping
      BY DEF Swapping
    <3> QED
      BY <1>2, <1>4, <3>2, <3>3 DEF OutcomeInv, Numbered
  <2>5. \A q \in Requests : /\ step'[q] = "invalid" => todo'[q] = {}
                           /\ step'[q] = "done" => failed'[q] \/ todo'[q] = {}
    <3>1. s # "invalid" /\ (s = "done" => failed'[r])
      BY <1>2
    <3> QED
      BY <1>2, <1>4, <3>1 DEF OutcomeInv, Numbered
  <2> QED
    BY <1>2, <2>1, <2>2, <2>3, <2>4, <2>5 DEF OutcomeInv, Numbered, asked
<1>7. Succession'
  <2> SUFFICES ASSUME NEW q \in Requests, NEW p \in Requests, NEW n \in Names,
                      n \in todo'[q], n \in scope[p], n \notin todo'[p]
               PROVE  p <= q
    BY <1>2 DEF Succession, asked
  <2>1. n \in todo[q]
    BY <1>4
  <2>2. CASE n \in todo[p]
    <3>1. p = q
      BY <2>1, <2>2, TodoApart DEF OutcomeInv
    <3> QED
      BY <3>1, RequestsInt
  <2>3. CASE n \notin todo[p]
    BY <2>1, <2>3 DEF OutcomeInv, Succession
  <2> QED
    BY <2>2, <2>3
<1>8. NoneSkipped'
  <2> SUFFICES ASSUME NEW q \in Requests
               PROVE  /\ status'[q] # "none" /\ ~failed'[q] =>
                            \A n \in scope[q] : n \in todo'[q] \/ current'[n] >= q
                      /\ status'[q] = "succeeded" => ~failed'[q] /\ todo'[q] = {}
    BY <1>2 DEF NoneSkipped, asked
  <2>0. status[q] # "none" /\ ~failed[q] => \A n \in scope[q] : n \in todo[q] \/ current[n] >= q
    BY DEF OutcomeInv, NoneSkipped
  <2>1. \A n \in scope[q] : n \in Names
    BY DEF IInv, TypeOK
  <2>2. CASE q = r
    <3>1. status[r] # "none"
      BY DEF OutcomeInv, Numbered
    <3>2. status'[r] = "succeeded" => ~failed'[r] /\ todo'[r] = {}
      BY <1>2, <1>4 DEF OutcomeInv, NoneSkipped
    <3>3. r >= r
      BY RequestsInt
    <3> QED
      BY <1>4, <1>5, <2>0, <2>1, <2>2, <3>1, <3>2, <3>3
  <2>3. CASE q # r
    <3>1. ASSUME NEW n \in scope[q], current[n] >= q, n \notin todo[q]
          PROVE  current'[n] >= q
      <4>1. CASE n = Name(r) /\ ~err
        <5>1. q <= r
          BY <1>3, <2>1, <3>1, <4>1 DEF OutcomeInv, Succession
        <5> QED
          BY <1>5, <4>1, <5>1, RequestsInt
      <4>2. CASE n # Name(r) \/ err
        BY <1>5, <2>1, <3>1, <4>2
      <4> QED
        BY <4>1, <4>2
    <3> QED
      BY <1>2, <1>4, <2>0, <2>3, <3>1 DEF OutcomeInv, NoneSkipped
  <2> QED
    BY <2>2, <2>3
<1>9. NewRuns'
  BY <1>2, <1>4 DEF OutcomeInv, NewRuns, New
<1>10. Serving'
  <2> SUFFICES ASSUME main \in {"starting", "up"}, ~signalled, NEW m \in Names
               PROVE  \/ life[<<m, current'[m]>>] = "running"
                      \/ main = "starting" /\ <<m, current'[m]>> \in plan
                      \/ \E q \in Requests : step'[q] \in Swapping /\ m = Name(q)'
                      \/ \E q \in Requests : m \in scope[q] /\ failed'[q]
    BY <1>2 DEF Serving, asked
  <2>1. CASE m = Name(r) /\ err
    BY <1>3, <1>4, <2>1
  <2>2. CASE m = Name(r) /\ ~err
    <3>1. step[r] = "install" /\ current'[m] = r
      BY <1>1, <1>5, <2>2
    <3>2. life[New(r)] = "running"
      BY <3>1 DEF OutcomeInv, NewRuns
    <3> QED
      BY <2>2, <3>1, <3>2 DEF New
  <2>3. CASE m # Name(r)
    <3>1. \/ life[<<m, current[m]>>] = "running"
          \/ main = "starting" /\ <<m, current[m]>> \in plan
          \/ \E q \in Requests : step[q] \in Swapping /\ m = Name(q)
          \/ \E q \in Requests : m \in scope[q] /\ failed[q]
      BY DEF OutcomeInv, Serving
    <3>2. current'[m] = current[m]
      BY <1>5, <2>3
    <3>3. \A q \in Requests : m \in scope[q] /\ failed[q] => failed'[q]
      BY <1>4
    <3>4. \A q \in Requests : step[q] \in Swapping /\ m = Name(q) =>
                                 step'[q] \in Swapping /\ m = Name(q)'
      BY <1>4, <2>3
    <3> QED
      BY <3>1, <3>2, <3>3, <3>4
  <2> QED
    BY <2>1, <2>2, <2>3
<1>11. Healthy'
  <2> SUFFICES ASSUME Orderly'
               PROVE  /\ \A p, q \in InProgress' : p = q
                      /\ InProgress' = {} => health = Installed'
                      /\ \A q \in InProgress' :
                            /\ step'[q] \in {"check", "clear"} => health = Installed'
                            /\ step'[q] \in {"next"} \cup Swapping /\ kind[q] = "one" => health = Installed'
                            /\ step'[q] = "set" => seen[q] = Installed'
    BY <1>2 DEF Healthy, asked, checker
  <2>1. Orderly /\ (kind[r] = "all" => ~failed'[r])
    BY <1>2, <1>4 DEF Orderly, asked
  <2>2. r \in InProgress /\ InProgress' \subseteq InProgress
    BY <1>2, <1>4 DEF InProgress, Swapping, Ended
  <2>3. /\ InProgress = {r}
        /\ kind[r] = "one" => health = Installed
    BY <2>1, <2>2 DEF OutcomeInv, Healthy
  <2>4. kind[r] = "one" \/ kind[r] = "all"
    BY DEF IInv, TypeOK
  <2>5. CASE s = "done" \/ s = "clear"
    <3>1. kind[r] = "one" /\ failed'[r]
      BY <1>2, <2>1, <2>4, <2>5
    <3>2. err
      BY <1>4, <3>1 DEF OutcomeInv, Numbered
    <3>3. Installed' = Installed
      BY <3>2, <1>5 DEF Installed
    <3> QED
      BY <1>4, <2>2, <2>3, <2>5, <3>1, <3>3 DEF Swapping
  <2>6. CASE s = "copy"
    BY <1>4, <2>2, <2>3, <2>6 DEF InProgress, Ended, Swapping
  <2>7. CASE s = "next"
    <3>1. kind[r] # "one"
      BY <1>2, <1>3, <1>4, <2>7 DEF OutcomeInv, Numbered
    <3>2. r \in InProgress'
      BY <1>4, <2>7 DEF InProgress, Ended
    <3> QED
      BY <1>4, <2>2, <2>3, <2>7, <3>1, <3>2 DEF Swapping
  <2> QED
    BY <2>5, <2>6, <2>7
<1> QED
  BY <1>6, <1>7, <1>8, <1>9, <1>10, <1>11 DEF OutcomeInv

-----------------------------------------------------------------------------
(* main, the signal and the goroutines; every step.                        *)
LEMMA MainOutcome ==
    ASSUME IInv, OutcomeInv, Main
    PROVE  OutcomeInv'
<1>1. UNCHANGED <<current, asked, step, todo, old, result, checker, overlapped>>
  BY DEF Main, EngineStart, StartFails, Started, EngineStop, Exit, StartOne, StopOne, UnchangedByMain
<1>2. Numbered' /\ Succession' /\ NoneSkipped' /\ Healthy'
  BY <1>1, NoRequestMoves
<1>3. main' \notin {"stopping", "exited"} =>
        /\ main \notin {"stopping", "exited"}
        /\ \A p \in Pipelines : life[p] = "running" => life'[p] = "running"
  BY DEF Main, EngineStart, StartFails, Started, EngineStop, Exit, StartOne, StopOne, IInv, TypeOK
<1>4. NewRuns'
  <2> SUFFICES ASSUME NEW q \in Requests, step[q] = "install", main' \notin {"stopping", "exited"}
               PROVE  life'[New(q)] = "running"
    BY <1>1 DEF NewRuns, New, Name
  <2>1. New(q) \in Pipelines
    BY SwappingFacts DEF Swapping
  <2> QED
    BY <1>3, <2>1 DEF OutcomeInv, NewRuns
<1>5. Serving'
  <2> SUFFICES ASSUME main' \in {"starting", "up"}, ~signalled', NEW n \in Names
               PROVE  \/ life'[<<n, current[n]>>] = "running"
                      \/ main' = "starting" /\ <<n, current[n]>> \in plan'
                      \/ \E r \in Requests : step[r] \in Swapping /\ n = Name(r)
                      \/ \E r \in Requests : n \in scope[r] /\ failed[r]
    BY <1>1 DEF Serving, Name, asked, result
  <2>1. <<n, current[n]>> \in Pipelines
    BY DEF IInv, TypeOK, Pipelines
  <2>2. CASE EngineStart
    BY <2>2 DEF EngineStart, Installed
  <2>3. CASE Started
    <3>1. main = "starting" /\ plan = {} /\ life' = life /\ ~signalled
      BY <2>3 DEF Started
    <3> QED
      BY <3>1 DEF OutcomeInv, Serving
  <2>4. ASSUME NEW p \in Pipelines, StartOne(p)
        PROVE  \/ life'[<<n, current[n]>>] = "running"
               \/ main' = "starting" /\ <<n, current[n]>> \in plan'
               \/ \E r \in Requests : step[r] \in Swapping /\ n = Name(r)
               \/ \E r \in Requests : n \in scope[r] /\ failed[r]
    <3>1. /\ main = "starting" /\ main' = main /\ ~signalled /\ plan' = plan \ {p}
          /\ life' = [life EXCEPT ![p] = "running"]
      BY <2>4 DEF StartOne
    <3>2. life'[p] = "running"
      BY <3>1 DEF IInv, TypeOK
    <3>3. life[<<n, current[n]>>] = "running" => life'[<<n, current[n]>>] = "running"
      BY <1>3, <2>1, <3>1
    <3>4. <<n, current[n]>> \in plan => <<n, current[n]>> \in plan' \/ <<n, current[n]>> = p
      BY <3>1
    <3> QED
      BY <3>1, <3>2, <3>3, <3>4 DEF OutcomeInv, Serving
  <2> QED
    BY <2>2, <2>3, <2>4 DEF Main, StartFails, EngineStop, Exit, StopOne
<1> QED
  BY <1>2, <1>4, <1>5 DEF OutcomeInv

(* A signal takes down the pipelines of Engine.Start only.                 *)
LEMMA FewerRunningOutcome ==
    ASSUME IInv, OutcomeInv, Signal \/ \E p \in Pipelines : GoroutinesReturn(p)
    PROVE  OutcomeInv'
<1>1. /\ UNCHANGED <<main, plan, current, asked, step, todo, old, result, checker, overlapped>>
      /\ \A p \in Pipelines : life[p] = "running" /\ p[2] # 0 => life'[p] = "running"
      /\ \/ signalled'
         \/ signalled' = signalled /\ \A p \in Pipelines : life[p] = "running" => life'[p] = "running"
  <2>1. CASE Signal
    BY <2>1 DEF Signal, UnchangedByMain, IInv, TypeOK
  <2>2. ASSUME NEW p \in Pipelines, GoroutinesReturn(p)
        PROVE  /\ UNCHANGED <<main, plan, signalled, current, asked, step, todo, old, result, checker,
                              overlapped>>
               /\ \A q \in Pipelines : life[q] = "running" => life'[q] = "running"
    BY <2>2 DEF GoroutinesReturn, process, history, IInv, TypeOK
  <2> QED
    BY <2>1, <2>2
<1>2. Numbered' /\ Succession' /\ NoneSkipped' /\ Healthy'
  BY <1>1, NoRequestMoves
<1>3. NewRuns'
  <2> SUFFICES ASSUME NEW q \in Requests, step[q] = "install", main \notin {"stopping", "exited"}
               PROVE  life'[New(q)] = "running"
    BY <1>1 DEF NewRuns, New, Name
  <2>1. New(q) \in Pipelines
    BY SwappingFacts DEF Swapping
  <2>2. New(q)[2] # 0
    BY DEF New, Requests
  <2> QED
    BY <1>1, <2>1, <2>2 DEF OutcomeInv, NewRuns
<1>4. Serving'
  <2>1. \A n \in Names : <<n, current[n]>> \in Pipelines
    BY DEF IInv, TypeOK, Pipelines
  <2> QED
    BY <1>1, <2>1 DEF OutcomeInv, Serving, Name, asked, result
<1> QED
  BY <1>2, <1>3, <1>4 DEF OutcomeInv

LEMMA InitOutcome == Init => OutcomeInv
<1> SUFFICES ASSUME Init PROVE OutcomeInv
  OBVIOUS
<1>1. \A r \in Requests : /\ step[r] = "none" /\ scope[r] = {} /\ todo[r] = {}
                          /\ status[r] = "none" /\ ~failed[r]
  BY DEF Init
<1>2. Numbered /\ Succession /\ NoneSkipped /\ NewRuns
  BY <1>1 DEF Numbered, Succession, NoneSkipped, NewRuns, Ended, Swapping
<1>3. Serving
  BY DEF Init, Serving
<1>4. Healthy
  BY <1>1 DEF Healthy, InProgress, Init
<1> QED
  BY <1>2, <1>3, <1>4 DEF OutcomeInv

LEMMA NextOutcome ==
    ASSUME IInv, OutcomeInv, [Next]_vars
    PROVE  OutcomeInv'
<1>1. CASE UNCHANGED vars
  <2>1. /\ UNCHANGED <<main, plan, signalled, current, life, asked, step, todo, old, result, checker,
                       overlapped>>
    BY <1>1 DEF vars, process, pipes, history
  <2>2. Numbered' /\ Succession' /\ NoneSkipped' /\ Healthy'
    BY <2>1, NoRequestMoves
  <2>3. NewRuns' /\ Serving'
    BY <2>1 DEF OutcomeInv, NewRuns, Serving, New, Name, asked, result
  <2> QED
    BY <2>2, <2>3 DEF OutcomeInv
<1>2. CASE Main
  BY <1>2, MainOutcome
<1>3. CASE Signal \/ \E p \in Pipelines : GoroutinesReturn(p)
  BY <1>3, FewerRunningOutcome
<1>4. ASSUME NEW r \in Requests, BeginReload(r) \/ BeginReloadAll(r)
      PROVE  OutcomeInv'
  <2>1. paths \subseteq Names
    BY DEF IInv, TypeOK
  <2>2. CASE BeginReload(r)
    <3>1. PICK n \in paths : Begin(r, "one", {n})
      BY <2>2 DEF BeginReload
    <3> QED
      BY <2>1, <3>1, BeginOutcome
  <2>3. CASE BeginReloadAll(r)
    BY <2>3, BeginOutcome DEF BeginReloadAll
  <2> QED
    BY <1>4, <2>2, <2>3
<1>5. ASSUME NEW r \in Requests, Validate(r)
      PROVE  OutcomeInv'
  BY <1>5, ValidateOutcome
<1>6. ASSUME NEW r \in Requests, Swap(r)
      PROVE  OutcomeInv'
  <2>1. CASE BreakOff(r) \/ StopOld(r) \/ OldStopped(r) \/ StartNew(r)
    BY <2>1, BreakOffOutcome, StopOldOutcome, OldStoppedOutcome, StartNewOutcome
  <2>2. CASE StopTimedOut(r) \/ StartNewFails(r)
    <3>1. step[r] \in Swapping /\ AfterSwap(r, TRUE) /\ current' = current /\ life' = life
      BY <2>2 DEF StopTimedOut, StartNewFails, At, Swapping, pipes
    <3> QED
      BY <3>1, AfterSwapOutcome
  <2>3. CASE Install(r)
    <3>1. /\ step[r] = "install" /\ AfterSwap(r, FALSE) /\ life' = life
          /\ current' = [current EXCEPT ![Name(r)] = r]
      BY <2>3 DEF Install, At
    <3> QED
      BY <3>1, AfterSwapOutcome DEF Swapping
  <2> QED
    BY <1>6, <2>1, <2>2, <2>3 DEF Swap
<1>7. ASSUME NEW r \in Requests, Refresh(r)
      PROVE  OutcomeInv'
  BY <1>7, RefreshOutcome
<1> QED
  BY <1>1, <1>2, <1>3, <1>4, <1>5, <1>6, <1>7 DEF Next, Terminated

LEMMA OutcomeInvariance == Spec => [](IInv /\ OutcomeInv)
<1>1. Init => IInv /\ OutcomeInv
  BY InitInv, InitOutcome
<1>2. (IInv /\ OutcomeInv) /\ [Next]_vars => (IInv /\ OutcomeInv)'
  BY NextInv, NextOutcome
<1> QED
  BY <1>1, <1>2, PTL DEF Spec

(* The reloading flags are locks, whatever fails and in whatever order the *)
(* requests come: BeginReload and BeginReloadAll never let two goroutines  *)
(* swap the same name, no flag is cleared by anybody but its owner, and    *)
(* none outlasts its owner, but for those a reload of all has Abandoned.   *)
THEOREM FlagsLock == Spec => []FlagsAreLocks
<1>1. IInv /\ OutcomeInv => FlagsAreLocks
  <2> SUFFICES ASSUME IInv, OutcomeInv
               PROVE  FlagsAreLocks
    OBVIOUS
  <2>1. \A r \in Requests : Holds(r) \subseteq Claims(r)
    BY DEF Holds, Claims, InProgress
  <2>2. ASSUME NEW r \in Requests
        PROVE  Claims(r) \subseteq Holds(r) \cup Abandoned(r)
    <3>1. CASE r \in InProgress
      BY <3>1 DEF Holds, Claims, InProgress
    <3>2. CASE step[r] = "none"
      BY <3>2 DEF IInv, RequestsSane, Claims
    <3>3. CASE step[r] \in Ended
      BY <3>3 DEF IInv, TypeOK, OutcomeInv, Numbered, Claims, Abandoned, Ended
    <3> QED BY <3>1, <3>2, <3>3 DEF InProgress
  <2> QED BY <2>1, <2>2 DEF IInv, FlagsInv, FlagsAreLocks
<1> QED
  BY <1>1, OutcomeInvariance, PTL

(* A reload reports success only when each of its names has the pipeline   *)
(* it built, or that of a later request (runReload, runReloadAll).         *)
THEOREM SuccessMeansAll == Spec => []SuccessIsComplete
<1>1. OutcomeInv => SuccessIsComplete
  BY DEF OutcomeInv, NoneSkipped, SuccessIsComplete
<1> QED
  BY <1>1, OutcomeInvariance, PTL

(* While the engine is up, a pipeline that does not run is being reloaded  *)
(* or its reload has failed: no interleaving of reloads with Engine.Start  *)
(* leaves one down unnoticed.                                              *)
THEOREM AlwaysInService == Spec => []InService
<1>1. IInv /\ OutcomeInv => InService
  <2> SUFFICES ASSUME IInv, OutcomeInv, main = "up", ~signalled, NEW n \in Names
               PROVE  \/ life[<<n, current[n]>>] = "running"
                      \/ n \in reloading
                      \/ \E r \in Requests : n \in scope[r] /\ failed[r]
    BY DEF InService
  <2>1. \A r \in Requests : step[r] \in Swapping => Name(r) \in reloading
    BY SwappingFacts DEF IInv, FlagsInv
  <2> QED
    BY <2>1 DEF OutcomeInv, Serving
<1> QED
  BY <1>1, OutcomeInvariance, PTL

(* refreshHealthChecker leaves the readiness checker with the installed    *)
(* pipelines unless two reloads were in progress together or one of        *)
(* several names failed half-way.                                          *)
THEOREM CheckerIsCurrent == Spec => []HealthCurrent
<1>1. OutcomeInv => HealthCurrent
  BY DEF OutcomeInv, Healthy, Orderly, HealthCurrent
<1> QED
  BY <1>1, OutcomeInvariance, PTL
=============================================================================
